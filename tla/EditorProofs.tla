---------------------------- MODULE EditorProofs ----------------------------
(***************************************************************************)
(* Proofs about ViewEditor: the types; that no edit which gave a version   *)
(* is lost or applied to another row; that requests which overlap are like *)
(* requests one after the other (the module implements Catalog); and that  *)
(* the previews learn of every view that comes, goes, or is no longer      *)
(* parsable.                                                               *)
(***************************************************************************)
EXTENDS ViewEditor, TLAPS

\* The records a thread may hold are told apart by their fields.
LEMMA Apart ==
  ASSUME NEW e \in Edit
  PROVE  e \notin DVEdit /\ e # Idle
  <1>1. "name" \in DOMAIN e
    BY DEF Edit
  <1>2. "name" \notin DOMAIN Idle
    BY DEF Idle
  <1>3. \A d \in DVEdit : "name" \notin DOMAIN d
    BY DEF DVEdit
  <1>4. QED
    BY <1>1, <1>2, <1>3

\* An edit keeps id and version of the row it has read together, and a version
\* that the client gave is that row's.
Known(e) ==
  /\ e.id = None <=> e.ver = None
  /\ e.given # None => e.id # None /\ e.ver = e.given

EditInv == TypeOK /\ \A t \in Threads : thread[t] \in Edit => Known(thread[t])

LEMMA NoneApart == None \notin (0..MaxId) \cup (0..MaxVersion) \cup (0..MaxTouches)
  BY EditorAssumption DEF EditorAssumption

-----------------------------------------------------------------------------
\* What an edit stores is the content of a row.
LEMMA StoredType ==
  ASSUME NEW view \in Content \cup {None}, NEW in \in Input
  PROVE  Stored(view, in) \in Content
  <1>1. Before(view) \in Content
    BY DEF Before, Content
  <1>2. /\ in.ddl \in DDL \cup {None} /\ in.path \in Paths \cup {None}
        /\ in.complete \in BOOLEAN /\ in.userDefined \in BOOLEAN
        /\ Before(view).parsable \in BOOLEAN
    BY <1>1 DEF Input, Content
  <1>3. CASE Generates(view, in)
    <2>2. Generated(in.path) \in DDL
      BY <1>2 DEF Generated, DDL
    <2>3. Stored(view, in) =
            [ddl |-> Generated(in.path), path |-> in.path, complete |-> in.complete,
             userDefined |-> in.userDefined, parsable |-> TRUE]
      <3>1. ~Parses(view, in)
        BY <1>3 DEF Generates, Parses
      <3>2. QED
        BY <1>3, <3>1 DEF Stored
    <2>4. QED
      BY <1>2, <2>2, <2>3 DEF Content
  <1>4. CASE ~Generates(view, in) /\ Parses(view, in)
    <2> DEFINE p == \/ in.ddl.kind = "view"
                    \/ in.ddl.kind = "partial" /\ Before(view).parsable
    <2>1. Stored(view, in) =
            [ddl |-> in.ddl, path |-> None, complete |-> in.complete,
             userDefined |-> in.userDefined, parsable |-> p]
      BY <1>4 DEF Stored
    <2>2. p \in BOOLEAN
      BY Zenon
    <2>3. QED
      BY <1>2, <2>1, <2>2 DEF Content
  <1>5. CASE ~Generates(view, in) /\ ~Parses(view, in)
    <2>1. Stored(view, in) =
            [ddl |-> in.ddl, path |-> in.path, complete |-> in.complete,
             userDefined |-> in.userDefined, parsable |-> Before(view).parsable]
      BY <1>5 DEF Stored
    <2>2. QED
      BY <1>2, <2>1 DEF Content
  <1>6. QED
    BY <1>3, <1>4, <1>5

LEMMA ValidatedType ==
  ASSUME NEW in \in Input
  PROVE  Validated(in) \in Input
  <1>1. CASE in.ddl # None /\ in.ddl.kind = "view"
    <2>1. in.ddl.of \in Paths \cup {None}
      BY <1>1 DEF Input, DDL
    <2>2. QED
      BY <1>1, <2>1 DEF Validated, Input
  <1>2. CASE ~(in.ddl # None /\ in.ddl.kind = "view")
    BY <1>2 DEF Validated
  <1>3. QED
    BY <1>1, <1>2

LEMMA TouchesType == \A view, in : Touches(view, in) \in BOOLEAN
  BY DEF Touches

LEMMA EditedType ==
  ASSUME TypeOK, NEW n \in Names, NEW view \in Content \cup {None}, NEW touch \in BOOLEAN,
         NEW given \in (0..MaxVersion) \cup {None},
         given # None => rows[n] # None /\ given = rows[n].ver
  PROVE  Edited(n, view, touch, given) \in Edit /\ Known(Edited(n, view, touch, given))
  <1>1. rows[n] \in Row \cup {None}
    BY DEF TypeOK
  <1>2. CASE rows[n] = None
    BY <1>2 DEF Edited, Edit, Known
  <1>3. CASE rows[n] # None
    <2>1. rows[n].id \in 0..MaxId /\ rows[n].ver \in 0..MaxVersion
      BY <1>1, <1>3 DEF Row
    <2>2. (rows[n] = None \/ view # rows[n].view) \in BOOLEAN
      OBVIOUS
    <2>3. QED
      BY <1>3, <2>1, <2>2, NoneApart DEF Edited, Edit, Known
  <1>4. QED
    BY <1>2, <1>3

\* A request that has only read keeps the types.
LEMMA GoesType ==
  ASSUME EditInv, NEW t \in Threads, NEW w \in Edit \cup DVEdit \cup {Idle},
         w \in Edit => Known(w), Goes(t, w)
  PROVE  EditInv'
  <1>1. TypeOK'
    BY DEF EditInv, TypeOK, Goes
  <1>2. \A u \in Threads : thread'[u] = IF u = t THEN w ELSE thread[u]
    BY DEF EditInv, TypeOK, Goes
  <1>3. QED
    BY <1>1, <1>2 DEF EditInv

-----------------------------------------------------------------------------
LEMMA InvInit == Init => EditInv
  <1> SUFFICES ASSUME Init  PROVE EditInv
    OBVIOUS
  <1>1. TypeOK
    BY EditorAssumption DEF EditorAssumption, Init, TypeOK
  <1>2. \A t \in Threads : thread[t] \notin Edit
    BY Apart DEF Init
  <1>3. QED
    BY <1>1, <1>2 DEF EditInv

LEMMA InvUpsert ==
  ASSUME EditInv, NEW t \in Threads, NEW n \in Names, ReadUpsert(t, n)
  PROVE  EditInv'
  <1>1. PICK sent \in Sent, byId \in BOOLEAN, given \in (0..MaxVersion) \cup {None} :
          /\ Accepted(rows[n], byId, given)
          /\ Goes(t, Edited(n, Stored(View(rows[n]), Validated(sent)),
                            Touches(View(rows[n]), Validated(sent)), given))
    BY DEF ReadUpsert
  <1>2. TypeOK /\ View(rows[n]) \in Content \cup {None}
    BY DEF EditInv, TypeOK, View, Row
  <1>3. Stored(View(rows[n]), Validated(sent)) \in Content
    BY <1>1, <1>2, SentAssumption, ValidatedType, StoredType
  <1>4. given # None => rows[n] # None /\ given = rows[n].ver
    BY <1>1 DEF Accepted
  <1> DEFINE e == Edited(n, Stored(View(rows[n]), Validated(sent)),
                         Touches(View(rows[n]), Validated(sent)), given)
  <1>5. e \in Edit /\ Known(e)
    BY <1>2, <1>3, <1>4, TouchesType, EditedType
  <1>6. QED
    BY <1>1, <1>5, GoesType

LEMMA InvReads ==
  ASSUME EditInv, NEW t \in Threads,
         \/ \E n \in Names : ReadRemove(t, n) \/ ReadImported(t, n)
         \/ \E kind \in {"describe", "delete", "import"} : ReadDV(t, kind)
         \/ ReadTouched(t) \/ Rollback(t)
  PROVE  EditInv'
  <1>1. CASE \E n \in Names : ReadRemove(t, n)
    <2>1. PICK n \in Names : Goes(t, Edited(n, None, Shown(View(rows[n])), None))
      BY <1>1 DEF ReadRemove
    <2>2. Shown(View(rows[n])) \in BOOLEAN
      BY DEF Shown
    <2> DEFINE e == Edited(n, None, Shown(View(rows[n])), None)
    <2>3. e \in Edit /\ Known(e)
      BY <2>2, EditedType DEF EditInv
    <2>4. QED
      BY <2>1, <2>3, GoesType
  <1>2. CASE \E n \in Names : ReadImported(t, n)
    <2>1. PICK n \in Names, path \in Paths :
            /\ thread[t] \in DVEdit
            /\ Goes(t, [Edited(n, Imported(path), TRUE, None) EXCEPT !.dv = thread[t].dv])
      BY <1>2 DEF ReadImported
    <2>2. Imported(path) \in Content
      BY DEF Imported, Content, DDL, Generated
    <2> DEFINE e == Edited(n, Imported(path), TRUE, None)
               f == [e EXCEPT !.dv = thread[t].dv]
    <2>3. e \in Edit /\ Known(e)
      BY <2>2, EditedType DEF EditInv
    <2>4. thread[t].dv \in DVRow
      BY <2>1 DEF DVEdit
    <2>5. f \in Edit /\ Known(f)
      BY <2>3, <2>4 DEF Edit, Known
    <2>6. Goes(t, f)
      BY <2>1
    <2>7. QED
      BY <2>5, <2>6, GoesType
  <1>3. CASE \E kind \in {"describe", "delete", "import"} : ReadDV(t, kind)
    <2>1. PICK kind \in {"describe", "delete", "import"} :
            dv # None /\ Goes(t, [kind |-> kind, dv |-> dv])
      BY <1>3 DEF ReadDV
    <2>2. [kind |-> kind, dv |-> dv] \in DVEdit
      BY <2>1 DEF EditInv, TypeOK, DVEdit
    <2>3. QED
      BY <2>1, <2>2, Apart, GoesType
  <1>4. CASE ReadTouched(t)
    <2> DEFINE e == [thread[t] EXCEPT !.dv = dv]
    <2>1. thread[t] \in Edit /\ Known(thread[t]) /\ dv \in DVRow \cup {None}
      BY <1>4 DEF ReadTouched, EditInv, TypeOK
    <2>2. e \in Edit /\ Known(e)
      BY <2>1 DEF Edit, Known
    <2>3. CASE dv = None
      BY <1>4, <2>3, Apart, GoesType DEF ReadTouched
    <2>4. CASE dv # None
      BY <1>4, <2>2, <2>4, GoesType DEF ReadTouched
    <2>5. QED
      BY <2>3, <2>4
  <1>5. CASE Rollback(t)
    BY <1>5, Apart, GoesType DEF Rollback
  <1>6. QED
    BY <1>1, <1>2, <1>3, <1>4, <1>5

\* A thread that ends leaves the others as they were.
LEMMA Ends ==
  ASSUME EditInv, NEW t \in Threads, thread' = [thread EXCEPT ![t] = Idle]
  PROVE  /\ thread' \in [Threads -> Edit \cup DVEdit \cup {Idle}]
         /\ \A u \in Threads : thread'[u] \in Edit => Known(thread'[u])
  <1>1. thread \in [Threads -> Edit \cup DVEdit \cup {Idle}]
    BY DEF EditInv, TypeOK
  <1>2. \A u \in Threads : thread'[u] = IF u = t THEN Idle ELSE thread[u]
    BY <1>1
  <1>3. QED
    BY <1>1, <1>2, Apart DEF EditInv

LEMMA InvCommit ==
  ASSUME EditInv, NEW t \in Threads, Commit(t)
  PROVE  EditInv'
  <1> DEFINE edit == thread[t]
  <1> USE EditorAssumption DEF EditorAssumption
  <1>1. edit \in Edit /\ Known(edit) /\ nextId \in 0..MaxId
    BY DEF Commit, EditInv, TypeOK
  <1>2. edit.name \in Names /\ edit.view \in Content \cup {None}
    BY <1>1 DEF Edit
  <1>3. Written(edit) \in Row \cup {None}
    <2>1. CASE edit.view = None
      BY <2>1 DEF Written
    <2>2. CASE edit.view # None /\ edit.id = None
      <3>1. Written(edit) = [id |-> nextId, ver |-> 0, view |-> edit.view]
        BY <2>2 DEF Written
      <3>2. QED
        BY <1>1, <1>2, <2>2, <3>1 DEF Row
    <2>3. CASE edit.view # None /\ edit.id # None
      <3>1. Written(edit) = [id |-> edit.id, ver |-> edit.ver + 1, view |-> edit.view]
        BY <2>3 DEF Written
      <3>2. edit.id \in 0..MaxId /\ edit.ver \in 0..MaxVersion
        BY <1>1, <2>3 DEF Edit, Known
      <3>3. edit.ver < MaxVersion
        BY <2>3 DEF Commit
      <3>4. edit.ver + 1 \in 0..MaxVersion
        BY <3>2, <3>3
      <3>5. QED
        BY <1>2, <2>3, <3>1, <3>2, <3>4 DEF Row
    <2>4. QED
      BY <2>1, <2>2, <2>3
  <1>4. rows' \in [Names -> Row \cup {None}]
    <2>1. rows \in [Names -> Row \cup {None}]
      BY DEF EditInv, TypeOK
    <2>2. rows' = rows \/ rows' = [rows EXCEPT ![edit.name] = Written(edit)]
      BY DEF Commit
    <2>3. QED
      BY <1>2, <1>3, <2>1, <2>2
  <1>5. edit.touch => dv' \in DVRow
    <2>1. SUFFICES ASSUME edit.touch  PROVE dv' \in DVRow
      OBVIOUS
    <2>2. dv \in DVRow /\ dv.ver < MaxTouches /\ dv' = Touched(dv)
      <3>1. edit.dv # None /\ edit.dv \in DVRow \cup {None}
        BY <1>1, <2>1 DEF Commit, Edit
      <3>2. QED
        BY <2>1, <3>1 DEF Commit
    <2>3. QED
      BY <2>2 DEF Touched, DVRow
  <1>6. dv' \in DVRow \cup {None}
    BY <1>5 DEF Commit, EditInv, TypeOK
  <1>7. nextId' \in 0..MaxId
    BY <1>1 DEF Commit
  <1>8. dv' = None => rows' = [n \in Names |-> None]
    <2> SUFFICES ASSUME dv' = None  PROVE rows' = [n \in Names |-> None]
      OBVIOUS
    <2>1. ~edit.touch
      BY <1>5 DEF DVRow
    <2>2. dv = None /\ rows = [n \in Names |-> None]
      BY <2>1 DEF Commit, EditInv, TypeOK
    <2>3. rows[edit.name] = None
      BY <1>2, <2>2
    <2>4. ~edit.dirty
      BY <2>2, <2>3 DEF Commit, Matches
    <2>5. QED
      BY <2>2, <2>4 DEF Commit
  <1>9. QED
    BY <1>4, <1>6, <1>7, <1>8, Ends DEF EditInv, TypeOK, Commit

LEMMA InvCommitDV ==
  ASSUME EditInv, NEW t \in Threads, CommitDV(t)
  PROVE  EditInv'
  <1> USE EditorAssumption DEF EditorAssumption
  <1>1. dv \in DVRow
    BY DEF CommitDV, DVEdit
  <1>2. CASE thread[t].kind = "delete"
    <2>1. dv' = None /\ rows' = [n \in Names |-> None] /\ nextId' = nextId
      BY <1>2 DEF CommitDV
    <2>2. QED
      BY <2>1, Ends DEF CommitDV, EditInv, TypeOK
  <1>3. CASE thread[t].kind # "delete"
    <2>1. dv' = Touched(dv) /\ dv.ver < MaxTouches /\ rows' = rows /\ nextId' = nextId
      BY <1>3 DEF CommitDV
    <2>2. dv' \in DVRow /\ dv' # None
      BY <1>1, <2>1 DEF Touched, DVRow
    <2>3. QED
      BY <2>1, <2>2, Ends DEF CommitDV, EditInv, TypeOK
  <1>4. QED
    BY <1>2, <1>3

LEMMA InvCreate ==
  ASSUME EditInv, CreateDV \/ \E n \in Names : ImportDV(n)
  PROVE  EditInv'
  <1> USE EditorAssumption DEF EditorAssumption
  <1>1. nextId \in 0..MaxId /\ rows \in [Names -> Row \cup {None}]
    BY DEF EditInv, TypeOK
  <1>2. CASE CreateDV
    <2>1. dv' \in DVRow /\ dv' # None /\ nextId' \in 0..MaxId
      BY <1>1, <1>2 DEF CreateDV, DVRow
    <2>2. QED
      BY <1>2, <2>1 DEF CreateDV, EditInv, TypeOK
  <1>3. CASE \E n \in Names : ImportDV(n)
    <2>1. PICK n \in Names, in \in Sent :
            /\ rows' = [rows EXCEPT ![n] = [id |-> nextId + 1, ver |-> 0,
                                            view |-> Stored(None, in)]]
            /\ nextId + 1 < MaxId
            /\ dv' = [id |-> nextId, ver |-> 0] /\ nextId' = nextId + 2 /\ thread' = thread
      BY <1>3 DEF ImportDV
    <2>2. Stored(None, in) \in Content
      BY <2>1, SentAssumption, StoredType
    <2>3. rows' \in [Names -> Row \cup {None}]
      BY <1>1, <2>1, <2>2 DEF Row
    <2>4. dv' \in DVRow /\ dv' # None /\ nextId' \in 0..MaxId
      BY <1>1, <2>1 DEF DVRow
    <2>5. QED
      BY <2>1, <2>3, <2>4 DEF EditInv, TypeOK
  <1>4. QED
    BY <1>2, <1>3

LEMMA InvNext == EditInv /\ [Next]_vars => EditInv'
  <1> SUFFICES ASSUME EditInv, [Next]_vars  PROVE EditInv'
    OBVIOUS
  <1>1. CASE \E t \in Threads, n \in Names : ReadUpsert(t, n)
    BY <1>1, InvUpsert
  <1>2. CASE \E t \in Threads :
               \/ \E n \in Names : ReadRemove(t, n) \/ ReadImported(t, n)
               \/ \E kind \in {"describe", "delete", "import"} : ReadDV(t, kind)
               \/ ReadTouched(t) \/ Rollback(t)
    BY <1>2, InvReads
  <1>3. CASE \E t \in Threads : Commit(t)
    BY <1>3, InvCommit
  <1>4. CASE \E t \in Threads : CommitDV(t)
    BY <1>4, InvCommitDV
  <1>5. CASE CreateDV \/ \E n \in Names : ImportDV(n)
    BY <1>5, InvCreate
  <1>6. CASE UNCHANGED vars
    BY <1>6 DEF vars, EditInv, TypeOK
  <1>7. QED
    BY <1>1, <1>2, <1>3, <1>4, <1>5, <1>6 DEF Next

\* Every variable keeps its type and no view outlives its virtualization, for any
\* number of views, requests and rows.
THEOREM EditorTypeCorrect == Spec => []TypeOK
  <1>1. EditInv => TypeOK
    BY DEF EditInv
  <1>2. QED
    BY InvInit, InvNext, <1>1, PTL DEF Spec

-----------------------------------------------------------------------------
NotLost ==
  \A n \in Names : rows'[n] # rows[n] =>
    \A t \in Threads :
      thread[t] \in Edit /\ thread[t].given # None /\ thread'[t] = Idle =>
        /\ rows[n] # None
        /\ rows[n].ver = thread[t].given /\ rows[n].id = thread[t].id

LEMMA StepNotLost == EditInv /\ Next => NotLost
  <1> SUFFICES ASSUME EditInv, Next,
                      NEW n \in Names, rows'[n] # rows[n],
                      NEW t \in Threads, thread[t] \in Edit, thread[t].given # None,
                      thread'[t] = Idle
               PROVE  /\ rows[n] # None
                      /\ rows[n].ver = thread[t].given /\ rows[n].id = thread[t].id
    BY DEF NotLost
  <1>1. thread[t] # Idle /\ thread[t] \notin DVEdit /\ Known(thread[t])
    BY Apart DEF EditInv
  <1>2. thread \in [Threads -> Edit \cup DVEdit \cup {Idle}] /\ rows \in [Names -> Row \cup {None}]
    BY DEF EditInv, TypeOK
  <1>3. PICK u \in Threads : Commit(u) \/ CommitDV(u)
    <2>1. ~(CreateDV \/ \E m \in Names : ImportDV(m))
      BY <1>1 DEF CreateDV, ImportDV
    <2>2. QED
      BY <2>1 DEF Next, ReadUpsert, ReadRemove, ReadImported, ReadDV, ReadTouched, Rollback, Goes
  <1>4. u = t
    BY <1>1, <1>2, <1>3 DEF Commit, CommitDV
  <1>5. Commit(t)
    BY <1>1, <1>3, <1>4 DEF CommitDV
  <1>6. thread[t].dirty /\ n = thread[t].name
    BY <1>2, <1>5 DEF Commit
  <1>7. QED
    BY <1>1, <1>5, <1>6 DEF Commit, Matches, Known

\* An edit with a version is applied to that version of that row, for every
\* instance: an inductive invariant ties the version given to the one read, and
\* @Version the one read to the one written.
THEOREM NoLostUpdateCorrect == Spec => NoLostUpdate
  <1>1. EditInv /\ EditInv' /\ [Next]_vars => [NotLost]_vars
    BY StepNotLost
  <1>2. QED
    BY InvInit, InvNext, <1>1, PTL DEF Spec, NoLostUpdate, NotLost

-----------------------------------------------------------------------------
(* Overlapping requests.                                                   *)


\* What one request makes of a view.
Made(old, new, touch) ==
  \/ \E in \in Sent : new = Stored(old, Validated(in)) /\ touch = Touches(old, Validated(in))
  \/ \E path \in Paths : new = Imported(path) /\ touch
  \/ new = None /\ touch = Shown(old)

\* A request that found no row makes a view; one that found a row is of an id that
\* is not given again, and of a version that the row may have left behind.  As long
\* as the row has that id and version, the request was made of what the row holds.
Follows(e) ==
  /\ e.id = None => Made(None, e.view, e.touch)
  /\ e.id # None =>
       /\ e.id < nextId
       /\ rows[e.name] # None /\ rows[e.name].id = e.id =>
            /\ e.ver <= rows[e.name].ver
            /\ rows[e.name].ver = e.ver => Made(rows[e.name].view, e.view, e.touch)

Older == \A n \in Names : rows[n] # None => rows[n].id < nextId

AllFollow == \A t \in Threads : thread[t] \in Edit => Follows(thread[t])

SerialInv == EditInv /\ Older /\ AllFollow

LEMMA RowApart == None \notin Row
  BY EditorAssumption DEF EditorAssumption, Row

-----------------------------------------------------------------------------
(* The requests as they read.                                              *)

LEMMA GoesFollows ==
  ASSUME SerialInv, NEW t \in Threads, NEW w, w \in Edit => Follows(w), Goes(t, w)
  PROVE  Older' /\ AllFollow'
  <1>1. rows' = rows /\ nextId' = nextId
    BY DEF Goes
  <1>2. \A u \in Threads : thread'[u] = IF u = t THEN w ELSE thread[u]
    BY DEF SerialInv, EditInv, TypeOK, Goes
  <1>3. Older'
    BY <1>1 DEF SerialInv, Older
  <1>4. AllFollow'
    BY <1>1, <1>2 DEF SerialInv, AllFollow, Follows
  <1>5. QED
    BY <1>3, <1>4

LEMMA EditedFollows ==
  ASSUME SerialInv, NEW n \in Names, NEW view, NEW touch, NEW given,
         Made(View(rows[n]), view, touch)
  PROVE  Follows(Edited(n, view, touch, given))
  <1> DEFINE e == Edited(n, view, touch, given)
  <1>1. rows[n] \in Row \cup {None} /\ (rows[n] # None => rows[n].id < nextId)
    BY DEF SerialInv, EditInv, TypeOK, Older
  <1>2. /\ e.name = n /\ e.view = view /\ e.touch = touch
        /\ e.id = IF rows[n] = None THEN None ELSE rows[n].id
        /\ e.ver = IF rows[n] = None THEN None ELSE rows[n].ver
    BY DEF Edited
  <1>3. CASE rows[n] = None
    BY <1>2, <1>3 DEF Follows, View
  <1>4. CASE rows[n] # None
    <2>1. rows[n].ver \in Nat /\ rows[n].id # None
      BY <1>1, <1>4, EditorAssumption, NoneApart DEF Row, EditorAssumption
    <2>2. Made(rows[n].view, view, touch)
      BY <1>4 DEF View
    <2>3. QED
      BY <1>1, <1>2, <1>4, <2>1, <2>2 DEF Follows
  <1>5. QED
    BY <1>3, <1>4

LEMMA ReadsFollow ==
  ASSUME SerialInv, NEW t \in Threads,
         \/ \E n \in Names : ReadUpsert(t, n) \/ ReadRemove(t, n) \/ ReadImported(t, n)
         \/ \E kind \in {"describe", "delete", "import"} : ReadDV(t, kind)
         \/ ReadTouched(t) \/ Rollback(t)
  PROVE  Older' /\ AllFollow'
  <1>1. CASE \E n \in Names : ReadUpsert(t, n)
    <2>1. PICK n \in Names, sent \in Sent, given \in (0..MaxVersion) \cup {None} :
            Goes(t, Edited(n, Stored(View(rows[n]), Validated(sent)),
                           Touches(View(rows[n]), Validated(sent)), given))
      BY <1>1 DEF ReadUpsert
    <2>2. Made(View(rows[n]), Stored(View(rows[n]), Validated(sent)),
               Touches(View(rows[n]), Validated(sent)))
      BY DEF Made
    <2>3. QED
      BY <2>1, <2>2, EditedFollows, GoesFollows
  <1>2. CASE \E n \in Names : ReadRemove(t, n)
    <2>1. PICK n \in Names : Goes(t, Edited(n, None, Shown(View(rows[n])), None))
      BY <1>2 DEF ReadRemove
    <2>2. Made(View(rows[n]), None, Shown(View(rows[n])))
      BY DEF Made
    <2>3. QED
      BY <2>1, <2>2, EditedFollows, GoesFollows
  <1>3. CASE \E n \in Names : ReadImported(t, n)
    <2>1. PICK n \in Names, path \in Paths :
            Goes(t, [Edited(n, Imported(path), TRUE, None) EXCEPT !.dv = thread[t].dv])
      BY <1>3 DEF ReadImported
    <2> DEFINE e == Edited(n, Imported(path), TRUE, None)
               f == [e EXCEPT !.dv = thread[t].dv]
    <2>2. Made(View(rows[n]), Imported(path), TRUE)
      BY DEF Made
    <2>3. Follows(e)
      BY <2>2, EditedFollows
    <2>4. /\ f.name = e.name /\ f.id = e.id /\ f.ver = e.ver
          /\ f.view = e.view /\ f.touch = e.touch
      BY DEF Edited
    <2>5. Follows(f)
      BY <2>3, <2>4 DEF Follows
    <2>6. Goes(t, f)
      BY <2>1
    <2>7. QED
      BY <2>5, <2>6, GoesFollows
  <1>4. CASE \E kind \in {"describe", "delete", "import"} : ReadDV(t, kind)
    <2>1. PICK kind \in {"describe", "delete", "import"} :
            dv # None /\ Goes(t, [kind |-> kind, dv |-> dv])
      BY <1>4 DEF ReadDV
    <2>2. [kind |-> kind, dv |-> dv] \in DVEdit
      BY <2>1 DEF SerialInv, EditInv, TypeOK, DVEdit
    <2>3. QED
      BY <2>1, <2>2, Apart, GoesFollows
  <1>5. CASE ReadTouched(t)
    <2> DEFINE e == thread[t]
               f == [e EXCEPT !.dv = dv]
    <2>1. e \in Edit /\ Follows(e) /\ Goes(t, IF dv = None THEN Idle ELSE f)
      BY <1>5 DEF ReadTouched, SerialInv, AllFollow
    <2>2. /\ f.name = e.name /\ f.id = e.id /\ f.ver = e.ver
          /\ f.view = e.view /\ f.touch = e.touch
      BY <2>1 DEF Edit
    <2>3. Follows(f)
      BY <2>1, <2>2 DEF Follows
    <2>4. (IF dv = None THEN Idle ELSE f) \in Edit => Follows(IF dv = None THEN Idle ELSE f)
      BY <2>3, Apart
    <2>5. QED
      BY <2>1, <2>4, GoesFollows
  <1>6. CASE Rollback(t)
    BY <1>6, Apart, GoesFollows DEF Rollback
  <1>7. QED
    BY <1>1, <1>2, <1>3, <1>4, <1>5, <1>6

-----------------------------------------------------------------------------
(* The ends of transactions.                                               *)

\* How a step may change a row: away, made with a new id, or one version on.
Moves(n) ==
  \/ rows'[n] = rows[n]
  \/ rows'[n] = None
  \/ rows'[n].id \in nextId..(nextId' - 1)
  \/ rows[n] # None /\ rows'[n].id = rows[n].id /\ rows'[n].ver = rows[n].ver + 1

LEMMA MovesFollow ==
  ASSUME SerialInv, nextId' \in Nat, nextId <= nextId', \A n \in Names : Moves(n),
         \A t \in Threads : thread'[t] \in {thread[t], Idle}
  PROVE  Older' /\ AllFollow'
  <1>1. nextId \in Nat /\ \A n \in Names : rows[n] \in Row \cup {None}
    BY EditorAssumption DEF EditorAssumption, SerialInv, EditInv, TypeOK
  <1>2. \A n \in Names : rows[n] # None =>
          rows[n].id \in Nat /\ rows[n].ver \in Nat /\ rows[n].id < nextId
    BY <1>1, EditorAssumption DEF EditorAssumption, SerialInv, Older, Row
  <1>3. Older'
    BY <1>1, <1>2 DEF Moves, Older
  <1>4. ASSUME NEW t \in Threads, thread'[t] \in Edit
        PROVE  Follows(thread[t])'
    <2> DEFINE e == thread[t]
    <2>1. thread'[t] = e /\ e \in Edit /\ Known(e) /\ Follows(e)
      BY <1>4, Apart DEF SerialInv, EditInv, AllFollow
    <2>2. e.name \in Names /\ (e.id # None => e.id \in Nat /\ e.ver \in Nat)
      BY <2>1, EditorAssumption DEF EditorAssumption, Edit, Known
    <2>3. CASE e.id = None
      BY <2>1, <2>3 DEF Follows
    <2>4. CASE e.id # None
      <3>1. e.id < nextId'
        BY <1>1, <2>1, <2>2, <2>4 DEF Follows
      <3>2. Moves(e.name)
        BY <2>2
      <3>3. ASSUME rows'[e.name] # None, rows'[e.name].id = e.id
            PROVE  /\ e.ver <= rows'[e.name].ver
                   /\ rows'[e.name].ver = e.ver => Made(rows'[e.name].view, e.view, e.touch)
        <4>1. CASE rows'[e.name] = rows[e.name]
          BY <2>1, <2>4, <3>3, <4>1 DEF Follows
        <4>2. CASE rows'[e.name].id \in nextId..(nextId' - 1)
          BY <1>1, <2>1, <2>2, <2>4, <3>3, <4>2 DEF Follows
        <4>3. CASE /\ rows[e.name] # None /\ rows'[e.name].id = rows[e.name].id
                   /\ rows'[e.name].ver = rows[e.name].ver + 1
          <5>1. e.ver <= rows[e.name].ver /\ rows[e.name].ver \in Nat
            BY <1>2, <2>1, <2>2, <2>4, <3>3, <4>3 DEF Follows
          <5>2. e.ver < rows'[e.name].ver
            BY <2>2, <2>4, <4>3, <5>1
          <5>3. rows'[e.name].ver \in Nat
            BY <4>3, <5>1
          <5>4. QED
            BY <2>2, <2>4, <5>2, <5>3
        <4>4. QED
          BY <3>2, <3>3, <4>1, <4>2, <4>3 DEF Moves
      <3>4. QED
        BY <2>1, <2>4, <3>1, <3>3 DEF Follows
    <2>5. QED
      BY <2>3, <2>4
  <1>5. QED
    BY <1>3, <1>4 DEF AllFollow

\* What the end of an edit writes, and of what it was made.
LEMMA CommitWrites ==
  ASSUME SerialInv, NEW t \in Threads, Commit(t)
  PROVE  LET e == thread[t] IN
         /\ e \in Edit /\ e.name \in Names /\ (e.dirty \/ e.touch => dv # None)
         /\ \A n \in Names : n # e.name => rows'[n] = rows[n]
         /\ ~e.dirty => rows' = rows
         /\ e.dirty => /\ Made(View(rows[e.name]), e.view, e.touch)
                       /\ View(rows'[e.name]) = e.view
                       /\ rows' = [rows EXCEPT ![e.name] = Written(e)]
         /\ Moves(e.name)
  <1> DEFINE e == thread[t]
             n == e.name
  <1>1. e \in Edit /\ Known(e) /\ Follows(e) /\ n \in Names /\ nextId \in Nat
    BY EditorAssumption DEF EditorAssumption, Commit, SerialInv, EditInv, TypeOK, AllFollow, Edit
  <1>2. rows \in [Names -> Row \cup {None}]
    BY DEF SerialInv, EditInv, TypeOK
  <1>3. \A m \in Names : m # n => rows'[m] = rows[m]
    BY <1>1, <1>2 DEF Commit
  <1>4. e.dirty \/ e.touch => dv # None
    <2>1. CASE e.id = None
      BY <2>1 DEF Commit, Matches
    <2>2. CASE e.dirty /\ e.id # None
      <3>1. rows[n] # None
        BY <2>2 DEF Commit, Matches
      <3>2. QED
        BY <1>1, <3>1 DEF SerialInv, EditInv, TypeOK
    <2>3. CASE ~e.dirty
      BY <2>3 DEF Commit
    <2>4. QED
      BY <2>1, <2>2, <2>3
  <1>5. CASE ~e.dirty
    <2>1. rows' = rows
      BY <1>5 DEF Commit
    <2>2. QED
      BY <1>1, <1>4, <1>5, <2>1 DEF Moves
  <1>6. CASE e.dirty
    <2>1. rows' = [rows EXCEPT ![n] = Written(e)] /\ rows'[n] = Written(e)
      BY <1>1, <1>2, <1>6 DEF Commit
    <2>2. Made(View(rows[n]), e.view, e.touch)
      <3>1. CASE e.id = None
        BY <1>1, <3>1 DEF Commit, Matches, Follows, View
      <3>2. CASE e.id # None
        BY <1>1, <1>6, <3>2 DEF Commit, Matches, Follows, View
      <3>3. QED
        BY <3>1, <3>2
    <2>3. View(rows'[n]) = e.view /\ Moves(n)
      <3>1. CASE e.view = None
        BY <2>1, <3>1 DEF Written, View, Moves
      <3>2. CASE e.view # None /\ e.id = None
        <4>1. Written(e) = [id |-> nextId, ver |-> 0, view |-> e.view] /\ nextId' = nextId + 1
          BY <3>2 DEF Written, Commit
        <4>2. Written(e) \in Row
          <5>1. e.view \in Content /\ nextId \in 0..MaxId
            BY <1>1, <3>2 DEF Edit, SerialInv, EditInv, TypeOK
          <5>2. 0 \in 0..MaxVersion
            BY EditorAssumption DEF EditorAssumption
          <5>3. QED
            BY <4>1, <5>1, <5>2 DEF Row
        <4>3. QED
          BY <1>1, <2>1, <4>1, <4>2, RowApart DEF View, Moves
      <3>3. CASE e.view # None /\ e.id # None
        <4>1. Written(e) = [id |-> e.id, ver |-> e.ver + 1, view |-> e.view]
          BY <3>3 DEF Written
        <4>2. rows[n] # None /\ rows[n].id = e.id /\ rows[n].ver = e.ver
          BY <1>6, <3>3 DEF Commit, Matches
        <4>3. Written(e) \in Row
          <5>1. e.view \in Content /\ e.id \in 0..MaxId
            BY <1>1, <3>3 DEF Edit
          <5>2. e.ver \in 0..MaxVersion /\ e.ver < MaxVersion
            BY <1>1, <3>3 DEF Edit, Known, Commit
          <5>3. e.ver + 1 \in 0..MaxVersion
            BY <5>2, EditorAssumption DEF EditorAssumption
          <5>4. QED
            BY <4>1, <5>1, <5>3 DEF Row
        <4>4. QED
          BY <2>1, <4>1, <4>2, <4>3, RowApart DEF View, Moves
      <3>4. QED
        BY <3>1, <3>2, <3>3
    <2>4. QED
      BY <1>1, <1>3, <1>4, <1>6, <2>1, <2>2, <2>3
  <1>7. QED
    BY <1>1, <1>5, <1>6

LEMMA SerialInit == Init => SerialInv
  <1> SUFFICES ASSUME Init  PROVE SerialInv
    OBVIOUS
  <1>1. \A t \in Threads : thread[t] \notin Edit
    BY Apart DEF Init
  <1>2. QED
    BY <1>1, InvInit DEF Init, SerialInv, Older, AllFollow

LEMMA SerialNext == SerialInv /\ [Next]_vars => SerialInv'
  <1> SUFFICES ASSUME SerialInv, [Next]_vars  PROVE Older' /\ AllFollow'
    BY InvNext DEF SerialInv
  <1> USE EditorAssumption DEF EditorAssumption
  <1>1. nextId \in Nat /\ rows \in [Names -> Row \cup {None}]
        /\ thread \in [Threads -> Edit \cup DVEdit \cup {Idle}]
    BY DEF SerialInv, EditInv, TypeOK
  <1>2. CASE \E t \in Threads :
               \/ \E n \in Names : ReadUpsert(t, n) \/ ReadRemove(t, n) \/ ReadImported(t, n)
               \/ \E kind \in {"describe", "delete", "import"} : ReadDV(t, kind)
               \/ ReadTouched(t) \/ Rollback(t)
    BY <1>2, ReadsFollow
  <1>3. ASSUME NEW t \in Threads, Commit(t)  PROVE Older' /\ AllFollow'
    <2>1. nextId' \in Nat /\ nextId <= nextId'
      BY <1>1, <1>3 DEF Commit
    <2>2. \A n \in Names : Moves(n)
      BY <1>3, CommitWrites DEF Moves
    <2>3. \A u \in Threads : thread'[u] \in {thread[u], Idle}
      BY <1>1, <1>3 DEF Commit
    <2>4. QED
      BY <2>1, <2>2, <2>3, MovesFollow
  <1>4. ASSUME NEW t \in Threads, CommitDV(t)  PROVE Older' /\ AllFollow'
    <2>1. nextId' = nextId
      BY <1>4 DEF CommitDV
    <2>2. \A n \in Names : Moves(n)
      BY <1>4 DEF CommitDV, Moves
    <2>3. \A u \in Threads : thread'[u] \in {thread[u], Idle}
      BY <1>1, <1>4 DEF CommitDV
    <2>4. QED
      BY <1>1, <2>1, <2>2, <2>3, MovesFollow
  <1>5. CASE CreateDV
    BY <1>1, <1>5, MovesFollow DEF CreateDV, Moves
  <1>6. ASSUME NEW n \in Names, ImportDV(n)  PROVE Older' /\ AllFollow'
    <2>1. PICK in \in Sent :
            rows' = [rows EXCEPT ![n] = [id |-> nextId + 1, ver |-> 0, view |-> Stored(None, in)]]
      BY <1>6 DEF ImportDV
    <2>2. \A m \in Names : Moves(m)
      BY <1>1, <1>6, <2>1 DEF ImportDV, Moves
    <2>3. QED
      BY <1>1, <1>6, <2>2, MovesFollow DEF ImportDV
  <1>7. CASE UNCHANGED vars
    BY <1>1, <1>7, MovesFollow DEF vars, Moves
  <1>8. QED
    BY <1>2, <1>3, <1>4, <1>5, <1>6, <1>7 DEF Next

-----------------------------------------------------------------------------
(* The refinement.                                                         *)

\* Catalog speaks of views as this module does.
LEMMA SameViews ==
  /\ \A in : Atomic!Validated(in) = Validated(in)
  /\ \A old, in : Atomic!Stored(old, in) = Stored(old, in)
  /\ \A old, in : Atomic!Touches(old, in) = Touches(old, in)
  /\ \A old : Atomic!Shown(old) = Shown(old)
  /\ \A path : Atomic!Imported(path) = Imported(path)
  BY DEF Atomic!Validated, Validated, Atomic!Stored, Stored, Atomic!Touches, Touches,
         Atomic!Shown, Shown, Atomic!Imported, Imported, Atomic!Generates, Generates,
         Atomic!Parses, Parses, Atomic!Before, Before, Atomic!Generated, Generated

\* An edit that is written is one step of the catalog.
LEMMA CommitRefines ==
  ASSUME SerialInv, NEW t \in Threads, Commit(t)
  PROVE  [Atomic!Next]_(Atomic!cvars)
  <1> DEFINE e == thread[t]
             n == e.name
             version == IF dv = None THEN None ELSE dv.ver
             views == [m \in Names |-> View(rows[m])]
  <1>1. /\ n \in Names /\ (e.dirty \/ e.touch => dv # None)
        /\ ~e.dirty => rows' = rows
        /\ e.dirty => /\ Made(View(rows[n]), e.view, e.touch)
                      /\ View(rows'[n]) = e.view
        /\ \A m \in Names : m # n => rows'[m] = rows[m]
    BY CommitWrites
  <1>2. dv # None => dv.ver \in Nat /\ dv.ver # None
    BY EditorAssumption, NoneApart DEF EditorAssumption, SerialInv, EditInv, TypeOK, DVRow
  <1>3. version' = IF e.touch THEN version + 1 ELSE version
    <2>1. CASE e.touch
      <3>1. dv # None /\ dv \in DVRow /\ dv.ver < MaxTouches /\ dv' = Touched(dv)
        BY <1>1, <2>1 DEF Commit, SerialInv, EditInv, TypeOK
      <3>2. dv'.ver = dv.ver + 1 /\ dv' \in DVRow
        BY <3>1, EditorAssumption DEF EditorAssumption, Touched, DVRow
      <3>3. dv' # None
        BY <3>2, EditorAssumption DEF EditorAssumption, DVRow
      <3>4. QED
        BY <2>1, <3>1, <3>2, <3>3
    <2>2. CASE ~e.touch
      BY <2>2 DEF Commit
    <2>3. QED
      BY <2>1, <2>2
  <1>4. CASE e.dirty
    <2>1. views' = [views EXCEPT ![n] = e.view]
      BY <1>1, <1>4
    <2>2. version # None
      BY <1>1, <1>2, <1>4
    <2>3. Atomic!Becomes(n, e.view, e.touch)
      BY <1>3, <2>1, <2>2 DEF Atomic!Becomes
    <2>4. Made(views[n], e.view, e.touch)
      BY <1>1, <1>4
    <2>5. Atomic!Store(n) \/ Atomic!Import(n) \/ Atomic!Remove(n)
      BY <1>1, <2>3, <2>4, SameViews DEF Made, Atomic!Store, Atomic!Import, Atomic!Remove
    <2>6. QED
      BY <1>1, <2>5 DEF Atomic!Next
  <1>5. CASE ~e.dirty
    <2>1. views' = views
      BY <1>1, <1>5
    <2>2. CASE e.touch
      BY <1>1, <1>2, <1>3, <2>1, <2>2 DEF Atomic!Touch, Atomic!Next
    <2>3. CASE ~e.touch
      BY <1>3, <2>1, <2>3 DEF Atomic!cvars
    <2>4. QED
      BY <2>2, <2>3
  <1>6. QED
    BY <1>4, <1>5

LEMMA StepRefines ==
  ASSUME SerialInv, [Next]_vars
  PROVE  [Atomic!Next]_(Atomic!cvars)
  <1> DEFINE version == IF dv = None THEN None ELSE dv.ver
             views == [m \in Names |-> View(rows[m])]
  <1>1. rows \in [Names -> Row \cup {None}] /\ dv \in DVRow \cup {None}
        /\ (dv = None => rows = [n \in Names |-> None])
    BY DEF SerialInv, EditInv, TypeOK
  <1>2. dv # None => dv.ver \in Nat /\ dv.ver # None
    BY <1>1, EditorAssumption, NoneApart DEF EditorAssumption, DVRow
  <1>3. CASE rows' = rows /\ dv' = dv
    BY <1>3 DEF Atomic!cvars
  <1>4. ASSUME NEW t \in Threads, CommitDV(t)  PROVE Atomic!Next
    <2>1. dv \in DVRow /\ dv # None
      BY <1>4, EditorAssumption DEF EditorAssumption, CommitDV, DVEdit, DVRow
    <2>2. CASE thread[t].kind = "delete"
      <3>1. dv' = None /\ \A n \in Names : rows'[n] = None
        BY <1>4, <2>2 DEF CommitDV
      <3>2. version # None /\ version' = None /\ views' = [n \in Names |-> None]
        BY <1>2, <2>1, <3>1 DEF View
      <3>3. QED
        BY <3>2 DEF Atomic!Delete, Atomic!NoViews, Atomic!Next
    <2>3. CASE thread[t].kind # "delete"
      <3>1. dv' = Touched(dv) /\ dv.ver < MaxTouches /\ rows' = rows
        BY <1>4, <2>3 DEF CommitDV
      <3>2. dv'.ver = dv.ver + 1 /\ dv' \in DVRow
        BY <2>1, <3>1, EditorAssumption DEF EditorAssumption, Touched, DVRow
      <3>3. dv' # None
        BY <3>2, EditorAssumption DEF EditorAssumption, DVRow
      <3>4. version # None /\ version' = version + 1 /\ views' = views
        BY <1>2, <2>1, <3>1, <3>2, <3>3
      <3>5. QED
        BY <3>4 DEF Atomic!Touch, Atomic!Next
    <2>4. QED
      BY <2>2, <2>3
  <1>5. ASSUME NEW row, row = [id |-> nextId, ver |-> 0], dv = None, dv' = row,
               CreateDV \/ \E n \in Names : ImportDV(n)
        PROVE  version = None /\ version' = 0
    <2>1. row \in DVRow
      BY <1>5, EditorAssumption DEF EditorAssumption, DVRow, SerialInv, EditInv, TypeOK
    <2>2. row # None
      BY <2>1, EditorAssumption DEF EditorAssumption, DVRow
    <2>3. QED
      BY <1>5, <2>2
  <1>6. CASE CreateDV
    <2>1. version = None /\ version' = 0 /\ views' = views
      BY <1>5, <1>6 DEF CreateDV
    <2>2. QED
      BY <2>1 DEF Atomic!Create, Atomic!Next
  <1>7. ASSUME NEW n \in Names, ImportDV(n)  PROVE Atomic!Next
    <2>1. PICK in \in Sent :
            rows' = [rows EXCEPT ![n] = [id |-> nextId + 1, ver |-> 0, view |-> Stored(None, in)]]
      BY <1>7 DEF ImportDV
    <2>2. version = None /\ version' = 0
      BY <1>5, <1>7 DEF ImportDV
    <2>3. [id |-> nextId + 1, ver |-> 0, view |-> Stored(None, in)] \in Row
      <3>1. nextId + 1 \in 0..MaxId /\ 0 \in 0..MaxVersion
        BY <1>7, EditorAssumption
        DEF EditorAssumption, ImportDV, SerialInv, EditInv, TypeOK
      <3>2. Stored(None, in) \in Content
        BY <2>1, SentAssumption, StoredType
      <3>3. QED
        BY <3>1, <3>2 DEF Row
    <2>4. View(rows'[n]) = Stored(None, in) /\ \A m \in Names : m # n => rows'[m] = rows[m]
      BY <1>1, <2>1, <2>3, RowApart DEF View
    <2>5. views' = [views EXCEPT ![n] = Stored(None, in)]
      BY <2>4
    <2>6. QED
      BY <2>1, <2>2, <2>5, SameViews DEF Atomic!Create, Atomic!Next
  <1>8. QED
    BY <1>3, <1>4, <1>6, <1>7, CommitRefines
    DEF Next, vars, ReadUpsert, ReadRemove, ReadImported, ReadDV, ReadTouched, Rollback, Goes

\* Whatever number of requests overlap, what the clients see is what they would
\* see of requests served one after the other: an inductive invariant says that a
\* request whose row still has the id and version it has read was made of the
\* view that the row holds.
THEOREM EditorIsSerializable == Spec => Serializable
  <1>1. Init => Atomic!Init
    BY DEF Init, Atomic!Init, Atomic!NoViews, View
  <1>2. SerialInv /\ [Next]_vars => [Atomic!Next]_(Atomic!cvars)
    BY StepRefines
  <1>3. QED
    BY SerialInit, SerialNext, <1>1, <1>2, PTL DEF Spec, Serializable, Atomic!Spec

-----------------------------------------------------------------------------
Gone(r) == r = None \/ ~r.view.parsable

Versioned ==
  \A n \in Names :
    \/ Shown(View(rows[n])) /\ Gone(rows'[n])
    \/ Gone(rows[n]) /\ Shown(View(rows'[n]))
    => dv' # dv

\* A request that makes a view come or go for the previews touches.
LEMMA MadeTouches ==
  ASSUME NEW old \in Content \cup {None}, NEW new, NEW touch \in BOOLEAN, Made(old, new, touch),
         \/ Shown(old) /\ (new = None \/ ~new.parsable)
         \/ (old = None \/ ~old.parsable) /\ Shown(new)
  PROVE  touch
  <1>1. CASE new = None /\ touch = Shown(old)
    BY <1>1 DEF Shown
  <1>2. CASE \E path \in Paths : new = Imported(path) /\ touch
    BY <1>2
  <1>3. CASE \E in \in Sent : new = Stored(old, Validated(in)) /\ touch = Touches(old, Validated(in))
    <2>1. PICK in \in Input : new = Stored(old, in) /\ touch = Touches(old, in)
      BY <1>3, SentAssumption, ValidatedType
    <2>2. new \in Content /\ new # None
      BY <2>1, StoredType, EditorAssumption DEF EditorAssumption
    <2>3. CASE Generates(old, in)
      BY <2>1, <2>3 DEF Touches, Generates
    <2>4. CASE ~Generates(old, in) /\ Parses(old, in)
      <3>1. new.parsable = (\/ in.ddl.kind = "view"
                            \/ in.ddl.kind = "partial" /\ Before(old).parsable)
        BY <2>1, <2>4 DEF Stored
      <3>2. in.ddl \in DDL /\ in.complete
        BY <2>4 DEF Parses, Input
      <3>3. CASE old = None \/ in.ddl.kind = "view"
        BY <2>1, <2>4, <3>2, <3>3 DEF Touches
      <3>4. CASE old # None /\ in.ddl.kind = "other"
        BY <2>1, <2>2, <2>4, <3>1, <3>2, <3>4 DEF Touches, Shown, Before
      <3>5. CASE old # None /\ in.ddl.kind = "partial"
        BY <2>2, <3>1, <3>5 DEF Shown, Before
      <3>6. QED
        BY <3>2, <3>3, <3>4, <3>5 DEF DDL
    <2>5. CASE ~Generates(old, in) /\ ~Parses(old, in)
      <3>1. new.parsable = Before(old).parsable /\ new.complete = in.complete
        BY <2>1, <2>5 DEF Stored
      <3>2. QED
        BY <2>1, <2>2, <2>5, <3>1 DEF Touches, Shown, Before
    <2>6. QED
      BY <2>3, <2>4, <2>5
  <1>4. QED
    BY <1>1, <1>2, <1>3 DEF Made

LEMMA StepVersioned == SerialInv /\ Next => Versioned
  <1> SUFFICES ASSUME SerialInv, Next, NEW n \in Names,
                      \/ Shown(View(rows[n])) /\ Gone(rows'[n])
                      \/ Gone(rows[n]) /\ Shown(View(rows'[n]))
               PROVE  dv' # dv
    BY DEF Versioned
  <1>1. rows[n] \in Row \cup {None} /\ dv \in DVRow \cup {None}
    BY DEF SerialInv, EditInv, TypeOK
  <1>2. rows'[n] # rows[n]
    BY DEF Shown, View, Gone
  <1>3. ASSUME NEW t \in Threads, Commit(t)  PROVE dv' # dv
    <2> DEFINE e == thread[t]
    <2>1. /\ e \in Edit /\ e.name = n /\ e.dirty /\ dv # None
          /\ Made(View(rows[n]), e.view, e.touch)
          /\ View(rows'[n]) = e.view
      BY <1>2, <1>3, CommitWrites
    <2>2. View(rows[n]) \in Content \cup {None} /\ e.touch \in BOOLEAN
      BY <1>1, <2>1 DEF View, Row, Edit
    <2>3. e.touch
      <3>1. Gone(rows[n]) => View(rows[n]) = None \/ ~View(rows[n]).parsable
        BY DEF Gone, View
      <3>2. Gone(rows'[n]) => e.view = None \/ ~e.view.parsable
        BY <2>1 DEF Gone, View
      <3>3. QED
        BY <2>1, <2>2, <3>1, <3>2, MadeTouches
    <2>4. dv \in DVRow /\ dv' = Touched(dv)
      BY <1>1, <1>3, <2>1, <2>3 DEF Commit
    <2>5. dv'.ver = dv.ver + 1 /\ dv.ver \in Nat
      BY <2>4, EditorAssumption DEF EditorAssumption, Touched, DVRow
    <2>6. QED
      BY <2>5
  <1>4. ASSUME NEW t \in Threads, CommitDV(t)  PROVE dv' # dv
    <2>1. dv' = None /\ dv \in DVRow
      BY <1>2, <1>4 DEF CommitDV, DVEdit
    <2>2. QED
      BY <2>1, EditorAssumption DEF EditorAssumption, DVRow
  <1>5. CASE \E m \in Names : ImportDV(m)
    <2>1. dv = None /\ dv' = [id |-> nextId, ver |-> 0] /\ nextId \in 0..MaxId
      BY <1>5 DEF ImportDV, SerialInv, EditInv, TypeOK
    <2>2. dv' \in DVRow
      BY <2>1, EditorAssumption DEF EditorAssumption, DVRow
    <2>3. QED
      BY <2>1, <2>2, EditorAssumption DEF EditorAssumption, DVRow
  <1>6. QED
    BY <1>2, <1>3, <1>4, <1>5
    DEF Next, ReadUpsert, ReadRemove, ReadImported, ReadDV, ReadTouched, Rollback, CreateDV, Goes

\* A view that comes, goes or changes whether it is parsable changes the row of the
\* virtualization, however the requests overlap, so a preview that compares the
\* version is made again.
THEOREM ParsableIsVersionedCorrect == Spec => ParsableIsVersioned
  <1>1. SerialInv /\ [Next]_vars => [Versioned]_vars
    BY StepVersioned
  <1>2. QED
    BY SerialInit, SerialNext, <1>1, PTL DEF Spec, ParsableIsVersioned, Versioned, Gone
=============================================================================
