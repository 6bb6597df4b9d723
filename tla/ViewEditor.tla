----------------------------- MODULE ViewEditor -----------------------------
(***************************************************************************)
(* The rows of one virtualization and its views, as the requests of        *)
(* EditorService and DataVirtualizationService edit them: a view is stored,*)
(* imported from a source or removed; the virtualization is described,     *)
(* created, deleted or imported.                                           *)
(*                                                                         *)
(* A request reads the rows in a transaction and writes them at its end.   *)
(* Rows carry a version (@Version of BaseEntity): an update or delete of a *)
(* row whose version has changed rolls its transaction back.  The version  *)
(* of the virtualization's row tells the previews (PreviewVdb) whether the *)
(* views have changed, so an edit touches that row too.                    *)
(***************************************************************************)
EXTENDS Naturals, Views

CONSTANTS
  Names,       \* the names of views
  Threads,     \* the requests being served
  MaxId,       \* bounds the rows ever made
  MaxVersion,  \* bounds the versions of a view's row
  MaxTouches   \* bounds the versions of the virtualization's row

ASSUME EditorAssumption ==
  /\ {MaxId, MaxVersion, MaxTouches} \subseteq Nat
  /\ None \notin Nat \cup Paths
  /\ None \notin [id : 0..MaxId, ver : 0..MaxTouches] \cup Content
  /\ None \notin [id : 0..MaxId, ver : 0..MaxVersion, view : Content]

VARIABLES
  dv,      \* the row of data_virtualization
  rows,    \* the rows of view_definition, by name
  thread,  \* what each request has read and computed
  nextId

vars == <<dv, rows, thread, nextId>>

-----------------------------------------------------------------------------
Row   == [id : 0..MaxId, ver : 0..MaxVersion, view : Content]
DVRow == [id : 0..MaxId, ver : 0..MaxTouches]

\* A request that has read the row of a view (id None: there was none): the new
\* content (None: the row will be deleted), whether it touches the row of the
\* virtualization, that row once it is read, and the version the client gave.
Edit == [name : Names, id : (0..MaxId) \cup {None}, ver : (0..MaxVersion) \cup {None},
         view : Content \cup {None}, dirty : BOOLEAN,
         touch : BOOLEAN, dv : DVRow \cup {None}, given : (0..MaxVersion) \cup {None}]

\* A request that has read the row of the virtualization first.
DVEdit == [kind : {"describe", "delete", "import"}, dv : DVRow]
Idle == [kind |-> "idle"]

Init ==
  /\ dv = None /\ rows = [n \in Names |-> None]
  /\ thread = [t \in Threads |-> Idle]
  /\ nextId = 0

\* The view that a row holds.
View(row) == IF row = None THEN None ELSE row.view

-----------------------------------------------------------------------------
(* upsertViewEditorState                                                   *)

Goes(t, work) ==
  /\ thread' = [thread EXCEPT ![t] = work]
  /\ UNCHANGED <<dv, rows, nextId>>

Edited(n, view, touch, given) ==
  [name |-> n,
   id |-> IF rows[n] = None THEN None ELSE rows[n].id,
   ver |-> IF rows[n] = None THEN None ELSE rows[n].ver,
   view |-> view, dirty |-> rows[n] = None \/ view # rows[n].view,
   touch |-> touch, dv |-> None, given |-> given]

\* With the id of the row comes its version, or none, which warns only.
Accepted(row, byId, given) ==
  IF byId THEN row # None /\ given \in {None, row.ver} ELSE given = None

\* A client stores a view, by its id or its name.  The validation fails without
\* a virtualization, and the generation if a table is not found: then nothing is
\* stored.
ReadUpsert(t, n) ==
  /\ thread[t] = Idle /\ dv # None
  /\ \E sent \in Sent, byId \in BOOLEAN, given \in (0..MaxVersion) \cup {None} :
       LET in == Validated(sent) IN
       /\ Accepted(rows[n], byId, given)
       /\ Goes(t, Edited(n, Stored(View(rows[n]), in), Touches(View(rows[n]), in), given))

-----------------------------------------------------------------------------
\* removeViewDefinition.  A variant that forgets the previews.
ReadRemove_Untouched(t, n) ==
  /\ thread[t] = Idle /\ rows[n] # None
  /\ Goes(t, Edited(n, None, FALSE, None))

ReadRemove(t, n) ==
  /\ thread[t] = Idle /\ rows[n] # None
  /\ Goes(t, Edited(n, None, Shown(View(rows[n])), None))

\* updateDataVirtualization, deleteDataVirtualization and importViews begin with
\* the row of the virtualization.
ReadDV(t, kind) ==
  /\ thread[t] = Idle /\ dv # None
  /\ Goes(t, [kind |-> kind, dv |-> dv])

\* importViews, of one table: the view is made anew, whatever it was.
ReadImported(t, n) ==
  /\ thread[t] \in DVEdit /\ thread[t].kind = "import"
  /\ \E path \in Paths :
       Goes(t, [Edited(n, Imported(path), TRUE, None) EXCEPT !.dv = thread[t].dv])

\* The last read of an edit that touches; without a row it fails.
ReadTouched(t) ==
  /\ thread[t] \in Edit /\ thread[t].touch /\ thread[t].dv = None
  /\ Goes(t, IF dv = None THEN Idle ELSE [thread[t] EXCEPT !.dv = dv])

-----------------------------------------------------------------------------
(* The end of a transaction.                                               *)

Touched(row) == [row EXCEPT !.ver = @ + 1]

\* What an insertion, update or deletion finds in the database: no row of the
\* name, and a virtualization; or the row as it was read.  Variants without the
\* foreign key, and without @Version.
Matches_Unkeyed(edit) ==
  IF edit.id = None THEN rows[edit.name] = None
  ELSE edit.dirty => /\ rows[edit.name] # None
                     /\ rows[edit.name].id = edit.id /\ rows[edit.name].ver = edit.ver

Matches_Any(edit) ==
  IF edit.id = None THEN rows[edit.name] = None /\ dv # None
  ELSE edit.dirty => rows[edit.name] # None

Matches(edit) ==
  IF edit.id = None THEN rows[edit.name] = None /\ dv # None
  ELSE edit.dirty => /\ rows[edit.name] # None
                     /\ rows[edit.name].id = edit.id /\ rows[edit.name].ver = edit.ver

Written(edit) ==
  IF edit.view = None THEN None
  ELSE IF edit.id = None THEN [id |-> nextId, ver |-> 0, view |-> edit.view]
  ELSE [id |-> edit.id, ver |-> edit.ver + 1, view |-> edit.view]

Commit(t) ==
  LET edit == thread[t] IN
  /\ edit \in Edit /\ edit.touch = (edit.dv # None)
  /\ Matches(edit) /\ (edit.touch => dv = edit.dv)
  /\ edit.touch => dv.ver < MaxTouches
  /\ edit.id # None => edit.ver < MaxVersion
  /\ edit.id = None => nextId < MaxId
  /\ rows' = IF edit.dirty THEN [rows EXCEPT ![edit.name] = Written(edit)] ELSE rows
  /\ dv' = IF edit.touch THEN Touched(dv) ELSE dv
  /\ nextId' = IF edit.id = None THEN nextId + 1 ELSE nextId
  /\ thread' = [thread EXCEPT ![t] = Idle]

\* The description is changed, or the row is deleted, and with it the views.
CommitDV(t) ==
  LET edit == thread[t] IN
  /\ edit \in DVEdit /\ edit.kind # "import" /\ dv = edit.dv
  /\ IF edit.kind = "delete"
     THEN dv' = None /\ rows' = [n \in Names |-> None]
     ELSE dv.ver < MaxTouches /\ dv' = Touched(dv) /\ UNCHANGED rows
  /\ thread' = [thread EXCEPT ![t] = Idle]
  /\ UNCHANGED nextId

\* A transaction is rolled back: a row does not match, or any other reason.
Rollback(t) == thread[t] # Idle /\ Goes(t, Idle)

CreateDV ==
  /\ dv = None /\ nextId < MaxId
  /\ dv' = [id |-> nextId, ver |-> 0] /\ nextId' = nextId + 1
  /\ UNCHANGED <<rows, thread>>

\* importDataVirtualization, of a file with one view: one transaction makes both.
ImportDV(n) ==
  /\ dv = None /\ nextId + 1 < MaxId
  /\ \E in \in Sent :
       rows' = [rows EXCEPT ![n] = [id |-> nextId + 1, ver |-> 0, view |-> Stored(None, in)]]
  /\ dv' = [id |-> nextId, ver |-> 0] /\ nextId' = nextId + 2
  /\ UNCHANGED thread

Next ==
  \/ \E t \in Threads :
       \/ \E n \in Names : ReadUpsert(t, n) \/ ReadRemove(t, n) \/ ReadImported(t, n)
       \/ \E kind \in {"describe", "delete", "import"} : ReadDV(t, kind)
       \/ ReadTouched(t) \/ Commit(t) \/ CommitDV(t) \/ Rollback(t)
  \/ CreateDV
  \/ \E n \in Names : ImportDV(n)

Spec == Init /\ [][Next]_vars

-----------------------------------------------------------------------------
(* Properties.                                                             *)

\* Every variable has its type, and views have their virtualization.
TypeOK ==
  /\ dv \in DVRow \cup {None}
  /\ dv = None => rows = [n \in Names |-> None]
  /\ rows \in [Names -> Row \cup {None}]
  /\ thread \in [Threads -> Edit \cup DVEdit \cup {Idle}]
  /\ nextId \in 0..MaxId

\* An edit whose client gave the version it has seen is applied to that version
\* of that row only, whatever others store, remove and make again meanwhile.
NoLostUpdate ==
  [][\A n \in Names : rows'[n] # rows[n] =>
       \A t \in Threads :
         thread[t] \in Edit /\ thread[t].given # None /\ thread'[t] = Idle =>
           /\ rows[n] # None
           /\ rows[n].ver = thread[t].given /\ rows[n].id = thread[t].id]_vars

\* A view that becomes parsable in the previews, or no longer is, or goes away,
\* changes the row of the virtualization, so that the previews are made again.
ParsableIsVersioned ==
  [][\A n \in Names :
       LET gone(r) == r = None \/ ~r.view.parsable IN
       \/ Shown(View(rows[n])) /\ gone(rows'[n])
       \/ gone(rows[n]) /\ Shown(View(rows'[n]))
       => dv' # dv]_vars

\* Requests that overlap are like requests one after the other: what is written
\* is what would have been made of the view as it is then, and the version of the
\* virtualization changes as it would have.
Atomic == INSTANCE Catalog WITH
            version <- IF dv = None THEN None ELSE dv.ver,
            views   <- [n \in Names |-> View(rows[n])]
Serializable == Atomic!Spec
=============================================================================
