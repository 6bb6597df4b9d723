-------------------------------- MODULE Views --------------------------------
(***************************************************************************)
(* What EditorService makes of a view that a client sends: the content to  *)
(* be stored, from what was stored before, and whether the virtualization  *)
(* changes with it.                                                        *)
(***************************************************************************)
CONSTANTS
  Paths,   \* the source tables a view may be of
  Sent,    \* what clients send (a bound)
  None     \* no view, no DDL, no path

\* A DDL defines the view, over a path or none; or it defines the view, with an
\* error; or it does not define just the view.
DDL == [kind : {"view"}, of : Paths \cup {None}] \cup [kind : {"partial", "other"}, of : {None}]

\* getODataViewDdl: without a path it selects a constant.
Generated(path) == [kind |-> "view", of |-> path]

Content == [ddl : DDL \cup {None}, path : Paths \cup {None},
            complete : BOOLEAN, userDefined : BOOLEAN, parsable : BOOLEAN]

Input == [ddl : DDL \cup {None}, path : Paths \cup {None},
          complete : BOOLEAN, userDefined : BOOLEAN]

ASSUME SentAssumption == Sent \subseteq Input

\* createPreviewVdb includes the view.
Shown(view) == view # None /\ view.complete /\ view.parsable

\* validateViewDefinition, before: a DDL that resolves sets the source paths.
Validated(in) ==
  IF in.ddl # None /\ in.ddl.kind = "view" THEN [in EXCEPT !.path = in.ddl.of] ELSE in

Before(view) ==
  IF view = None
  THEN [ddl |-> None, path |-> None, complete |-> FALSE, userDefined |-> FALSE, parsable |-> FALSE]
  ELSE view

\* The DDL is made again, or parsed, or taken as it is.
Generates(view, in) ==
  /\ in.complete /\ ~in.userDefined
  /\ in.ddl = None \/ view = None \/ in.path # Before(view).path \/ ~Before(view).parsable

Parses(view, in) ==
  in.complete /\ in.userDefined /\ in.ddl # None /\ in.ddl # Before(view).ddl

Stored(view, in) ==
  LET sent(ddl, path, parsable) ==
        [ddl |-> ddl, path |-> path, complete |-> in.complete,
         userDefined |-> in.userDefined, parsable |-> parsable]
  IN
  CASE Generates(view, in) -> sent(Generated(in.path), in.path, TRUE)
    [] Parses(view, in) ->
         sent(in.ddl, None,
              \/ in.ddl.kind = "view"
              \/ in.ddl.kind = "partial" /\ Before(view).parsable)
    [] OTHER -> sent(in.ddl, in.path, Before(view).parsable)

\* updateDv
Touches(view, in) ==
  /\ in.complete
  /\ \/ view = None
     \/ Generates(view, in)
     \/ Parses(view, in) /\ \/ in.ddl.kind = "view"
                            \/ in.ddl.kind = "other" /\ Before(view).parsable

\* importViews, of one table.
Imported(path) ==
  [ddl |-> Generated(path), path |-> path, complete |-> TRUE,
   userDefined |-> FALSE, parsable |-> TRUE]
=============================================================================
