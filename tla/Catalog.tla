------------------------------- MODULE Catalog -------------------------------
(***************************************************************************)
(* What the editing of a virtualization promises its clients, who do not   *)
(* see transactions: each request is one step, which finds the views as    *)
(* they are and changes the version of the virtualization with them.       *)
(***************************************************************************)
EXTENDS Naturals, Views

CONSTANT Names   \* the names of views

VARIABLES
  version,   \* the version of the virtualization, None if there is none
  views      \* its views, by name

cvars == <<version, views>>

NoViews == [n \in Names |-> None]

Init == version = None /\ views = NoViews

\* A view is replaced, made or removed, and the version goes up or not.
Becomes(n, view, touch) ==
  /\ version # None
  /\ views' = [views EXCEPT ![n] = view]
  /\ version' = IF touch THEN version + 1 ELSE version

Store(n) ==
  \E in \in Sent :
    Becomes(n, Stored(views[n], Validated(in)), Touches(views[n], Validated(in)))

Import(n) == \E path \in Paths : Becomes(n, Imported(path), TRUE)

Remove(n) == Becomes(n, None, Shown(views[n]))

\* The description is changed, or a view is stored as it was.
Touch == version # None /\ version' = version + 1 /\ UNCHANGED views

Create ==
  /\ version = None /\ version' = 0
  /\ \/ UNCHANGED views
     \/ \E n \in Names, in \in Sent : views' = [views EXCEPT ![n] = Stored(None, in)]

Delete == version # None /\ version' = None /\ views' = NoViews

Next ==
  \/ \E n \in Names : Store(n) \/ Import(n) \/ Remove(n)
  \/ Touch \/ Create \/ Delete

Spec == Init /\ [][Next]_cvars
=============================================================================
