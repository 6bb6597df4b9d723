---------------------------- MODULE MCViewEditor ----------------------------
(* ViewEditor for TLC: the requests are alike, and clients send a path     *)
(* only with complete views that are not of their own making.              *)
EXTENDS ViewEditor, TLC

Symmetry == Permutations(Threads)

MostSent == {in \in Input : /\ in.path = None \/ (in.complete /\ ~in.userDefined)
                            /\ in.complete \/ (~in.userDefined /\ in.ddl \in {None, Generated(None)})}
=============================================================================
