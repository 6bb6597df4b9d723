------------------------------ MODULE MCPreview ------------------------------
(***************************************************************************)
(* PreviewVdb for TLC: its symmetry, and what comments of MetadataService  *)
(* and DataVirtualizationService say and the code does not do.             *)
(***************************************************************************)
EXTENDS PreviewVdb, TLC

Symmetry == Permutations(DVs) \cup Permutations(Threads) \cup Permutations(Conns)

\* "there is a small chance that a dv with the same name was recreated in the
\* meantime, but since this vdb is created on-demand we're good": when no
\* delete is under way, a vdb that passes for current shows the views of its row.
OnDemandIsGood == (\A t \in Threads : thread[t].at \notin {"find", "remove"}) => LabelIsCurrent
=============================================================================
