------------------------------ MODULE MCPublish ------------------------------
(* Publish for TLC: the symmetry of its threads.                           *)
EXTENDS Publish, TLC

Symmetry == Permutations(PoolThreads) \cup Permutations(Publishers)
            \cup Permutations(Unpublishers)

\* "since delete is async process too, monitor it in the monitor thread": the
\* monitored delete comes to its end, DELETE_DONE, or DELETE_REQUEUE first.
DeleteEnds == \A w \in Works : status[w] = "DELETE_SUBMITTED" ~> status[w] # "DELETE_SUBMITTED"
=============================================================================
