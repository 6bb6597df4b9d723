----------------------------- MODULE Publication -----------------------------
(***************************************************************************)
(* What publishing promises whoever watches it and does not unpublish: the *)
(* life of a publish, from the request to its end, and what must be there  *)
(* in OpenShift and Syndesis at the moment its status says so.  There is   *)
(* no monitor, no queue, no pool and no failing call in here.              *)
(***************************************************************************)
EXTENDS Naturals

CONSTANTS
  DVs,        \* the virtualizations
  Works,      \* the publishes
  Mortal,     \* the virtualizations users may delete and create again
  None        \* no connection, no virtualization

VARIABLES
  phase,      \* the status of a publish; READY once its deployment was found ready
  of,         \* its virtualization
  build,      \* the build it has made
  rollout,    \* the rollout of each virtualization
  served,     \* whether a virtualization has services
  registered, \* the publishes whose connection Syndesis has
  rows,       \* the virtualizations there are
  source      \* the connection that the row of a virtualization names

cluster  == <<build, rollout, served>>
syndesis == <<registered, rows, source>>
pvars    == <<phase, of, cluster, syndesis>>

Init ==
  /\ phase = [w \in Works |-> "UNUSED"] /\ of = [w \in Works |-> None]
  /\ build = [w \in Works |-> "none"]
  /\ rollout = [d \in DVs |-> "none"] /\ served = [d \in DVs |-> FALSE]
  /\ registered = {} /\ rows = DVs /\ source = [d \in DVs |-> None]

\* A publish goes from one phase to the next, and nothing else changes.
Moves(w, from, to) ==
  /\ phase[w] = from /\ phase' = [phase EXCEPT ![w] = to]
  /\ UNCHANGED <<of, cluster, syndesis>>

Ask(w, d) ==
  /\ phase[w] = "UNUSED" /\ phase' = [phase EXCEPT ![w] = "SUBMITTED"]
  /\ of' = [of EXCEPT ![w] = d]
  /\ UNCHANGED <<cluster, syndesis>>

Configure(w) == Moves(w, "SUBMITTED", "CONFIGURING")

\* A publish has one build, which is made while it is configured.
MakeBuild(w) ==
  /\ phase[w] = "CONFIGURING" /\ build[w] = "none"
  /\ build' = [build EXCEPT ![w] = "running"]
  /\ UNCHANGED <<phase, of, rollout, served, syndesis>>

Configured(w)    == Moves(w, "CONFIGURING", "BUILDING") /\ build[w] # "none"
NotConfigured(w) == Moves(w, "CONFIGURING", "FAILED")

\* The status follows the end of the build and says which it was.
NotBuilt(w) ==
  \/ Moves(w, "BUILDING", "FAILED")    /\ build[w] = "failed"
  \/ Moves(w, "BUILDING", "CANCELLED") /\ build[w] = "cancelled"

\* The dc is there before the status says DEPLOYING.
Built(w) ==
  Moves(w, "BUILDING", "DEPLOYING") /\ build[w] = "complete" /\ rollout[of[w]] # "none"

NotRolledOut(w) == Moves(w, "DEPLOYING", "FAILED") /\ rollout[of[w]] = "failed"

\* What is served or connected was built, and ready when it was looked at.
NoticeReady(w) ==
  Moves(w, "DEPLOYING", "READY") /\ build[w] = "complete" /\ rollout[of[w]] = "ready"

Serve(w) ==
  /\ phase[w] = "READY" /\ served' = [served EXCEPT ![of[w]] = TRUE]
  /\ UNCHANGED <<phase, of, build, rollout, syndesis>>

\* The row may not learn of its connection; the publish may be given up at once.
Connect(w) ==
  /\ phase[w] = "READY" /\ served[of[w]]
  /\ registered' = registered \cup {w}
  /\ source' \in {source, [source EXCEPT ![of[w]] = w]}
  /\ phase' \in {phase, [phase EXCEPT ![w] = "DEPLOYING"]}
  /\ UNCHANGED <<of, cluster, rows>>

GiveUp(w) == Moves(w, "READY", "DEPLOYING")

\* RUNNING is said of what was ready, is served, connected, and found by its row.
Run(w) ==
  /\ Moves(w, "READY", "RUNNING")
  /\ served[of[w]] /\ w \in registered
  /\ of[w] \notin Mortal => source[of[w]] = w

\* The service is restarted: it knows of no publish any more.
Lose ==
  /\ phase' = [w \in Works |-> IF phase[w] = "UNUSED" THEN "UNUSED" ELSE "LOST"]
  /\ UNCHANGED <<of, cluster, syndesis>>

-----------------------------------------------------------------------------
(* OpenShift and the users.                                                *)

BuildEnds(w) ==
  /\ build[w] = "running"
  /\ \E p \in {"complete", "failed", "cancelled"} : build' = [build EXCEPT ![w] = p]
  /\ UNCHANGED <<phase, of, rollout, served, syndesis>>

\* What is rolled out, for the first time or again, has been built.
RollOut(d) ==
  /\ \E w \in Works : of[w] = d /\ build[w] = "complete"
  /\ rollout' = [rollout EXCEPT ![d] = "progressing"]
  /\ UNCHANGED <<phase, of, build, served, syndesis>>

RolloutEnds(d) ==
  /\ rollout[d] = "progressing"
  /\ \E s \in {"ready", "failed"} : rollout' = [rollout EXCEPT ![d] = s]
  /\ UNCHANGED <<phase, of, build, served, syndesis>>

DropRow(d) ==
  /\ d \in Mortal \cap rows /\ rows' = rows \ {d} /\ source' = [source EXCEPT ![d] = None]
  /\ UNCHANGED <<phase, of, cluster, registered>>

CreateRow(d) ==
  /\ d \in Mortal \ rows /\ rows' = rows \cup {d}
  /\ UNCHANGED <<phase, of, cluster, registered, source>>

Publish(w) ==
  \/ \E d \in DVs : Ask(w, d)
  \/ Configure(w) \/ MakeBuild(w) \/ Configured(w) \/ NotConfigured(w) \/ NotBuilt(w)
  \/ Built(w) \/ NotRolledOut(w) \/ NoticeReady(w) \/ Serve(w) \/ Connect(w)
  \/ GiveUp(w) \/ Run(w)

Next ==
  \/ \E w \in Works : Publish(w) \/ BuildEnds(w)
  \/ \E d \in DVs : RollOut(d) \/ RolloutEnds(d) \/ DropRow(d) \/ CreateRow(d)
  \/ Lose

Spec == Init /\ [][Next]_pvars
=============================================================================
