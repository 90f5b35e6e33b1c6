---------------------------- MODULE MCNodeAgent ----------------------------
(***************************************************************************)
(* Model values and symmetry for checking NodeAgent.                       *)
(***************************************************************************)
EXTENDS NodeAgent, TLC

CONSTANTS s1, s2, s3, t1, t2, j1, j2

OneServer == {s1}
TwoServers == {s1, s2}
ThreeServers == {s1, s2, s3}
TwoWorkers == {t1, t2}
OneJob == {j1}
TwoJobs == {j1, j2}

Symmetry ==
  Permutations(Servers) \cup Permutations(Threads) \cup Permutations(Jobs)

\* A node with a server in each place, of which the panel knows s1 alone.  One
\* worker takes the panel's passes, which keep arriving, and its purges of the
\* others; the other worker powers and rebuilds s1.  When nothing of the others is
\* left, and the agent has not died, the first rebuilds s1 too: two rebuilds overlap.
BacklogInit == Init /\ used = Servers
BacklogNext ==
  \/ \E t \in Threads : Handler(t)
  \/ ReconcileSnapshot(t1, {s1}, {})
  \/ \E s \in Servers \ {s1} : RemoveContainer(t1, s) \/ RemoveRefused(t1, s)
  \/ RebuildLookup(t2, s1) \/ \E action \in Powers : PowerLookup(t2, s1, action)
  \/ /\ crashes = 0 /\ \A s \in Servers \ {s1} : container[s] = "absent" /\ ~dir[s]
     /\ RebuildLookup(t1, s1)
  \/ BotExits(s1)
  \/ SweepDirs \/ SweepContainers
  \/ Crash \/ Restart
\* Docker does not refuse the removal of one container for ever: a container that
\* is never removed can take the place of the others in every capped pass.
BacklogSpec ==
  /\ BacklogInit /\ [][BacklogNext]_vars /\ Fairness
  /\ WF_vars(ReconcileSnapshot(t1, {s1}, {}))
  /\ \A s \in Servers : SF_vars(ReconcileRemove(t1, s))

\* Containers the control plane no longer knows are removed, even when there
\* are more of them than one pass may delete (reconcile: the cap is not
\* all-or-nothing, the backlog drains across passes) and Docker refuses some of
\* the removals.
OrphansDrain ==
  \A s \in Servers \ {s1} : container[s] # "absent" ~> container[s] = "absent"

\* A server whose rebuild lost its container says so, unless the agent died in
\* between: _restore_container records the failure where the panel can still
\* read it.
LossRecorded ==
  crashes = 0 /\ Quiet(s1) /\ container[s1] = "absent" => install[s1] = "failed"
=============================================================================
