------------------------- MODULE MC_WorkflowRuntime -------------------------
(***************************************************************************)
(* One workflow runtime on a three-step workflow in which one step fans    *)
(* out to two (pre -> train, pre -> eval), run by its event loop against   *)
(* a nondeterministic job backend, and stopped at any moment by another    *)
(* goroutine.  The runtime is either started fresh or restarted from any   *)
(* runtime view that RetryRun can hand it (after resetRunSteps: every step *)
(* empty or done, and done only if its dependencies are done).             *)
(***************************************************************************)
EXTENDS WorkflowRuntime, TLC

CONSTANTS h1, pre, train, eval

MCHandles == {h1}
MCSteps == {pre, train, eval}
MCDeps == (pre :> {}) @@ (train :> {pre}) @@ (eval :> {pre})

ResumableViews ==
    {v \in [Steps -> {"", "succeeded", "skipped"}] :
        \A s \in Steps : v[s] # "" => \A d \in Deps[s] : v[d] \in DoneStatus}

\* The controller creates the runtime (fresh or restarted), and a StopRun
\* request may arrive at any time while it has not been stopped.
Launch(h) == Start(h) \/ \E v \in ResumableViews : Restart(h, v)

StopRequest(h) == ~stopFlag[h] /\ Stop(h)

Next ==
    \E h \in Handles :
        \/ Launch(h)
        \/ StopRequest(h)
        \/ LoopNext(h)

Spec == InitRuntime /\ [][Next]_rtVars /\ \A h \in Handles : LoopFairness(h)

\* The runtime's status implements the abstract run lifecycle; a runtime
\* that does not exist yet stands for a run that is Pending.
Lifecycle == INSTANCE RunLifecycle
    WITH status <- IF rtStatus[h1] = "none" THEN "pending" ELSE rtStatus[h1]

LifecycleRefined == Lifecycle!Spec

=============================================================================
