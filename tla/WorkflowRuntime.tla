--------------------------- MODULE WorkflowRuntime ---------------------------
(***************************************************************************)
(* The workflow runtime of PaddleFlow (package pipeline: Workflow,        *)
(* WorkflowRuntime and Step).  The implementation of this package is not  *)
(* part of the source tree under src/ (only its test,                     *)
(* src/pkg/pipeline/workflow_test.go, is), so the actions are modelled    *)
(* from spec.md sections 4.D and 4.E, and from the behaviour the tests    *)
(* assert.                                                                *)
(*                                                                         *)
(* A runtime is identified by a handle h (the *pipeline.Workflow pointer  *)
(* that the controller keeps in wfMap).  Its single event-loop goroutine  *)
(* is the only writer of the step states; job-backend progress reaches it *)
(* as JobUpdate events.  Every transition the loop makes is reported      *)
(* through UpdateRunCb, a synchronous call: the loop blocks in cb[h] until *)
(* the callback returns (CallbackReturn here, the controller's database   *)
(* write when the controller composes this module).  Stop is called from  *)
(* another goroutine (the StopRun handler) and may interleave with the    *)
(* loop.                                                                  *)
(***************************************************************************)
EXTENDS FiniteSets

CONSTANTS
    Handles,    \* the runtimes that may be created (bounds how many)
    Steps,      \* the steps of the (already validated) workflow source
    Deps,       \* Deps[s]: the steps s depends on
    NoCb        \* model value: no UpdateRunCb call in progress

ASSUME Deps \in [Steps -> SUBSET Steps]

VARIABLES
    rtStatus,   \* rtStatus[h]: "none" before creation, else WorkflowRuntime.status
    stepSt,     \* stepSt[h][s]: status of the job of step s ("" = not submitted)
    stopFlag,   \* stopFlag[h]: Stop has been called
    cb,         \* cb[h]: the UpdateRunCb call the loop is blocked in, or NoCb
    restoredFrom, \* restoredFrom[h]: the runtime view h was restarted from (history)
    submittedBy \* submittedBy[h]: steps h has submitted a job for (history)

rtVars == <<rtStatus, stepSt, stopFlag, cb, restoredFrom, submittedBy>>

(***************************************************************************)
(* Step and job statuses, as in schema.JobView (StatusJobXxx); "" is a step *)
(* whose job has not been submitted.                                       *)
(***************************************************************************)
JobStatus == {"", "pending", "running", "terminating", "succeeded",
              "failed", "terminated", "cancelled", "skipped"}
DoneStatus == {"succeeded", "skipped"}
TerminalStatus == {"succeeded", "failed", "terminated", "cancelled", "skipped"}
RtFinal == {"succeeded", "failed", "terminated"}
\* "lost": the server process died while the runtime had not ended.
RtStatus == {"none", "running", "terminating", "lost"} \cup RtFinal
Ended == RtFinal \cup {"lost"}

EmptyView == [s \in Steps |-> ""]
Callback == [status : RtStatus \ {"none"}, view : [Steps -> JobStatus]]

(***************************************************************************)
(* Readiness (Step.ready): not yet submitted, all dependencies done        *)
(* (succeeded, or skipped on a cache hit).                                 *)
(***************************************************************************)
\* Seeded fault: readiness that forgets the dependencies.
ReadyIgnoringDeps(st, s) == st[s] = ""

Ready(st, s) == st[s] = "" /\ \A d \in Deps[s] : st[d] \in DoneStatus

AllTerminal(st) == \A s \in Steps : st[s] \in TerminalStatus

Schedule(st, stopped) ==
    LET failed == \E s \in Steps : st[s] = "failed" IN
    [s \in Steps |->
        CASE ~stopped /\ ~failed /\ Ready(st, s) -> "pending"
          [] ~stopped /\ failed /\ st[s] = ""   -> "cancelled"
          [] OTHER                              -> st[s]]

\* Seeded fault: aggregation that overlooks a failed step.
AggregateIgnoringFailure(st, stopped) ==
    IF stopped \/ \E s \in Steps : st[s] \in {"terminated", "cancelled"}
    THEN "terminated" ELSE "succeeded"

\* Aggregate runtime status, evaluated when every step is terminal.
Aggregate(st, stopped) ==
    CASE \E s \in Steps : st[s] = "failed"                           -> "failed"
      [] stopped \/ \E s \in Steps : st[s] \in {"terminated", "cancelled"} -> "terminated"
      [] OTHER                                                         -> "succeeded"

StatusOf(st, stopped) ==
    IF AllTerminal(st) THEN Aggregate(st, stopped)
    ELSE IF stopped THEN "terminating" ELSE "running"

\* One turn of the loop after the step states became st: rescan, aggregate,
\* and block in UpdateRunCb with the new status and runtime view.
LoopTurn(h, st) ==
    LET st2 == Schedule(st, stopFlag[h])
        new == StatusOf(st2, stopFlag[h])
    IN  /\ stepSt' = [stepSt EXCEPT ![h] = st2]
        /\ rtStatus' = [rtStatus EXCEPT ![h] = new]
        /\ cb' = [cb EXCEPT ![h] = [status |-> new, view |-> st2]]
        /\ submittedBy' = [submittedBy EXCEPT ![h] =
                              @ \cup {s \in Steps : st[s] = "" /\ st2[s] = "pending"}]

(***************************************************************************)
(* SetWorkflowRuntime: restoring step states from a persisted runtime     *)
(* view (workflow_test.go TestRestartWorkflow tests): a succeeded (or cached)  *)
(* step is done and submitted and is not submitted again; a step whose    *)
(* job is still pending, running or terminating is re-attached to that    *)
(* job; a failed, terminated or cancelled one is requeued (spec 4.E).     *)
(***************************************************************************)
\* Seeded fault: a restored succeeded step is requeued like a failed one.
SetWorkflowRuntimeRequeueAll(view) ==
    [s \in Steps |-> IF view[s] \in {"failed", "terminated", "cancelled", "succeeded"}
                     THEN "" ELSE view[s]]

SetWorkflowRuntime(view) ==
    [s \in Steps |->
        IF view[s] \in {"failed", "terminated", "cancelled"} THEN "" ELSE view[s]]

(***************************************************************************)
(* Actions                                                                 *)
(***************************************************************************)

\* NewWorkflow followed by Start(): the loop starts and performs the first
\* readiness scan.
Start(h) ==
    /\ rtStatus[h] = "none"
    /\ stopFlag' = [stopFlag EXCEPT ![h] = FALSE]
    /\ restoredFrom' = [restoredFrom EXCEPT ![h] = EmptyView]
    /\ LoopTurn(h, EmptyView)

\* NewWorkflow, SetWorkflowRuntime(view) and Restart().
Restart(h, view) ==
    /\ rtStatus[h] = "none"
    /\ stopFlag' = [stopFlag EXCEPT ![h] = FALSE]
    /\ restoredFrom' = [restoredFrom EXCEPT ![h] = view]
    /\ LoopTurn(h, SetWorkflowRuntime(view))

\* The job backend reports a new status for the job of step s, and the
\* loop handles the JobUpdate event.  Progress a job may report: admitted
\* (or a cache hit, which makes the step Skipped), finished, or terminated
\* after a terminate request.  Events that would regress a step are not
\* generated (the step rejects them silently, spec 4.D).
JobProgress == {<<"pending", "running">>, <<"pending", "skipped">>,
                <<"running", "succeeded">>, <<"running", "failed">>,
                <<"terminating", "terminated">>}

JobUpdate(h, s, new) ==
    /\ rtStatus[h] \notin Ended \cup {"none"}
    /\ cb[h] = NoCb
    /\ <<stepSt[h][s], new>> \in JobProgress
    /\ LoopTurn(h, [stepSt[h] EXCEPT ![s] = new])
    /\ UNCHANGED <<stopFlag, restoredFrom>>

\* Seeded fault: Stop that leaves never-submitted steps alone.
StopKeepsUnsubmitted(h) ==
    /\ rtStatus[h] # "none"
    /\ IF rtStatus[h] \in Ended
         THEN UNCHANGED <<rtStatus, stepSt, stopFlag>>
         ELSE /\ stopFlag' = [stopFlag EXCEPT ![h] = TRUE]
              /\ rtStatus' = [rtStatus EXCEPT ![h] = "terminating"]
              /\ stepSt' = [stepSt EXCEPT ![h] = [s \in Steps |->
                     IF stepSt[h][s] \in {"pending", "running"} THEN "terminating"
                     ELSE stepSt[h][s]]]
    /\ UNCHANGED <<cb, restoredFrom, submittedBy>>

\* Seeded fault: Stop that sets the flag but not the Terminating status.
StopKeepsStatus(h) ==
    /\ rtStatus[h] # "none"
    /\ IF rtStatus[h] \in Ended
         THEN UNCHANGED <<rtStatus, stepSt, stopFlag>>
         ELSE /\ stopFlag' = [stopFlag EXCEPT ![h] = TRUE]
              /\ UNCHANGED rtStatus
              /\ stepSt' = [stepSt EXCEPT ![h] = [s \in Steps |->
                     CASE stepSt[h][s] = "" -> "cancelled"
                       [] stepSt[h][s] \in {"pending", "running"} -> "terminating"
                       [] OTHER -> stepSt[h][s]]]
    /\ UNCHANGED <<cb, restoredFrom, submittedBy>>

\* Workflow.Stop(), on the caller's goroutine: status Terminating, the stop
\* flag, and Step.stop() on every step that is not terminal (a submitted
\* job is asked to terminate; a step never submitted is cancelled).  A
\* runtime whose loop has already ended is left as it is.
Stop(h) ==
    /\ rtStatus[h] # "none"
    /\ IF rtStatus[h] \in Ended
         THEN UNCHANGED <<rtStatus, stepSt, stopFlag>>
         ELSE /\ stopFlag' = [stopFlag EXCEPT ![h] = TRUE]
              /\ rtStatus' = [rtStatus EXCEPT ![h] = "terminating"]
              /\ stepSt' = [stepSt EXCEPT ![h] = [s \in Steps |->
                     CASE stepSt[h][s] = "" -> "cancelled"
                       [] stepSt[h][s] \in {"pending", "running"} -> "terminating"
                       [] OTHER -> stepSt[h][s]]]
    /\ UNCHANGED <<cb, restoredFrom, submittedBy>>

\* UpdateRunCb returns to the loop.
CallbackReturn(h) ==
    /\ cb[h] # NoCb
    /\ cb' = [cb EXCEPT ![h] = NoCb]
    /\ UNCHANGED <<rtStatus, stepSt, stopFlag, restoredFrom, submittedBy>>

Live(h) == rtStatus[h] \notin Ended \cup {"none"}

\* The server process dies: every event loop, and every UpdateRunCb call a
\* loop was blocked in, is gone; runtimes that had ended keep their status,
\* and the jobs already submitted keep running in the cluster unobserved.
HaltAll ==
    /\ rtStatus' = [h \in Handles |-> IF Live(h) THEN "lost" ELSE rtStatus[h]]
    /\ cb' = [h \in Handles |-> NoCb]
    /\ UNCHANGED <<stepSt, stopFlag, restoredFrom, submittedBy>>

(***************************************************************************)
(* Initial state: no runtime exists yet.                                   *)
(***************************************************************************)
InitRuntime ==
    /\ rtStatus = [h \in Handles |-> "none"]
    /\ stepSt = [h \in Handles |-> EmptyView]
    /\ stopFlag = [h \in Handles |-> FALSE]
    /\ cb = [h \in Handles |-> NoCb]
    /\ restoredFrom = [h \in Handles |-> EmptyView]
    /\ submittedBy = [h \in Handles |-> {}]

(***************************************************************************)
(* The loop's own steps, and its fairness: the job backend eventually      *)
(* reports the progress of every job it was given (jobs end, or are        *)
(* reclaimed), the loop keeps taking events, and the persistence call      *)
(* behind UpdateRunCb eventually returns.                                  *)
(***************************************************************************)
LoopNext(h) ==
    \/ \E s \in Steps, new \in JobStatus : JobUpdate(h, s, new)
    \/ CallbackReturn(h)

LoopFairness(h) ==
    /\ \A s \in Steps, new \in JobStatus : WF_rtVars(JobUpdate(h, s, new))
    /\ WF_rtVars(CallbackReturn(h))

(***************************************************************************)
(* Properties                                                              *)
(***************************************************************************)

\* A runtime ends Succeeded only if every step is done and its job really
\* succeeded, either submitted by this runtime or restored as done from the
\* persisted view (spec 8: Succeeded iff every step Succeeded or Skipped).
SucceededMeansAllRan ==
    \A h \in Handles : rtStatus[h] = "succeeded" =>
        \A s \in Steps : /\ stepSt[h][s] \in DoneStatus
                       /\ \/ s \in submittedBy[h]
                          \/ restoredFrom[h][s] \in DoneStatus

\* A step's job is only ever submitted once all its dependencies are done,
\* and they stay done (spec 8: dependencies precede their dependants).
DepsDoneBeforeSubmit ==
    \A h \in Handles : \A s \in submittedBy[h] : \A d \in Deps[s] :
        stepSt[h][d] \in DoneStatus

\* Resume idempotence: a step restored as succeeded by SetWorkflowRuntime
\* is never submitted again by the restarted runtime (spec 8).
RestoredNeverResubmitted ==
    \A h \in Handles : \A s \in Steps :
        restoredFrom[h][s] \in DoneStatus => s \notin submittedBy[h]

StopIsHonoured ==
    \A h \in Handles : stopFlag[h] ~> rtStatus[h] \in {"terminated", "failed"}

=============================================================================
