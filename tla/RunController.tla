---------------------------- MODULE RunController ----------------------------
(***************************************************************************)
(* The run controller of PaddleFlow (src/pkg/apiserver/controller/run/    *)
(* run.go) composed with the workflow runtimes it creates.               *)
(*                                                                         *)
(* State of the controller:                                               *)
(*   db      the run rows (models.Run): status and runtime view;          *)
(*   wfMap   the process-wide map run id -> *pipeline.Workflow (run.go:38);*)
(*   owner   which run each runtime was created for;                      *)
(*   prep    image preparations handed to PFImageHandler.HandleImage and  *)
(*           not yet called back;                                         *)
(*   cl      the HTTP handler goroutines: each client issues one request  *)
(*           at a time, and a handler runs as several steps, one per      *)
(*           database access or runtime call, so that handlers, runtime    *)
(*           event loops and their callbacks interleave as they do in the  *)
(*           server (nothing in run.go locks a run or wfMap).             *)
(* The runtimes are the WorkflowRuntime module, sharing its variables.    *)
(* Their UpdateRunCb callback writes the run row.                         *)
(***************************************************************************)
EXTENDS Integers, FiniteSets

CONSTANTS
    Runs,           \* run ids the database may hand out
    Clients,        \* concurrent API clients
    MaxRequests,    \* bound on the requests the clients issue in total
    MaxRuntimes,    \* bound on the runtimes created (handles 1..MaxRuntimes)
    NeedPrepModes,  \* whether a run's image needs preparation (NeedHandleImage)
    MaxRestarts,    \* bound on server restarts
    ListOutcomes,   \* whether models.ListRunsByStatus may fail at startup
    ResumeWorker,   \* the goroutine resumeActiveRuns starts
    Steps, Deps, NoCb, NoRun

VARIABLES rtStatus, stepSt, stopFlag, cb, restoredFrom, submittedBy
VARIABLES db, wfMap, owner, prep, cl, requests
VARIABLES resumeList,   \* runs listed at startup and not yet resumed
          restarts,     \* server restarts so far
          doneRec       \* history: steps the run row has recorded Succeeded

Handles == 1..MaxRuntimes
NoWf == 0

RT == INSTANCE WorkflowRuntime

rtVars == <<rtStatus, stepSt, stopFlag, cb, restoredFrom, submittedBy>>
auxVars == <<resumeList, restarts, doneRec>>
ctlVars == <<db, wfMap, owner, prep, cl, requests, auxVars>>

\* The request handlers and the resume goroutine.
Workers == Clients \cup {ResumeWorker}
vars == <<rtVars, ctlVars>>

FinalStatus == {"succeeded", "failed", "terminated"}   \* common.IsRunFinalStatus
DbStatus == {"absent", "deleted", "initiating", "pending", "running",
             "terminating"} \cup FinalStatus
View == [Steps -> RT!JobStatus]
\* image: handler.NeedHandleImage holds for the image recorded for the run
\* (the request's DockerEnv, or the ImageUrl written once it was prepared).
Row == [status : DbStatus, view : View, image : BOOLEAN]
Exists(r) == db[r].status \notin {"absent", "deleted"}

Idle == [pc |-> "idle", run |-> NoRun, wf |-> NoWf,
         row |-> [status |-> "absent", view |-> RT!EmptyView, image |-> FALSE]]
Prep == [run : Runs, resume : BOOLEAN, view : View]

(***************************************************************************)
(* Helpers                                                                 *)
(***************************************************************************)

\* models.UpdateRun / UpdateRunStatus / updateRunStatusAndMsg: an UPDATE of
\* the row by id, which changes nothing when the row does not exist.
SetStatus(r, st) ==
    db' = IF Exists(r) THEN [db EXCEPT ![r].status = st] ELSE db

Goto(c, pc) == cl' = [cl EXCEPT ![c].pc = pc]
Done(c) == cl' = [cl EXCEPT ![c] = Idle]

\* The first runtime handle not yet used.
FreeHandle == {h \in Handles : rtStatus[h] = "none"}
NewHandle == CHOOSE h \in FreeHandle : \A g \in FreeHandle : h <= g

\* Seeded fault: a run already registered keeps its old workflow in wfMap.
NewWorkflowByRunIfAbsent(r, h) ==
    /\ wfMap' = IF wfMap[r] = NoWf THEN [wfMap EXCEPT ![r] = h] ELSE wfMap
    /\ owner' = [owner EXCEPT ![h] = r]

\* newWorkflowByRun for a run with an id: build the workflow and record it
\* in wfMap (the next conjunct starts or restarts it).
NewWorkflowByRun(r, h) ==
    /\ wfMap' = [wfMap EXCEPT ![r] = h]
    /\ owner' = [owner EXCEPT ![h] = r]

\* The request may be issued: the client is idle and requests remain.
Issue(c) == cl[c].pc = "idle" /\ requests < MaxRequests /\ requests' = requests + 1

(***************************************************************************)
(* CreateRun: the row is inserted Initiating once the source is built and  *)
(* validated (a request that fails before that changes nothing).           *)
(***************************************************************************)
CreateRunInsert(c, r) ==
    /\ Issue(c)
    /\ db[r].status = "absent"
    /\ \E image \in NeedPrepModes :
          LET row == [status |-> "initiating", view |-> RT!EmptyView, image |-> image]
          IN  /\ db' = [db EXCEPT ![r] = row]
              /\ cl' = [cl EXCEPT ![c] = [Idle EXCEPT !.pc = "create_image",
                                                      !.run = r, !.row = row]]
    /\ UNCHANGED <<rtVars, wfMap, owner, prep, auxVars>>

(***************************************************************************)
(* handleImageAndStartWf(run, isResume).  Without image preparation the    *)
(* workflow is created, registered, started (or restarted from the view), *)
(* and the run is then updated Pending (next step).  With preparation the *)
(* image ids are listed and HandleImage is called; a failure of either    *)
(* marks the run Failed, success leaves a preparation in flight.          *)
(***************************************************************************)
HandleImageAndStartWf(c, isResume, next) ==
    LET r == cl[c].run
        needPrep == cl[c].row.image
    IN
      \/ /\ ~needPrep
         /\ FreeHandle # {}
         /\ NewWorkflowByRun(r, NewHandle)
         /\ IF isResume THEN RT!Restart(NewHandle, cl[c].row.view)
                        ELSE RT!Start(NewHandle)
         /\ cl' = [cl EXCEPT ![c].pc = next, ![c].wf = NewHandle]
         /\ UNCHANGED <<db, prep, requests, auxVars>>
      \/ /\ needPrep
         /\ SetStatus(r, "failed")
         /\ Done(c)
         /\ UNCHANGED <<rtVars, wfMap, owner, prep, requests, auxVars>>
      \/ /\ needPrep
         /\ prep' = prep \cup {[run |-> r, resume |-> isResume,
                                view |-> cl[c].row.view]}
         /\ Done(c)
         /\ UNCHANGED <<rtVars, db, wfMap, owner, requests, auxVars>>

CreateRunStart(c) ==
    /\ cl[c].pc = "create_image"
    /\ HandleImageAndStartWf(c, FALSE, "create_update")

\* models.UpdateRun(..., Status: StatusRunPending) after Start/Restart.
UpdateRunPending(c) ==
    /\ cl[c].pc \in {"create_update", "resume_update"}
    /\ SetStatus(cl[c].run, "pending")
    /\ Done(c)
    /\ UNCHANGED <<rtVars, wfMap, owner, prep, requests, auxVars>>

(***************************************************************************)
(* StopRun: the status is checked, the workflow looked up in wfMap, the    *)
(* row set Terminating, then wf.Stop() called.  A rejected request         *)
(* changes nothing.                                                        *)
(***************************************************************************)
StopRunCheck(c, r) ==
    /\ Issue(c)
    /\ Exists(r)
    /\ db[r].status \notin {"terminating"} \cup FinalStatus
    /\ wfMap[r] # NoWf
    /\ cl' = [cl EXCEPT ![c] = [Idle EXCEPT !.pc = "stop_update", !.run = r,
                                            !.wf = wfMap[r]]]
    /\ UNCHANGED <<rtVars, db, wfMap, owner, prep, auxVars>>

StopRunUpdate(c) ==
    /\ cl[c].pc = "stop_update"
    /\ SetStatus(cl[c].run, "terminating")
    /\ Goto(c, "stop_call")
    /\ UNCHANGED <<rtVars, wfMap, owner, prep, requests, auxVars>>

StopRunCall(c) ==
    /\ cl[c].pc = "stop_call"
    /\ RT!Stop(cl[c].wf)
    /\ Done(c)
    /\ UNCHANGED <<db, wfMap, owner, prep, requests, auxVars>>

(***************************************************************************)
(* RetryRun: only a Failed or Terminated run; the handler keeps the row it *)
(* read and works on that copy.                                            *)
(***************************************************************************)
\* Seeded fault: a retry that does not check the run's status.
RetryRunCheckAnyStatus(c, r) ==
    /\ Issue(c)
    /\ Exists(r)
    /\ cl' = [cl EXCEPT ![c] = [Idle EXCEPT !.pc = "retry_reset", !.run = r,
                                            !.row = db[r]]]
    /\ UNCHANGED <<rtVars, db, wfMap, owner, prep, auxVars>>

RetryRunCheck(c, r) ==
    /\ Issue(c)
    /\ db[r].status \in {"failed", "terminated"}
    /\ cl' = [cl EXCEPT ![c] = [Idle EXCEPT !.pc = "retry_reset", !.run = r,
                                            !.row = db[r]]]
    /\ UNCHANGED <<rtVars, db, wfMap, owner, prep, auxVars>>

\* resetRunSteps on the copy: failed, terminated and cancelled steps are
\* cleared; a running or terminating step makes the retry fail; otherwise
\* the whole copy (its status included) is written back with UpdateRun.
\* Seeded fault: succeeded steps are cleared as well.
ResetViewAll(view) == [s \in Steps |-> ""]

ResetView(view) ==
    [s \in Steps |-> IF view[s] \in {"cancelled", "failed", "terminated"}
                     THEN "" ELSE view[s]]

ResetRunSteps(c) ==
    LET r == cl[c].run
        row == cl[c].row
    IN
    /\ cl[c].pc = "retry_reset"
    /\ IF \E s \in Steps : row.view[s] \in {"running", "terminating"}
         THEN /\ Done(c)
              /\ UNCHANGED db
         ELSE /\ db' = IF Exists(r)
                       THEN [db EXCEPT ![r] = [row EXCEPT !.view = ResetView(row.view)]]
                       ELSE db
              /\ cl' = [cl EXCEPT ![c].pc = "resume",
                                  ![c].row.view = ResetView(row.view)]
    /\ UNCHANGED <<rtVars, wfMap, owner, prep, requests, auxVars>>

\* resumeRun: handleImageAndStartWf(run, true); its error is only logged.
ResumeRun(c) ==
    /\ cl[c].pc = "resume"
    /\ HandleImageAndStartWf(c, TRUE, "resume_update")

(***************************************************************************)
(* DeleteRun: only a run in a final status; the runtime is left alone.     *)
(***************************************************************************)
\* Seeded fault: a delete that does not check for a final status.
DeleteRunCheckAnyStatus(c, r) ==
    /\ Issue(c)
    /\ Exists(r)
    /\ cl' = [cl EXCEPT ![c] = [Idle EXCEPT !.pc = "delete_do", !.run = r]]
    /\ UNCHANGED <<rtVars, db, wfMap, owner, prep, auxVars>>

DeleteRunCheck(c, r) ==
    /\ Issue(c)
    /\ db[r].status \in FinalStatus
    /\ cl' = [cl EXCEPT ![c] = [Idle EXCEPT !.pc = "delete_do", !.run = r]]
    /\ UNCHANGED <<rtVars, db, wfMap, owner, prep, auxVars>>

DeleteRunDo(c) ==
    /\ cl[c].pc = "delete_do"
    /\ db' = IF Exists(cl[c].run)
             THEN [db EXCEPT ![cl[c].run].status = "deleted"] ELSE db
    /\ Done(c)
    /\ UNCHANGED <<rtVars, wfMap, owner, prep, requests, auxVars>>

(***************************************************************************)
(* Server restart.  The process dies: wfMap, the handler goroutines, the   *)
(* image preparations in flight and every runtime are lost; the database   *)
(* stays.  On startup InitAndResumeRuns lists the runs in an active status *)
(* (an error is only logged, and nothing is resumed) before requests are   *)
(* served, and resumeActiveRuns hands the list to a goroutine that calls   *)
(* resumeRun on each listed row, concurrently with new requests.           *)
(***************************************************************************)
\* common.RunActiveStatus: the statuses that are not final.
RunActiveStatus == {"initiating", "pending", "running", "terminating"}

\* Seeded fault: the list misses the runs that were being stopped.
ListActiveRunsSkipsTerminating(ok) ==
    IF ok THEN {[run |-> r, row |-> db[r]] :
                  r \in {q \in Runs : db[q].status \in {"initiating", "pending", "running"}}}
          ELSE {}

\* models.ListRunsByStatus(RunActiveStatus), with the rows as read.
ListActiveRuns(ok) ==
    IF ok THEN {[run |-> r, row |-> db[r]] :
                  r \in {q \in Runs : db[q].status \in RunActiveStatus}}
          ELSE {}

ServerRestart ==
    /\ restarts < MaxRestarts
    /\ restarts' = restarts + 1
    /\ RT!HaltAll
    /\ wfMap' = [r \in Runs |-> NoWf]
    /\ cl' = [c \in Workers |-> Idle]
    /\ prep' = {}
    /\ \E ok \in ListOutcomes : resumeList' = ListActiveRuns(ok)
    /\ UNCHANGED <<db, owner, requests, doneRec>>

\* The resume goroutine takes the next listed run and calls resumeRun on
\* the row it was listed with (then ResumeRun and UpdateRunPending).
ResumeNext ==
    /\ cl[ResumeWorker].pc = "idle"
    /\ \E e \in resumeList :
         /\ resumeList' = resumeList \ {e}
         /\ cl' = [cl EXCEPT ![ResumeWorker] =
                      [Idle EXCEPT !.pc = "resume", !.run = e.run, !.row = e.row]]
    /\ UNCHANGED <<rtVars, db, wfMap, owner, prep, requests, restarts, doneRec>>

(***************************************************************************)
(* Collaborators whose code is not under src/, modelled from spec 4.F:     *)
(* the image-preparation callback (handleImageCallbackFunc) marks the run  *)
(* Failed on error, and on success creates, registers and starts (or       *)
(* restarts) the workflow and records the run Pending; UpdateRunCb writes  *)
(* the status and runtime view a runtime reports into the run row.         *)
(***************************************************************************)
ImageCallback(p) ==
    /\ p \in prep
    /\ prep' = prep \ {p}
    /\ \/ /\ SetStatus(p.run, "failed")
          /\ UNCHANGED <<rtVars, wfMap, owner>>
       \/ /\ FreeHandle # {}
          /\ NewWorkflowByRun(p.run, NewHandle)
          /\ IF p.resume THEN RT!Restart(NewHandle, p.view)
                         ELSE RT!Start(NewHandle)
          /\ db' = IF Exists(p.run)
                   THEN [db EXCEPT ![p.run].status = "pending", ![p.run].image = FALSE]
                   ELSE db
    /\ UNCHANGED <<cl, requests, auxVars>>

UpdateRunCb(h) ==
    /\ cb[h] # NoCb
    /\ db' = IF Exists(owner[h])
             THEN [db EXCEPT ![owner[h]].status = cb[h].status,
                             ![owner[h]].view = cb[h].view]
             ELSE db
    /\ doneRec' = IF Exists(owner[h])
                  THEN [doneRec EXCEPT ![owner[h]] =
                           @ \cup {s \in Steps : cb[h].view[s] = "succeeded"}]
                  ELSE doneRec
    /\ RT!CallbackReturn(h)
    /\ UNCHANGED <<wfMap, owner, prep, cl, requests, resumeList, restarts>>

\* The event loop of runtime h handles a job update.
RuntimeStep(h) ==
    /\ \E s \in Steps, new \in RT!JobStatus : RT!JobUpdate(h, s, new)
    /\ UNCHANGED ctlVars

(***************************************************************************)
(* Specification                                                           *)
(***************************************************************************)
Init ==
    /\ RT!InitRuntime
    /\ db = [r \in Runs |-> Idle.row]
    /\ wfMap = [r \in Runs |-> NoWf]
    /\ owner = [h \in Handles |-> NoRun]
    /\ prep = {}
    /\ cl = [c \in Workers |-> Idle]
    /\ requests = 0
    /\ resumeList = {}
    /\ restarts = 0
    /\ doneRec = [r \in Runs |-> {}]

\* A handler goroutine takes its next step.
HandlerStep(c) ==
    \/ CreateRunStart(c)
    \/ UpdateRunPending(c)
    \/ StopRunUpdate(c)
    \/ StopRunCall(c)
    \/ ResetRunSteps(c)
    \/ ResumeRun(c)
    \/ DeleteRunDo(c)

\* A client issues a request.
Request(c) ==
    \E r \in Runs :
        \/ CreateRunInsert(c, r)
        \/ StopRunCheck(c, r)
        \/ RetryRunCheck(c, r)
        \/ DeleteRunCheck(c, r)

Next ==
    \/ \E c \in Clients : Request(c)
    \/ \E c \in Workers : HandlerStep(c)
    \/ ServerRestart
    \/ ResumeNext
    \/ \E p \in prep : ImageCallback(p)
    \/ \E h \in Handles : RuntimeStep(h) \/ UpdateRunCb(h)

\* Handler goroutines run to completion, preparations call back, runtimes
\* and their callbacks make progress (see WorkflowRuntime).  Issuing a
\* request is the clients' choice and is not assumed.
Fairness ==
    /\ \A c \in Workers : WF_vars(HandlerStep(c))
    /\ WF_vars(ResumeNext)
    /\ \A p \in Prep : WF_vars(ImageCallback(p))
    /\ \A h \in Handles : WF_vars(RuntimeStep(h)) /\ WF_vars(UpdateRunCb(h))

Spec == Init /\ [][Next]_vars /\ Fairness

(***************************************************************************)
(* Properties                                                              *)
(***************************************************************************)
LiveRuntimes(r) == {h \in Handles : owner[h] = r /\ RT!Live(h)}

\* A run is executed by at most one live runtime at a time: a second one
\* would submit the same steps again and is unreachable by StopRun, which
\* only stops the runtime wfMap points to (spec 3: each runtime is owned
\* by one run and registered by run id).
OneLiveRuntimePerRun ==
    \A r \in Runs : Cardinality(LiveRuntimes(r)) <= 1

\* Every runtime still executing a run is the one wfMap holds for it, so
\* StopRun (which looks the workflow up in wfMap) and the callbacks reach
\* it: a retry or resume that registers its new workflow must replace the
\* entry of the previous one, and a restart must not leave a runtime
\* running that the fresh wfMap does not know.
LiveRuntimeRegistered ==
    \A r \in Runs : \A h \in LiveRuntimes(r) : wfMap[r] = h

\* A deleted run has no runtime still executing it and no image
\* preparation that will start one (spec 4.F: DeleteRun does not touch the
\* runtime, which by then has been discarded).
DeletedRunHasNoLiveRuntime ==
    \A r \in Runs : db[r].status = "deleted" =>
        /\ LiveRuntimes(r) = {}
        /\ \A p \in prep : p.run # r

\* Resume idempotence: once the run row has recorded a step Succeeded, no
\* runtime of that run submits the step again, across retries and server
\* restarts (spec 171; resetRunSteps keeps succeeded steps in the view it
\* writes back, SetWorkflowRuntime restores them as done).
NoSucceededStepRerun ==
    [][\A g \in Handles, s \in Steps :
          s \in submittedBy'[g] \ submittedBy[g] => s \notin doneRec[owner'[g]]]_vars

\* Every run in an active status is eventually executed by a registered
\* runtime, or ends: after a restart, InitAndResumeRuns lists the active
\* runs and resumeRun registers a new runtime for each, so no run is left
\* Pending or Terminating with no workflow that could advance or stop it
\* (spec 125: resume reconstructs the runtime of every non-final run).
ActiveRunRegistered ==
    \A r \in Runs :
        (db[r].status \in RunActiveStatus /\ wfMap[r] = NoWf)
            ~> (wfMap[r] # NoWf \/ db[r].status \in FinalStatus \cup {"deleted"})

=============================================================================
