------------------------------ MODULE FsHandler ------------------------------
(***************************************************************************)
(* The fs handler of the api server (src/pkg/apiserver/handler/           *)
(* fs_handler.go): NewFsHandlerWithServer builds an fs client for a file   *)
(* system, retrying getFSClient up to maxRetryCount times, and            *)
(* ReadFileFromFs, called by CreateRun's buildWorkflowSource (run.go:121), *)
(* reads the run yaml through it.  getFSClient reads the file system row  *)
(* and its link rows from the fs services and calls fs.NewFSClient        *)
(* (src/pkg/fs/client/fs/client.go), which calls NewPFSClient.            *)
(*                                                                         *)
(*   fh[c]   the call of caller c: where it is (pc), the loop index i,    *)
(*           whether fsClientError is set (err), and as history the       *)
(*           number of getFSClient calls that returned a client (oks)     *)
(*           and what the call returned (result).                         *)
(* Each service call is one step that succeeds or fails (Outcomes);       *)
(* NewPFSClient, whose code is not under src/, returns a client, an error  *)
(* with a client, or an error with no client (ClientOutcomes).  Paths,     *)
(* file contents and log entries are left out; time.Sleep only delays.    *)
(***************************************************************************)
EXTENDS Naturals

CONSTANTS
    Callers,        \* concurrent callers (HTTP handlers of CreateRun)
    MaxRetryCount,  \* maxRetryCount (fs_handler.go:35)
    MaxCalls,       \* bound on the calls made in total
    Outcomes,       \* {TRUE}: service calls succeed; {TRUE, FALSE}: they may fail
    ClientOutcomes, \* results of NewPFSClient: "ok", "err", "nil"
    ServerModes,    \* whether SetFsServer has set defaultFsServer
    StepNames,      \* step names of the workflows a run yaml may hold
    NoEntry         \* a request without an entry

VARIABLES fh, calls,
          serverSet   \* defaultFsServer is not empty (fixed at startup)

vars == <<fh, calls, serverSet>>

BW == INSTANCE BaseWorkflow

Idle == [pc |-> "idle", via |-> "none", i |-> 0, err |-> FALSE, oks |-> 0,
         result |-> "none", deps |-> [s \in StepNames |-> {}], entry |-> NoEntry,
         steps |-> {}, order |-> <<>>]

At(c, pc) == fh[c].pc = pc
Goto(c, pc) == fh' = [fh EXCEPT ![c].pc = pc]
Finish(c, res) == fh' = [fh EXCEPT ![c].pc = "idle", ![c].result = res]

Call(c, via) ==
    /\ At(c, "idle") /\ calls < MaxCalls
    /\ calls' = calls + 1
    /\ fh' = [fh EXCEPT ![c] = [Idle EXCEPT !.pc = "loop", !.via = via]]
    /\ UNCHANGED serverSet

(***************************************************************************)
(* Entries: ReadFileFromFs calls NewFsHandlerWithServer with the server of *)
(* the api-server config; NewFsHandler first refuses an unset              *)
(* defaultFsServer (FsServerEmptyError).                                   *)
(***************************************************************************)
ReadFileFromFs(c) == Call(c, "read")

(***************************************************************************)
(* buildWorkflowSource (run.go), the caller of ReadFileFromFs in CreateRun: *)
(* the run yaml comes from the request (base64, which may not decode),     *)
(* from a pipeline row (which may be missing or another user's), or from   *)
(* the file system through ReadFileFromFs; runYamlAndReqToWfs then parses  *)
(* it, which may fail on malformed yaml, and yields the workflow source:   *)
(* any dependency function over StepNames, with any entry.  CreateRun then *)
(* validates it through newWorkflowByRun.                                  *)
(***************************************************************************)
BuildWorkflowSource(c) ==
    \/ \E src \in {"raw", "pipeline"}, ok \in Outcomes :
          /\ At(c, "idle") /\ calls < MaxCalls
          /\ calls' = calls + 1
          /\ fh' = [fh EXCEPT ![c] = IF ok THEN [Idle EXCEPT !.pc = "to_wfs", !.via = src]
                                           ELSE [Idle EXCEPT !.result = "error", !.via = src]]
          /\ UNCHANGED serverSet
    \/ ReadFileFromFs(c)

RunYamlAndReqToWfs(c) ==
    /\ At(c, "to_wfs")
    /\ \E ok \in Outcomes :
         IF ok THEN \E deps \in BW!Workflows, entry \in BW!Entries :
                      fh' = [fh EXCEPT ![c].pc = "validate", ![c].deps = deps,
                                       ![c].entry = entry]
               ELSE Finish(c, "error")
    /\ UNCHANGED <<calls, serverSet>>

\* CreateRun's newWorkflowByRun(run) with an empty run id: NewWorkflow
\* validates the source (getRunSteps, then topologicalSort and the checks
\* of each step in that order) and nothing is recorded in wfMap; an error
\* is MalformedYaml.  What validate computed is kept as history.
NewWorkflowByRun(c) ==
    /\ At(c, "validate")
    /\ LET r == BW!ValidateDag(fh[c].deps, fh[c].entry)
       IN  fh' = [fh EXCEPT ![c].pc = "idle",
                            ![c].result = IF r.ok THEN "validated" ELSE "invalid",
                            ![c].steps = BW!GetRunSteps(fh[c].deps, fh[c].entry),
                            ![c].order = r.order]
    /\ UNCHANGED <<calls, serverSet>>

NewFsHandler(c) ==
    \/ /\ ~serverSet
       /\ At(c, "idle") /\ calls < MaxCalls
       /\ calls' = calls + 1
       /\ fh' = [fh EXCEPT ![c] = [Idle EXCEPT !.result = "error"]]
       /\ UNCHANGED serverSet
    \/ /\ serverSet
       /\ Call(c, "new")

(***************************************************************************)
(* The retry loop of NewFsHandlerWithServer.                               *)
(***************************************************************************)
\* Seeded fault: the loop runs one attempt too many.
LoopHeadOffByOne(c) ==
    /\ At(c, "loop")
    /\ IF fh[c].i <= MaxRetryCount
         THEN fh' = [fh EXCEPT ![c].pc = "get_fs", ![c].err = FALSE]
         ELSE Goto(c, "returned")
    /\ UNCHANGED <<calls, serverSet>>

\* for i := 0; i < maxRetryCount; i++ { fsClientError = nil; ... }
LoopHead(c) ==
    /\ At(c, "loop")
    /\ IF fh[c].i < MaxRetryCount
         THEN fh' = [fh EXCEPT ![c].pc = "get_fs", ![c].err = FALSE]
         ELSE Goto(c, "returned")
    /\ UNCHANGED <<calls, serverSet>>

\* An attempt failed: fsClientError is set, the loop sleeps and continues.
Fail(c) == fh' = [fh EXCEPT ![c].err = TRUE, ![c].i = @ + 1, ![c].pc = "loop"]

\* getFSClient: the file system row, then its link rows.
GetFileSystem(c) ==
    /\ At(c, "get_fs")
    /\ \E ok \in Outcomes : IF ok THEN Goto(c, "get_link") ELSE Fail(c)
    /\ UNCHANGED <<calls, serverSet>>

GetLink(c) ==
    /\ At(c, "get_link")
    /\ \E ok \in Outcomes : IF ok THEN Goto(c, "new_client") ELSE Fail(c)
    /\ UNCHANGED <<calls, serverSet>>

\* fs.NewFSClient -> newFSClientWithFsMeta: NewPFSClient, then client.fsID
\* and client.server are set on what it returned before err is looked at,
\* so a nil client is a nil dereference and the goroutine panics.
NewFSClientWithFsMeta(o) ==
    CASE o = "ok"  -> "client"
      [] o = "err" -> "error"
      [] o = "nil" -> "panic"

\* Seeded fault: a client obtained does not end the loop (no break).
NewClientNoBreak(c) ==
    /\ At(c, "new_client")
    /\ \E o \in ClientOutcomes :
         CASE NewFSClientWithFsMeta(o) = "client" ->
                fh' = [fh EXCEPT ![c].oks = @ + 1, ![c].i = @ + 1, ![c].pc = "loop"]
           [] NewFSClientWithFsMeta(o) = "error" -> Fail(c)
           [] NewFSClientWithFsMeta(o) = "panic" -> Goto(c, "panicked")
    /\ UNCHANGED <<calls, serverSet>>

\* The rest of getFSClient builds the fs meta and links map and calls
\* fs.NewFSClient; a client ends the loop (break), an error is one more
\* failed attempt.
NewClient(c) ==
    /\ At(c, "new_client")
    /\ \E o \in ClientOutcomes :
         CASE NewFSClientWithFsMeta(o) = "client" ->
                fh' = [fh EXCEPT ![c].oks = @ + 1, ![c].pc = "returned"]
           [] NewFSClientWithFsMeta(o) = "error" -> Fail(c)
           [] NewFSClientWithFsMeta(o) = "panic" -> Goto(c, "panicked")
    /\ UNCHANGED <<calls, serverSet>>

\* After the loop: the error of the last attempt, or the handler;
\* ReadFileFromFs then reads the file through it (ReadFsFile: Open and
\* ReadAll, either of which may fail).
Return(c) ==
    /\ At(c, "returned")
    /\ \/ /\ fh[c].err
          /\ Finish(c, "error")
       \/ /\ ~fh[c].err /\ fh[c].via = "new"
          /\ Finish(c, "handler")
       \/ /\ ~fh[c].err /\ fh[c].via = "read"
          /\ Goto(c, "read_file")
    /\ UNCHANGED <<calls, serverSet>>

ReadFsFile(c) ==
    /\ At(c, "read_file")
    /\ \E ok \in Outcomes : IF ok THEN Goto(c, "to_wfs") ELSE Finish(c, "error")
    /\ UNCHANGED <<calls, serverSet>>

(***************************************************************************)
(* Specification                                                           *)
(***************************************************************************)
Init ==
    /\ fh = [c \in Callers |-> Idle]
    /\ calls = 0
    /\ serverSet \in ServerModes

Step(c) ==
    \/ LoopHead(c)
    \/ GetFileSystem(c)
    \/ GetLink(c)
    \/ NewClient(c)
    \/ Return(c)
    \/ ReadFsFile(c)
    \/ RunYamlAndReqToWfs(c)
    \/ NewWorkflowByRun(c)

Next ==
    \E c \in Callers : BuildWorkflowSource(c) \/ NewFsHandler(c) \/ Step(c)

Spec == Init /\ [][Next]_vars /\ \A c \in Callers : WF_vars(Step(c))

(***************************************************************************)
(* Properties                                                              *)
(***************************************************************************)

\* The retry contract of NewFsHandlerWithServer: when the loop is left,
\* either one attempt obtained a client and no attempt was made after it,
\* within maxRetryCount attempts, or every one of the maxRetryCount
\* attempts failed and the last error is returned.
RetryContract ==
    \A c \in Callers : At(c, "returned") =>
        IF fh[c].err THEN fh[c].i = MaxRetryCount /\ fh[c].oks = 0
                     ELSE fh[c].oks = 1 /\ fh[c].i < MaxRetryCount

=============================================================================
