---------------------------- MODULE RunLifecycle ----------------------------
(***************************************************************************)
(* Abstract specification of the life of one run, as the specification of *)
(* PaddleFlow promises it (spec.md sections 3, 4.E and 4.F): a run is      *)
(* created Initiating, is started (Pending, then Running), may be asked to *)
(* stop (Terminating), ends in one of the final statuses, may be retried   *)
(* from Failed or Terminated, and may be deleted once final.  "absent"     *)
(* stands for "no such run row".                                           *)
(*                                                                         *)
(* Both the in-memory status of a workflow runtime and the status column   *)
(* of the persisted run are shown (or shown not) to implement it.          *)
(***************************************************************************)

VARIABLE status

RunStatus == {"initiating", "pending", "running", "terminating",
              "succeeded", "failed", "terminated"}

FinalStatus == {"succeeded", "failed", "terminated"}

\* The transitions the specification allows.  A run that is Pending and has
\* nothing left to execute (every step restored as done on restart) may end
\* Succeeded without passing through Running.
Step(from, to) ==
    \/ from = "absent"      /\ to = "initiating"
    \/ from = "initiating"  /\ to \in {"pending", "running", "terminating", "failed"}
    \/ from = "pending"     /\ to \in {"running", "terminating", "succeeded", "failed"}
    \/ from = "running"     /\ to \in {"terminating", "succeeded", "failed"}
    \/ from = "terminating" /\ to \in {"terminated", "failed"}
    \/ from \in {"failed", "terminated"} /\ to = "pending"
    \/ from \in FinalStatus  /\ to = "absent"

Init == status \in {"absent"} \cup RunStatus

Next == \E to \in RunStatus \cup {"absent"} : Step(status, to) /\ status' = to

Spec == Init /\ [][Next]_status

=============================================================================
