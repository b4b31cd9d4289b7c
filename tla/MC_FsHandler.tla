---------------------------- MODULE MC_FsHandler ----------------------------
(***************************************************************************)
(* Model-checking instance of FsHandler: the code's maxRetryCount of 3,    *)
(* and run yamls holding any workflow over three step names.  Callers      *)
(* share nothing but the read-only defaultFsServer, so one caller making   *)
(* its calls one after another meets every case two would.                 *)
(***************************************************************************)
EXTENDS FsHandler

CONSTANTS cl1, cl2

MCCallers == {cl1, cl2}
OneCaller == {cl1}

\* Step names in lexicographic order.
MCStepNames == 1..2

=============================================================================
