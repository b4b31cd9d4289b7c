----------------------------- MODULE BaseWorkflow -----------------------------
(***************************************************************************)
(* The DAG part of BaseWorkflow (package pipeline): which steps a run      *)
(* executes (getRunSteps) and the order validate visits them in            *)
(* (topologicalSort), as pure operators.  The package's implementation is  *)
(* not under src/: the operators follow spec.md 4.C and the assertions of   *)
(* workflow_test.go.                                                        *)
(*                                                                         *)
(* A workflow is its dependency function deps: step -> set of steps it     *)
(* depends on.  Step names are compared in lexicographic order; here they  *)
(* are numbers, compared by <.  Parameters, artifacts and their references *)
(* are left out.                                                           *)
(***************************************************************************)
EXTENDS Naturals, Sequences, FiniteSets

CONSTANTS
    StepNames,      \* the step names of the workflows enumerated (numbers)
    NoEntry         \* the empty entry: every step runs

(***************************************************************************)
(* getRunSteps: with no entry every step of the source runs; with an       *)
(* entry, the entry and every step it depends on, directly or not.         *)
(***************************************************************************)
RECURSIVE DepClosure(_, _)
DepClosure(deps, S) ==
    LET next == S \cup UNION {deps[s] : s \in S}
    IN  IF next = S THEN S ELSE DepClosure(deps, next)

GetRunSteps(deps, entry) ==
    IF entry = NoEntry THEN DOMAIN deps ELSE DepClosure(deps, {entry})

(***************************************************************************)
(* topologicalSort (Kahn's algorithm): a step is ready once every step it  *)
(* depends on has been emitted; the smallest ready name is emitted next.   *)
(* When steps remain and none is ready, they lie on or behind a cycle:     *)
(* CycleDetected.                                                          *)
(***************************************************************************)
LeastStep(S) == CHOOSE s \in S : \A t \in S : s <= t

SortResult(ok, order) == [ok |-> ok, order |-> order]

RECURSIVE Kahn(_, _, _)
Kahn(deps, rest, out) ==
    LET ready == {s \in rest : deps[s] \cap rest = {}}
    IN  CASE rest = {}   -> SortResult(TRUE, out)
          [] ready = {}  -> SortResult(FALSE, <<>>)
          [] OTHER       -> Kahn(deps, rest \ {LeastStep(ready)},
                                 Append(out, LeastStep(ready)))

TopologicalSort(deps, steps) == Kahn(deps, steps, <<>>)

\* validate's DAG part: the run steps are computed, then sorted.
ValidateDag(deps, entry) == TopologicalSort(deps, GetRunSteps(deps, entry))

\* Every workflow over StepNames, and every entry of it.
Workflows == [StepNames -> SUBSET StepNames]
Entries == StepNames \cup {NoEntry}

=============================================================================
