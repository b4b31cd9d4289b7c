-------------------------- MODULE MC_RunController --------------------------
(***************************************************************************)
(* Model-checking instances of RunController: one run id, a two-step       *)
(* workflow prep -> train, up to three runtimes and a bounded number of    *)
(* API requests from one or two clients.                                   *)
(***************************************************************************)
EXTENDS RunController, TLC

CONSTANTS r1, c1, c2, prep1, train1

MCSteps == {prep1, train1}
MCDeps == (prep1 :> {}) @@ (train1 :> {prep1})

OneClient == {c1}
TwoClients == {c1, c2}

\* The status column of the run row implements the abstract lifecycle; a
\* deleted row is an absent one.
DbStatusOf(r) == IF db[r].status = "deleted" THEN "absent" ELSE db[r].status

DbLifecycle == INSTANCE RunLifecycle WITH status <- DbStatusOf(r1)

DbRefinesLifecycle == DbLifecycle!Spec

\* A run the user asked to stop ends up in a final status (or deleted): the
\* row does not stay Terminating (spec 8: stop reaches a terminal status).
StopEventuallyFinal ==
    \A r \in Runs :
        db[r].status = "terminating" ~> db[r].status \in FinalStatus \cup {"deleted"}

=============================================================================
