----------------------------- MODULE MCTaskRuns ------------------------------
(***************************************************************************)
(* Two tasks, t2 after t1, and two runs, one of them behind the gate of a  *)
(* monitor; one command is killed, or one task taken by hand.              *)
(***************************************************************************)
EXTENDS TaskRuns

CONSTANTS t1, t2, r1, r2

TwoTasks == {t1, t2}
Chain    == [t \in TwoTasks |-> IF t = t2 THEN {t1} ELSE {}]

\* What the owners ask of a finish: that of the gated run, whose commands may be
\* interrupted, verifies or does not, fails or blocks the run, or classes a failure.
Asking(verify, status, classed) == [verify |-> verify, status |-> status, classed |-> classed]
Plainly  == Asking(FALSE, None, FALSE)
Verified == Asking(TRUE, None, FALSE)

Asked  == (r1 :> {Plainly, Verified, Asking(FALSE, None, TRUE), Asking(FALSE, "failed", FALSE),
                  Asking(FALSE, "blocked", TRUE)})
              @@ (r2 :> {Plainly})
Insist == [r \in RunIds |-> {Verified, Asking(TRUE, "finished", FALSE)}]

OneGate == (r1 :> {"gated"}) @@ (r2 :> {None})

FairSpec == Spec /\ Fairness
=============================================================================
