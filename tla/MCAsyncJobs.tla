---------------------------- MODULE MCAsyncJobs ----------------------------
(* Instances of AsyncJobs for TLC. *)
EXTENDS AsyncJobs, TLC

\* Runs are interchangeable: nothing orders them but their registration.
RunSymmetry == Permutations(Runs)

\* A wait whose jobs have all settled resumes before the next registration, so
\* that a counterexample does not rest on the order of microtasks.
PromptResume == WaitResuming => UNCHANGED <<status, table>>
=============================================================================
