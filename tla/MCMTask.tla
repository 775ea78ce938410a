------------------------------ MODULE MCMTask ------------------------------
(***************************************************************************)
(* Instances of MTask, and of the count of tokens of MTaskTokens, for TLC. *)
(***************************************************************************)
EXTENDS MTaskTokens, TLC

\* Threads are interchangeable in Init and Next.
Symmetry == Permutations(Threads)

\* The operation sets of the runs.
SemOps    == {"create", "post", "get", "destroy", "kill"}
WaitOps   == {"create", "yield", "exit", "wait", "lock", "kill", "post", "get",
              "multi", "sleep"}
MultiOps  == {"create", "post", "get", "multi", "sleep", "lock"}
=============================================================================
