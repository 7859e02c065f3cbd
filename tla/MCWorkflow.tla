----------------------------- MODULE MCWorkflow -----------------------------
(***************************************************************************)
(* The trees TLC walks.  main is the workflow; onSuccess and onFailure are *)
(* callbacks of it with one task each.                                     *)
(***************************************************************************)
EXTENDS WorkflowRefinement, TLC

CONSTANTS main, onSuccess, onFailure, a, b, c, s, f, e1, e2

\* c joins a and b; one callback for each verdict.
JoinRootOf == (a :> main) @@ (b :> main) @@ (c :> main)
              @@ (s :> onSuccess) @@ (f :> onFailure)
JoinPrevious == (a :> {}) @@ (b :> {}) @@ (c :> {a, b}) @@ (s :> {}) @@ (f :> {})
JoinParent == (main :> None) @@ (onSuccess :> main) @@ (onFailure :> main)
JoinType == (main :> "NORMAL") @@ (onSuccess :> "ON_SUCCESS")
            @@ (onFailure :> "ON_FAILURE")

\* b after a; one callback, for a failure or for any verdict.
ChainRootOf == (a :> main) @@ (b :> main) @@ (f :> onFailure)
ChainPrevious == (a :> {}) @@ (b :> {a}) @@ (f :> {})
ChainParent == (main :> None) @@ (onFailure :> main)
ChainType == (main :> "NORMAL") @@ (onFailure :> "ON_FAILURE")
ChainTypeAny == (main :> "NORMAL") @@ (onFailure :> "ON_COMPLETE")

\* A single task.
SoloRootOf == a :> main
SoloPrevious == a :> {}
SoloParent == main :> None
SoloType == main :> "NORMAL"

\* Executors differ in their names only, and so do the tasks c joins.
ExecutorSymmetry == Permutations({e1, e2})
CoreSymmetry == ExecutorSymmetry \cup Permutations({a, b})
=============================================================================
