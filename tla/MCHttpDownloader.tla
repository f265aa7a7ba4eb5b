-------------------------- MODULE MCHttpDownloader --------------------------
(* Model-checking instances of HttpDownloader. *)
EXTENDS HttpDownloader, TLC

CONSTANTS h1, h2, l1, l2   \* two items of high priority and two of low

MCPriorityOf == h1 :> 0 @@ h2 :> 0 @@ l1 :> 1 @@ l2 :> 1
MCSmallPriorityOf == h1 :> 0 @@ h2 :> 0 @@ l1 :> 1

\* Items of the same priority are interchangeable: no property names one.
MCSymmetry == Permutations({h1, h2}) \cup Permutations({l1, l2})

=============================================================================
