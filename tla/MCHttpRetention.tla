--------------------------- MODULE MCHttpRetention ---------------------------
(* Model-checking instances of HttpRetention.  XBLMARKETPLACEDATA is the     *)
(* root; its answer may name a preview (XBLPREVIEWASX), whose answer may name *)
(* a video (XBLPREVIEWWMV).                                                   *)
EXTENDS HttpRetention, TLC

CONSTANTS info, asx, wmv

MCChild == info :> {asx} @@ asx :> {wmv} @@ wmv :> {}
MCSmallChild == info :> {asx} @@ asx :> {}

\* The workers are interchangeable.
MCSymmetry == Permutations(Worker)

=============================================================================
