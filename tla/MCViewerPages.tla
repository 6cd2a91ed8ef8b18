--------------------------- MODULE MCViewerPages ---------------------------
(* Two tabs with the links of two shares; the first share has a subagent.   *)
EXTENDS ViewerPages, TLC
CONSTANTS a, b, c, t1, t2
MCLinkOf   == t1 :> a @@ t2 :> b
MCParentOf == [x \in Children |-> a]
=============================================================================
