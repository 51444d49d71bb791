------------------------- MODULE MCFusionDispatch ---------------------------
(* Two panels, one of them with a repeated model, and limited providers.   *)
EXTENDS FusionDispatch, TLC
CONSTANTS r1, r2, a, b, j, u, A, B, C

(* u's provider is not configured; the judge j shares a provider with b.   *)
MCProviderOf == a :> A @@ b :> B @@ j :> B @@ u :> C
MCCapacity == A :> 3 @@ B :> 1
MCPanels == {<<a, a>>, <<b, u>>}
=============================================================================
