-------------------------- MODULE MCChainDispatch ---------------------------
(* a and a2 share the provider A, whose bucket holds one token; C has no    *)
(* adapter.                                                                *)
EXTENDS DispatchMetrics, TLC
CONSTANTS r1, r2, a, b, a2, c, A, B, C

MCProviderOf == a :> A @@ a2 :> A @@ b :> B @@ c :> C
MCCapacity == A :> 1
MCWait == A :> 1
MCChains == {<<a, a2>>, <<c, a>>, <<a2, b>>, <<>>}
=============================================================================
