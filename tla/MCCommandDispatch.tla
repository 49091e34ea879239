------------------------- MODULE MCCommandDispatch --------------------------
(* Instances of CommandDispatch: three requests, of which two or all        *)
(* share a key.                                                              *)
EXTENDS DispatchRefinement, TLC

CONSTANTS r1, r2, r3, k1, k2, p1, p2

\* r1 and r2 are a command and its retry; r3 reuses the key for another payload.
RetryKeys == r1 :> k1 @@ r2 :> k1 @@ r3 :> k1
RetryPayloads == r1 :> p1 @@ r2 :> p1 @@ r3 :> p2

\* A second key shares the file with the first.
TwoKeys == r1 :> k1 @@ r2 :> k1 @@ r3 :> k2

OnePayload == r1 :> p1 @@ r2 :> p1 @@ r3 :> p1
=============================================================================
