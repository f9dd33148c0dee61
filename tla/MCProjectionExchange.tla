------------------------- MODULE MCProjectionExchange -------------------------
(* A small exchange: p0 published r0 before, or nobody did; p1 and p2       *)
(* publish one revision, p3 another projection of the same source.           *)
EXTENDS ProjectionExchange, TLC
CONSTANTS p0, p1, p2, p3, r0, r1, r2, s0, s1
MCRevisionOf == p0 :> r0 @@ p1 :> r1 @@ p2 :> r1 @@ p3 :> r2
MCSourceOf == r0 :> s0 @@ r1 :> s1 @@ r2 :> s1
=============================================================================
