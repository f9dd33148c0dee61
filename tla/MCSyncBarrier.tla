--------------------------- MODULE MCSyncBarrier ---------------------------
(***************************************************************************)
(* Instances of SyncBarrier for TLC.                                       *)
(***************************************************************************)
EXTENDS SyncBarrier, TLC

CONSTANTS g0, g1, g2, u1

MCGens == {g0, g1, g2}
MCUserPaths == {u1}

\* Two revisions of the projection: g0 and g1 were built from the first.
MCDomains == {1, 2}
MCDomainOf == g0 :> 1 @@ g1 :> 1 @@ g2 :> 2

\* Every document of the first revision is still there in the second ...
MCAdditive == {}
\* ... or the second revision removes or changes some.
MCDestructive == {<<1, 2>>}
=============================================================================
