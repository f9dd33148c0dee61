------------------------------ MODULE MCStateStore ------------------------------
(* Two corrections of different states, in one session, of different Runs;   *)
(* two baselines that share an event; b2 supersedes b1.                      *)
EXTENDS StateStore, TLC
CONSTANTS c1, c2, b1, b2, m1, m2, x, y, s1, r1, r2, r3

MCImportLog == m1 :> <<b1, b2>> @@ m2 :> <<b1>>
MCStateOf == c1 :> x @@ c2 :> y @@ b1 :> x @@ b2 :> x
MCSessionOf == c1 :> s1 @@ c2 :> s1
MCPriorRun == c1 :> r1 @@ c2 :> r3
=================================================================================
