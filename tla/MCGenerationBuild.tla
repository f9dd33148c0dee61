---------------------------- MODULE MCGenerationBuild ----------------------------
(* Commits: v1 and v2 differ in a body only; v4's module is governed by a    *)
(* system that is not there. Domain projections: none, one that agrees with  *)
(* its manifest, one that does not.                                          *)
EXTENDS GenerationBuild, TLC
CONSTANTS b1, b2, v1, v2, v4, e, s, m, t1, t2, p1, p2, fitness

Rec(id, layer, type, sources, peers, governed, body) ==
    [id |-> id, layer |-> layer, type |-> type, sources |-> sources, peers |-> peers,
     governed |-> governed, version |-> 1, body |-> body]
Evidence(body) == Rec(e, "evidence", "source", {}, {}, None, body)
System == Rec(s, "cognitive", "governing_system", {e}, {}, None, t1)
Module == Rec(m, "cognitive", "governing_module", {e}, {s}, s, t2)
MCContentOf ==
    v1 :> [records |-> {Evidence(t1), System, Module}, active |-> s]
    @@ v2 :> [records |-> {Evidence(t2), System, Module}, active |-> s]
    @@ v4 :> [records |-> {Evidence(t1), Module}, active |-> None]

Manifests == [payloads |-> "d1" :> t1, current_state |-> FALSE]
Agreeing == [input |-> [domain |-> fitness, manifest |-> Manifests],
             manifest |-> Manifests, payloads |-> "d1" :> t1]
Disagreeing == [Agreeing EXCEPT !.payloads = "d1" :> t2]
MCInputs == {{}, {Agreeing}, {Disagreeing}}
MCPackageOf == b1 :> p1 @@ b2 :> p2
=============================================================================
