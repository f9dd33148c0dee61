-------------------------- MODULE HostConsumption --------------------------
(***************************************************************************)
(* The host side of an activation (src/src/openclaw/consumption.ts): three *)
(* pieces of state that the adapter changes one after the other, none of   *)
(* them in one transaction with another.                                   *)
(*                                                                         *)
(*   cfg    the retrieval paths in the host's configuration (extraPaths):  *)
(*          one path per Generation plus the paths the user added;         *)
(*   owned  the Generations whose path the adapter's ownership file claims;*)
(*   index  the paths whose documents the host's memory index serves.      *)
(*                                                                         *)
(* The operators below are the state functions of the adapter; the module  *)
(* that holds the state takes them one step at a time.                     *)
(***************************************************************************)
EXTENDS Naturals

CONSTANTS
    Gens,       \* Generations; a Generation also names its projection path
    UserPaths,  \* retrieval paths the adapter does not manage
    Domains,    \* revisions of the domain projection, in publication order
    DomainOf,   \* the domain revision a Generation was built from
    Destroys,   \* <<d, e>>: e removes or changes documents of d
    NoGen       \* no Generation: a missing active pointer

ASSUME HostAssumption ==
    /\ Domains \subseteq Nat
    /\ DomainOf \in [Gens -> Domains]
    /\ Destroys \subseteq Domains \X Domains
    /\ NoGen \notin Gens
    /\ UserPaths \intersect Gens = {}

Paths == Gens \union UserPaths

\* What capture() records before a transition.
Snapshot == [paths: SUBSET Paths, managed: SUBSET Gens]

Capture_AllManaged(cfg, owned) == [paths |-> cfg, managed |-> cfg]
Capture(cfg, owned) == [paths |-> cfg, managed |-> owned]

\* applyTarget: the paths owned when the call began are replaced by the target's.
TargetPaths_Overwrites(cfg, ownedBefore, g) == {g}
TargetPaths(cfg, ownedBefore, g) == (cfg \ ownedBefore) \union {g}

\* restore: the captured paths, and those of now that the adapter does not own.
RestoredPaths(cfg, owned, snap) == snap.paths \union (cfg \ owned)

\* What the memory index may hold when the index command is cut short.
InterruptedIndex(index, cfg) ==
    {index, index \intersect cfg, index \union cfg, cfg}

\* verifyTarget: the target is configured and found, and nothing of the
\* Generation it replaces is found when its domain revision differs. Further
\* paths are not looked at: the status counts are lower bounds.
HostVerified(cfg, index, g, previous) ==
    /\ g \in cfg \intersect index
    /\ previous \in Gens /\ DomainOf[previous] # DomainOf[g] =>
           previous \notin index

\* replacementForbidsPriorRestore: restoring previous would bring back what g
\* has removed.
ForbidsPriorRestore(g, previous) ==
    /\ previous \in Gens
    /\ <<DomainOf[previous], DomainOf[g]>> \in Destroys
=============================================================================
