----------------------------- MODULE GenerationBuild -----------------------------
(***************************************************************************)
(* Building Generations from a live checkout, and the two files beside     *)
(* them (src/src/generation/index.ts): buildGeneration, called by a sync   *)
(* and by the build command, neither of which excludes the other;          *)
(* activateGeneration, which replaces the pointer; the bootstrap           *)
(* projections, written in place.                                          *)
(*                                                                         *)
(* The authority's owner edits, commits and checks out meanwhile: a build  *)
(* asks git three questions (what HEAD is, what the revision's tree is,    *)
(* whether the worktree is clean) and then lists the worktree, one step    *)
(* each. A directory's files are those of GenerationArtifacts; a damaged   *)
(* one is any that verifyGeneration refuses (VerifiesOnlyBuilt).           *)
(***************************************************************************)
EXTENDS GenerationArtifacts, Integers

CONSTANTS
    Builders, PackageOf,  \* one build at a time each, of one package version
    MaxMoves,             \* bounds what the authority's owner does
    MaxFaults             \* bounds the directories damaged and the builds cut short

ASSUME BuildAssumption ==
    MaxMoves \in Nat /\ MaxFaults \in Nat /\ PackageOf \in [Builders -> Packages]

VARIABLES
    head, work,   \* the commit checked out, and what the worktree holds
    pc, asked,    \* of each build: where it is, the revision it was asked for
    seed,         \* the Generation it has worked out
    dirs,         \* the directories under generations/, by name
    boot,         \* the bootstrap file, if any, of a name (one stands for all)
    active,       \* active.json
    moves, faults, stops

authority == <<head, work, moves>>
builds == <<pc, asked, seed>>
storage == <<dirs, boot, active>>
vars == <<authority, builds, storage, faults, stops>>

Paths(rev) == {r.id : r \in ContentOf[rev].records}
Names == {GenerationId(v, ContentOf[u], {}) : v \in Revisions, u \in Revisions}
Directory == [pkg : Packages, damaged : BOOLEAN]

TypeOK ==
    /\ head \in Revisions /\ work \in Revisions
    /\ pc \in [Builders -> {"idle", "clean", "list", "look", "rename",
                            "reuse", "boot", "finish"}]
    /\ asked \in [Builders -> Revisions \union {None}]
    /\ seed \in [Builders -> Names \union {None}]
    /\ DOMAIN dirs \subseteq Names /\ Range(dirs) \subseteq Directory
    /\ DOMAIN boot \subseteq DOMAIN dirs /\ Range(boot) \subseteq {"torn", "written"}
    /\ active \in Names \union {None}
    /\ moves \in 0 .. MaxMoves /\ faults + stops \in 0 .. MaxFaults

Init ==
    /\ head \in Revisions /\ work = head
    /\ pc = [b \in Builders |-> "idle"]
    /\ asked = [b \in Builders |-> None] /\ seed = [b \in Builders |-> None]
    /\ dirs = <<>> /\ boot = <<>> /\ active = None
    /\ moves = 0 /\ faults = 0 /\ stops = 0

Present(g) == g \in DOMAIN dirs
Sound(g) == Present(g) /\ ~dirs[g].damaged

-----------------------------------------------------------------------------
(* The authority's owner                                                    *)

Move(h, w) ==
    /\ moves < MaxMoves /\ moves' = moves + 1 /\ head' = h /\ work' = w
    /\ <<h, w>> # <<head, work>>
    /\ UNCHANGED <<builds, storage, faults, stops>>

Edit == \E v \in Revisions : Move(head, v)
Commit == Move(work, work)
Checkout == work = head /\ \E v \in Revisions : Move(v, v)

-----------------------------------------------------------------------------
(* buildGeneration                                                          *)

Goto(b, where) == pc' = [pc EXCEPT ![b] = where]
End(b) ==
    /\ Goto(b, "idle")
    /\ asked' = [asked EXCEPT ![b] = None] /\ seed' = [seed EXCEPT ![b] = None]
Return(b) == End(b) /\ UNCHANGED <<authority, storage, faults, stops>>
Refuse(b) == Return(b)
Step(b, from, to) ==
    /\ pc[b] = from /\ Goto(b, to)
    /\ UNCHANGED <<authority, asked, seed, storage, faults, stops>>

\* verifyAuthorityCheckout: HEAD is the revision asked for (the tree of that
\* revision is then read: it does not change) ...
Start(b) ==
    /\ pc[b] = "idle" /\ Goto(b, "clean")
    /\ asked' = [asked EXCEPT ![b] = head]
    /\ UNCHANGED <<authority, seed, storage, faults, stops>>

\* ... and the worktree is clean, of whatever commit is checked out by then.
Clean == work = head
CheckClean(b) == Clean /\ Step(b, "clean", "list")
RefuseDirty(b) == pc[b] = "clean" /\ ~Clean /\ Refuse(b)

\* Mutant: the files are read where they are found.
Read_Worktree(b) == ContentOf[work]

\* readAuthority: the entry points found are those committed; their blobs are
\* read by object id.
Read(b) == ContentOf[asked[b]]
Listed(b) == Paths(work) = Paths(asked[b]) /\ Admissible(Read(b))

ReadAuthority(b) ==
    /\ pc[b] = "list" /\ Listed(b) /\ Goto(b, "look")
    /\ seed' = [seed EXCEPT ![b] = GenerationId(asked[b], Read(b), {})]
    /\ UNCHANGED <<authority, asked, storage, faults, stops>>
RefuseAuthority(b) == pc[b] = "list" /\ ~Listed(b) /\ Refuse(b)

FindExisting(b) == Step(b, "look", "reuse") /\ Present(seed[b])

\* The artifacts and the manifest are then written to a staging directory that
\* nobody else uses, and verified there.
WriteStaging(b) == Step(b, "look", "rename") /\ ~Present(seed[b])

\* Mutant: what is there is removed first.
RenameStaging_Replaces(b) ==
    /\ pc[b] = "rename" /\ Goto(b, "boot")
    /\ dirs' = File(seed[b], [pkg |-> PackageOf[b], damaged |-> FALSE]) ++ dirs
    /\ UNCHANGED <<authority, asked, seed, boot, active, faults, stops>>

\* rename onto a directory with files in it fails: the target is verified.
RenameStaging(b) ==
    /\ pc[b] = "rename" /\ ~Present(seed[b]) /\ Goto(b, "boot")
    /\ dirs' = File(seed[b], [pkg |-> PackageOf[b], damaged |-> FALSE]) ++ dirs
    /\ UNCHANGED <<authority, asked, seed, boot, active, faults, stops>>
RenameFails(b) == Step(b, "rename", "reuse") /\ Present(seed[b])

\* Mutant: there is nothing left to do for a Generation that is there.
Reuse_ReturnsEarly(b) == pc[b] = "reuse" /\ Sound(seed[b]) /\ Return(b)

Reuse(b) == Step(b, "reuse", "boot") /\ Sound(seed[b])
RefuseTarget(b) == pc[b] = "reuse" /\ ~Sound(seed[b]) /\ Refuse(b)

\* writeBootstrapProjections: a file is created and then written, in place; one
\* that is there must hold the content a build of this Generation gives it.
Bootstrap(g) == IF g \in DOMAIN boot THEN boot[g] ELSE "absent"

CreateBootstrap(b) ==
    /\ pc[b] = "boot" /\ Bootstrap(seed[b]) = "absent"
    /\ Goto(b, "finish") /\ boot' = File(seed[b], "torn") ++ boot
    /\ UNCHANGED <<authority, asked, seed, dirs, active, faults, stops>>
WriteBootstrap(b) ==
    /\ pc[b] = "finish" /\ End(b) /\ boot' = [boot EXCEPT ![seed[b]] = "written"]
    /\ UNCHANGED <<authority, dirs, active, faults, stops>>
ReuseBootstrap(b) == pc[b] = "boot" /\ Bootstrap(seed[b]) = "written" /\ Return(b)
RefuseBootstrap(b) == pc[b] = "boot" /\ Bootstrap(seed[b]) = "torn" /\ Refuse(b)

\* The process stops; what it staged stays, and is not looked at again.
Stop(b) ==
    /\ pc[b] # "idle" /\ End(b)
    /\ faults + stops < MaxFaults /\ stops' = stops + 1
    /\ UNCHANGED <<authority, storage, faults>>

Build(b) ==
    \/ Start(b) \/ CheckClean(b) \/ RefuseDirty(b) \/ ReadAuthority(b) \/ RefuseAuthority(b)
    \/ FindExisting(b) \/ WriteStaging(b) \/ RenameStaging(b)
    \/ RenameFails(b) \/ Reuse(b) \/ RefuseTarget(b) \/ CreateBootstrap(b)
    \/ WriteBootstrap(b) \/ ReuseBootstrap(b) \/ RefuseBootstrap(b)

-----------------------------------------------------------------------------
(* activateGeneration of a built Generation verifies it and replaces the     *)
(* pointer; what is built is never removed in between. A reader verifies     *)
(* what the pointer names again.                                             *)

Activate(g) ==
    /\ Sound(g) /\ active # g /\ active' = g
    /\ UNCHANGED <<authority, builds, dirs, boot, faults, stops>>

Damage(g) ==
    /\ Sound(g) /\ faults + stops < MaxFaults /\ faults' = faults + 1
    /\ dirs' = [dirs EXCEPT ![g].damaged = TRUE]
    /\ UNCHANGED <<authority, builds, boot, active, stops>>

-----------------------------------------------------------------------------

Next ==
    \/ Edit \/ Commit \/ Checkout
    \/ \E b \in Builders : Build(b) \/ Stop(b)
    \/ \E g \in Names : Activate(g) \/ Damage(g)

Spec == Init /\ [][Next]_vars

\* A build that is asked for again runs to its end.
FairSpec == Spec /\ \A b \in Builders : WF_vars(Build(b))

-----------------------------------------------------------------------------
(* Properties                                                               *)

\* A directory under generations/ is named for, and holds, exactly what the
\* commit it names holds, and that commit is admissible: whatever was edited,
\* committed or checked out while it was built. active.json names one of them.
BuiltIsItsRevision ==
    /\ \A g \in Names : Present(g) =>
          /\ g = GenerationId(g.rev, ContentOf[g.rev], {})
          /\ Admissible(ContentOf[g.rev])
    /\ active # None => Present(active)

\* What verifyGeneration accepts under a Generation's name is, file by file,
\* what a build of that Generation writes, by one package version: no loss, no
\* mixture of two Generations, no rewriting of artifacts and documents goes
\* unnoticed, with the manifest's checksums brought to agree or not. (It has
\* no variables: it is evaluated in the initial states only.)
VerifiesOnlyBuilt == Init => TamperingShows

\* A visible Generation is immutable: no build, of whatever package version,
\* removes it, writes over it or repairs it in place.
VisibleKept ==
    [][\A g \in Names : Present(g) =>
         /\ g \in DOMAIN dirs' /\ dirs'[g].pkg = dirs[g].pkg
         /\ dirs[g].damaged => dirs'[g].damaged]_vars

\* Rebuilding converges: however builds were cut short or raced, the Generation
\* of a commit that stays checked out, clean and admissible comes to be there
\* with its bootstrap file, unless a stop tore that file (then every build of
\* it is BOOTSTRAP_TARGET_TAMPERED) or the directory was damaged.
HeadBuilt ==
    LET g == GenerationId(head, ContentOf[head], {})
    IN  Clean /\ Admissible(ContentOf[head]) =>
          /\ Present(g)
          /\ \/ dirs[g].damaged
             \/ Bootstrap(g) = "written"
             \/ Bootstrap(g) = "torn" /\ stops > 0
RebuildConverges == <>[]HeadBuilt

=============================================================================
