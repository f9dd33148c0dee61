------------------------ MODULE GenerationBuildProofs ------------------------
(***************************************************************************)
(* Safety of Generation builds for every history of the authority, any     *)
(* number of builders and every bound; and what verifyGeneration accepts,  *)
(* for every directory whatsoever.                                         *)
(***************************************************************************)
EXTENDS GenerationBuild, TLAPS

\* The name of what a build of a commit makes.
NameOf(rev) == GenerationId(rev, ContentOf[rev], {})
Buildable(g) ==
    /\ g.rev \in Revisions /\ g = NameOf(g.rev)
    /\ Admissible(ContentOf[g.rev])

\* Where a build has worked its Generation out.
Seeded == {"look", "rename", "reuse", "boot", "finish"}

\* What a build has established of the revision it was asked for: nothing it
\* reads later may contradict it.
BuildsAt ==
    \A b \in Builders :
        /\ pc[b] # "idle" => asked[b] \in Revisions
        /\ pc[b] \in Seeded =>
              seed[b] = NameOf(asked[b]) /\ Admissible(ContentOf[asked[b]])
        /\ pc[b] \in {"boot", "finish"} => Present(seed[b])
        /\ pc[b] = "finish" => seed[b] \in DOMAIN boot

\* Every directory is named for the commit it was built from.
StorageAt ==
    /\ \A g \in DOMAIN dirs : Buildable(g)
    /\ active # None => Present(active)

Counters == moves \in Nat /\ faults \in Nat /\ stops \in Nat

(* The inductive invariant of the builds.                                   *)
IInv == TypeOK /\ Counters /\ BuildsAt /\ StorageAt

(* The name of a Generation says which commit it was built from.            *)
LEMMA NameFields ==
    ASSUME NEW v \in Revisions PROVE NameOf(v) \in Names /\ NameOf(v).rev = v
<1>1. NameOf(v) \in Names
    BY DEF NameOf, Names
<1>2. NameOf(v).rev = v
    BY DEF NameOf, GenerationId
<1> QED BY <1>1, <1>2

(* A file that is replaced: the others stay.                                *)
LEMMA Changed ==
    ASSUME NEW f, NEW k \in DOMAIN f, NEW v
    PROVE  LET h == [f EXCEPT ![k] = v]
           IN  /\ DOMAIN h = DOMAIN f
               /\ h[k] = v
               /\ \A x \in DOMAIN f : x # k => h[x] = f[x]
               /\ Range(h) \subseteq Range(f) \union {v}
    BY DEF Range

(* The initial states satisfy the invariant.                                *)
LEMMA InitInv == Init => IInv
<1> SUFFICES ASSUME Init PROVE IInv
    OBVIOUS
<1>1. TypeOK
    BY BuildAssumption DEF Init, TypeOK, Range
<1> QED BY <1>1 DEF Init, IInv, Counters, BuildsAt, StorageAt, Present, Seeded

(* Every step keeps it, whatever the authority's owner does meanwhile.      *)
LEMMA StepInv == IInv /\ [Next]_vars => IInv'
<1> SUFFICES ASSUME IInv, [Next]_vars PROVE IInv'
    OBVIOUS
<1> USE BuildAssumption DEF IInv, TypeOK, Counters, BuildsAt, StorageAt, Seeded,
       Present, Sound, authority, builds, storage, Goto, End, Return, Refuse,
       Step
<1>1. CASE Edit \/ Commit \/ Checkout
    BY <1>1 DEF Edit, Commit, Checkout, Move
<1>2. ASSUME NEW b \in Builders, Start(b) PROVE IInv'
    BY <1>2 DEF Start
<1>3. ASSUME NEW b \in Builders, CheckClean(b) PROVE IInv'
    BY <1>3 DEF CheckClean
<1>4. ASSUME NEW b \in Builders,
             \/ RefuseDirty(b) \/ RefuseAuthority(b) \/ RefuseTarget(b)
             \/ ReuseBootstrap(b) \/ RefuseBootstrap(b)
      PROVE  IInv'
    BY <1>4 DEF RefuseDirty, RefuseAuthority, RefuseTarget, ReuseBootstrap,
       RefuseBootstrap
<1>5. ASSUME NEW b \in Builders, ReadAuthority(b) PROVE IInv'
    BY <1>5, NameFields DEF ReadAuthority, Listed, Read, NameOf
<1>6. ASSUME NEW b \in Builders,
             FindExisting(b) \/ WriteStaging(b) \/ RenameFails(b) \/ Reuse(b)
      PROVE  IInv'
    BY <1>6 DEF FindExisting, WriteStaging, RenameFails, Reuse
<1>7. ASSUME NEW b \in Builders, RenameStaging(b) PROVE IInv'
  <2> DEFINE d == [pkg |-> PackageOf[b], damaged |-> FALSE]
  <2>1. /\ DOMAIN dirs' = DOMAIN dirs \union {seed[b]}
        /\ Range(dirs') \subseteq Range(dirs) \union {d}
    BY <1>7 DEF RenameStaging, File, ++, Range
  <2>2. d \in Directory
    BY DEF Directory
  <2>3. Buildable(seed[b]) /\ seed[b] \in Names
    BY <1>7, NameFields DEF RenameStaging, Buildable
  <2>4. TypeOK'
    BY <1>7, <2>1, <2>2, <2>3 DEF RenameStaging
  <2>5. BuildsAt'
    BY <1>7, <2>1 DEF RenameStaging
  <2>6. StorageAt' /\ Counters'
    BY <1>7, <2>1, <2>3 DEF RenameStaging, Buildable
  <2> QED BY <2>4, <2>5, <2>6
<1>8. ASSUME NEW b \in Builders, CreateBootstrap(b) PROVE IInv'
  <2>1. /\ DOMAIN boot' = DOMAIN boot \union {seed[b]}
        /\ Range(boot') \subseteq Range(boot) \union {"torn"}
    BY <1>8 DEF CreateBootstrap, File, ++, Range
  <2>2. TypeOK' /\ BuildsAt'
    BY <1>8, <2>1 DEF CreateBootstrap
  <2> QED BY <1>8, <2>2 DEF CreateBootstrap
<1>9. ASSUME NEW b \in Builders, WriteBootstrap(b) PROVE IInv'
  <2>1. /\ DOMAIN boot' = DOMAIN boot
        /\ Range(boot') \subseteq Range(boot) \union {"written"}
    BY <1>9, Changed DEF WriteBootstrap
  <2>2. TypeOK' /\ BuildsAt'
    BY <1>9, <2>1 DEF WriteBootstrap
  <2> QED BY <1>9, <2>2 DEF WriteBootstrap
<1>10. ASSUME NEW b \in Builders, Stop(b) PROVE IInv'
    BY <1>10 DEF Stop
<1>11. ASSUME NEW g \in Names, Activate(g) PROVE IInv'
    BY <1>11 DEF Activate
<1>12. ASSUME NEW g \in Names, Damage(g) PROVE IInv'
  <2> DEFINE d == [dirs[g] EXCEPT !.damaged = TRUE]
  <2>1. dirs[g] \in Directory
    BY <1>12 DEF Damage, Range
  <2>2. d \in Directory
    BY <2>1 DEF Directory
  <2>3. dirs' = [dirs EXCEPT ![g] = d]
    BY <1>12 DEF Damage
  <2>4. /\ DOMAIN dirs' = DOMAIN dirs
        /\ Range(dirs') \subseteq Range(dirs) \union {d}
    BY <1>12, <2>3 DEF Damage, Range
  <2>5. /\ UNCHANGED <<head, work, moves, pc, asked, seed, boot, active, stops>>
        /\ faults' \in Nat /\ faults' + stops' \in 0 .. MaxFaults
    BY <1>12 DEF Damage
  <2>6. TypeOK'
    BY <2>2, <2>4, <2>5
  <2>7. BuildsAt' /\ Counters'
    BY <2>4, <2>5
  <2>8. StorageAt'
    BY <2>4, <2>5 DEF Buildable
  <2> QED BY <2>6, <2>7, <2>8
<1>13. CASE UNCHANGED vars
    BY <1>13 DEF vars
<1> QED BY <1>1, <1>2, <1>3, <1>4, <1>5, <1>6, <1>7, <1>8, <1>9, <1>10, <1>11,
       <1>12, <1>13 DEF Next, Build

-----------------------------------------------------------------------------
(* Every reachable state satisfies the inductive invariant.                 *)
THEOREM Invariant == Spec => []IInv
<1> QED BY InitInv, StepInv, PTL DEF Spec

(* The type invariant, for every value of the constants.                    *)
THEOREM TypeCorrect == Spec => []TypeOK
<1>1. IInv => TypeOK
    BY DEF IInv
<1> QED BY <1>1, Invariant, PTL

(* However many builds race each other and edits, commits and checkouts, a  *)
(* directory under generations/ is named for the content of an admissible   *)
(* commit, and active.json names such a directory (readAuthority reads by   *)
(* object id, rename never replaces).                                       *)
THEOREM BuiltFromItsCommit == Spec => []BuiltIsItsRevision
<1>1. IInv => BuiltIsItsRevision
    BY DEF IInv, StorageAt, Present, Buildable, NameOf, BuiltIsItsRevision
<1> QED BY <1>1, Invariant, PTL

(* No build removes, replaces or repairs a Generation that is visible: the  *)
(* rename onto a directory with files in it fails.                          *)
THEOREM VisibleImmutable == Spec => VisibleKept
<1> DEFINE Kept == \A g \in Names : Present(g) =>
                     /\ g \in DOMAIN dirs' /\ dirs'[g].pkg = dirs[g].pkg
                     /\ dirs[g].damaged => dirs'[g].damaged
<1>1. IInv /\ [Next]_vars => [Kept]_vars
  <2> SUFFICES ASSUME IInv, Next PROVE Kept
    OBVIOUS
  <2>1. \/ dirs' = dirs
        \/ \E b \in Builders : RenameStaging(b)
        \/ \E g \in Names : Damage(g)
    BY DEF Next, Build, storage, Edit, Commit, Checkout, Move, Start,
       CheckClean, RefuseDirty, ReadAuthority, RefuseAuthority, FindExisting,
       WriteStaging, RenameFails, Reuse, RefuseTarget, CreateBootstrap,
       WriteBootstrap, ReuseBootstrap, RefuseBootstrap, Stop, Activate, Step,
       Refuse, Return
  <2>2. ASSUME NEW b \in Builders, RenameStaging(b) PROVE Kept
    BY <2>2 DEF RenameStaging, Present, File, ++
  <2>3. ASSUME NEW g \in Names, Damage(g) PROVE Kept
    <3>1. dirs' = [dirs EXCEPT ![g] = [dirs[g] EXCEPT !.damaged = TRUE]] /\ g \in DOMAIN dirs
      BY <2>3 DEF Damage, Sound, Present
    <3>2. dirs[g] \in Directory
      BY <3>1 DEF IInv, TypeOK, Range
    <3>3. dirs'[g].pkg = dirs[g].pkg /\ dirs'[g].damaged
      BY <3>1, <3>2 DEF Directory
    <3>4. DOMAIN dirs' = DOMAIN dirs /\ \A x \in DOMAIN dirs : x # g => dirs'[x] = dirs[x]
      BY <3>1
    <3>5. ASSUME NEW h \in Names, Present(h)
          PROVE  /\ h \in DOMAIN dirs' /\ dirs'[h].pkg = dirs[h].pkg
                 /\ dirs[h].damaged => dirs'[h].damaged
      <4>1. CASE h = g
        BY <3>1, <3>3, <3>4, <4>1
      <4>2. CASE h # g
        BY <3>4, <3>5, <4>2 DEF Present
      <4> QED BY <4>1, <4>2
    <3> QED BY <3>5
  <2>4. CASE dirs' = dirs
    BY <2>4 DEF Present
  <2> QED BY <2>1, <2>2, <2>3, <2>4
<1> QED BY <1>1, Invariant, PTL DEF VisibleKept, Spec

-----------------------------------------------------------------------------
(* verifyGeneration. A directory is taken as its parsers return it: they    *)
(* drop what they do not know, and a package version is any.                *)

Named == {<<"normalized-records">>, <<"registry">>, <<"governing-digest">>,
          <<"projection-entries">>, <<"index-metadata">>, <<"view-projection">>,
          <<"domain-projections">>, <<"domain-index">>}
ArtifactParsed(a) == a = [meta |-> a.meta, payload |-> a.payload, sum |-> a.sum]
ManifestParsed(m) ==
    /\ m.pkg \in Packages
    /\ m = [pkg |-> m.pkg, rev |-> m.rev, gen |-> m.gen, authority |-> m.authority,
            domains |-> m.domains, files |-> m.files]
Parsed(dir) ==
    /\ ManifestPath \in DOMAIN dir => ManifestParsed(dir[ManifestPath])
    /\ \A p \in Named \intersect DOMAIN dir : ArtifactParsed(dir[p])

(* Whatever happened to a directory: what verifyGeneration accepts under a  *)
(* Generation's name is, file by file, what a build of that Generation      *)
(* writes, by some package version.                                         *)
THEOREM VerifiedIsBuilt ==
    ASSUME NEW g \in Generations, NEW dir, Parsed(dir)
    PROVE  AcceptedIsBuilt(g, dir)
<1> DEFINE manifest == dir[ManifestPath]
           pkg == manifest.pkg
           content == [records |-> dir[<<"normalized-records">>].payload,
                       active |-> dir[<<"governing-digest">>].payload.active]
           domains == IF Composite(manifest.domains)
                      THEN dir[<<"domain-projections">>].payload ELSE {}
           entries == ProjectionEntries(g.content.records, g)
<1> SUFFICES ASSUME Verifies(g, dir)
             PROVE  \A p \in DOMAIN Files(g, pkg) : p \in DOMAIN dir /\ dir[p] = Files(g, pkg)[p]
    BY DEF AcceptedIsBuilt, Parsed, ManifestParsed, Verifies
<1>1. PICK v \in Revisions, ds \in Inputs :
         g = GenerationId(v, ContentOf[v], ds) /\ InputsAccepted(ds)
    BY DEF Generations
<1>2. /\ manifest.gen = g /\ FilesAgree(dir, manifest) /\ ArtifactsAgree(dir, manifest)
      /\ Required(manifest.domains) \subseteq DOMAIN dir
      /\ Composite(manifest.domains) => DomainsAgree(dir, manifest, content)
      /\ IdentityAgrees(manifest, content, domains)
      /\ DerivedAgree(dir, manifest, content, domains)
      /\ DocumentsAgree(dir, manifest.gen, domains)
    BY NameAssumption DEF Verifies, NameAgrees
<1>3. /\ g.rev = manifest.rev /\ g.content = content /\ g.domains = domains
      /\ g.content.records = dir[<<"normalized-records">>].payload
    BY <1>2 DEF IdentityAgrees
<1>4. Required(g.domains) = Required(manifest.domains)
    BY <1>2, <1>3 DEF DomainsAgree, Composite, Required
<1>5. ASSUME NEW p \in Required(g.domains)
      PROVE  p \in DOMAIN dir /\ dir[p] = Artifact(Metadata(pkg, g), Payload(p, g, g))
  <2>1. p \in Named
    BY DEF Required, Named
  <2>2. p # ManifestPath /\ IsJson(p)
    BY <2>1 DEF Named, ManifestPath, IsJson
  <2>3. p \in DOMAIN manifest.files
    BY <1>2, <1>4, <2>2 DEF FilesAgree
  <2>4. /\ p \in DOMAIN dir
        /\ dir[p].meta = Metadata(pkg, g) /\ dir[p].sum = dir[p].payload
    BY <1>2, <1>3, <1>4, <2>2, <2>3 DEF ArtifactsAgree, Metadata
  <2>5. dir[p].payload = Payload(p, g, g)
    <3>1. CASE p = <<"normalized-records">>
      BY <1>3, <3>1 DEF Payload
    <3>2. CASE p = <<"domain-projections">>
      BY <1>2, <1>3, <1>4, <3>2 DEF Payload, Required
    <3>3. CASE p \notin {<<"normalized-records">>, <<"domain-projections">>}
      <4>1. dir[p].payload = Derived(p, content, manifest.rev, domains, manifest.gen)
        BY <1>2, <1>3, <3>3 DEF DerivedAgree
      <4> QED BY <1>2, <1>3, <3>3, <4>1 DEF Payload
    <3> QED BY <3>1, <3>2, <3>3
  <2> QED BY <2>1, <2>4, <2>5 DEF Parsed, ArtifactParsed, Artifact
<1>6. /\ Payload(<<"projection-entries">>, g, g) = entries
      /\ <<"projection-entries">> \in Required(g.domains)
  BY DEF Payload, Derived, Required
<1>7. ASSUME NEW p \in DOMAIN Documents(entries)
      PROVE  p \in DOMAIN dir /\ dir[p] = Documents(entries)[p]
  <2> DEFINE e == CHOOSE x \in entries : DocumentPath(x) = p
  <2>1. e \in entries /\ DocumentPath(e) = p /\ Documents(entries)[p] = Document(e)
    BY <1>7 DEF Documents
  <2>2. entries = dir[<<"projection-entries">>].payload
    <3>1. dir[<<"projection-entries">>] =
             Artifact(Metadata(pkg, g), Payload(<<"projection-entries">>, g, g))
      BY <1>5, <1>6
    <3>2. dir[<<"projection-entries">>].payload = Payload(<<"projection-entries">>, g, g)
      BY <3>1 DEF Artifact
    <3> QED BY <1>6, <3>2
  <2> QED BY <1>2, <2>1, <2>2 DEF DocumentsAgree
<1>8. ASSUME NEW p \in DOMAIN DomainDocuments(g)
      PROVE  p \in DOMAIN dir /\ dir[p] = DomainDocuments(g)[p]
  <2> DEFINE of == CHOOSE x \in g.domains : x.input.domain = p[2]
  <2>1. PICK d \in g.domains : \E id \in DOMAIN d.payloads : p = DomainPath(d, id)
    BY <1>8 DEF DomainDocuments
  <2>2. PICK id \in DOMAIN d.payloads : p = DomainPath(d, id)
    BY <2>1
  <2>3. p[2] = d.input.domain /\ p[3] = id
    BY <2>2 DEF DomainPath
  <2>4. of \in g.domains /\ of.input.domain = d.input.domain
    BY <2>3
  <2>5. of = d
    BY <1>1, <2>4 DEF GenerationId, InputsAccepted
  <2>6. DomainDocuments(g)[p] = DomainDocument(d, id, g)
    BY <1>8, <2>3, <2>5 DEF DomainDocuments
  <2> QED BY <1>2, <1>3, <2>2, <2>6 DEF DocumentsAgree
<1>9. Files(g, pkg) =
        [p \in Required(g.domains) |-> Artifact(Metadata(pkg, g), Payload(p, g, g))]
        ++ Documents(entries) ++ DomainDocuments(g)
  BY <1>6 DEF Files
<1> QED BY <1>5, <1>7, <1>8, <1>9 DEF ++

(* Artifacts, documents and domain documents never share a path.            *)
LEMMA PathsApart ==
    /\ \A p \in Named : IsJson(p) /\ p # ManifestPath
    /\ IsJson(ManifestPath)
    /\ \A e : ~IsJson(DocumentPath(e)) /\ DocumentPath(e)[1] = "document"
    /\ \A d, id : ~IsJson(DomainPath(d, id)) /\ DomainPath(d, id)[1] = "domain"
    BY DEF Named, IsJson, ManifestPath, DocumentPath, DomainPath

(* Normalizing is not undone by verifying: a normalized record renormalizes *)
(* to itself.                                                               *)
LEMMA NormalizedTwice ==
    ASSUME NEW r
    PROVE  Normalized(r).record = r /\ Normalized(Normalized(r).record) = Normalized(r)
    BY DEF Normalized

(* A document's path determines its projection entry: the checksum in it is *)
(* that of the whole record.                                                *)
LEMMA EntryOfPath ==
    ASSUME NEW records, NEW gen,
           NEW d \in ProjectionEntries({Normalized(r) : r \in records}, gen),
           NEW e \in ProjectionEntries({Normalized(r) : r \in records}, gen),
           DocumentPath(d) = DocumentPath(e)
    PROVE  d = e
<1> DEFINE n(r) == Normalized(r)
           Entry(r) == [gen |-> gen, layer |-> n(r).record.layer, id |-> n(r).record.id,
                        role |-> n(r).role, version |-> n(r).record.version,
                        sum |-> n(r).sum, sources |-> n(r).record.sources,
                        content |-> n(r).record.body]
<1>1. PICK q \in records : d = Entry(q)
    BY DEF ProjectionEntries
<1>2. PICK r \in records : e = Entry(r)
    BY DEF ProjectionEntries
<1>3. d.sum = e.sum
    BY DEF DocumentPath
<1>4. Normalized(q).sum = Normalized(r).sum
    BY <1>1, <1>2, <1>3
<1>5. q = r
    BY <1>4 DEF Normalized
<1> QED BY <1>1, <1>2, <1>5

EntriesOf(g) == ProjectionEntries(g.content.records, g)

\* The files of a Generation: which there are, and what each holds.
BuiltShape(g, pkg) ==
    /\ DOMAIN Files(g, pkg) = Required(g.domains) \union DOMAIN Documents(EntriesOf(g))
                                 \union DOMAIN DomainDocuments(g)
    /\ \A p \in Required(g.domains) :
          Files(g, pkg)[p] = Artifact(Metadata(pkg, g), Payload(p, g, g))
    /\ \A p \in DOMAIN Documents(EntriesOf(g)) :
          Files(g, pkg)[p] = Documents(EntriesOf(g))[p]
    /\ \A p \in DOMAIN DomainDocuments(g) : Files(g, pkg)[p] = DomainDocuments(g)[p]
    /\ \A p \in DOMAIN Documents(EntriesOf(g)) \union DOMAIN DomainDocuments(g) : ~IsJson(p)
    /\ ManifestPath \notin DOMAIN Files(g, pkg)
    /\ DOMAIN Built(g, pkg) = {ManifestPath} \union DOMAIN Files(g, pkg)
    /\ Built(g, pkg)[ManifestPath] = Manifest(g, pkg, Files(g, pkg))
    /\ \A p \in DOMAIN Files(g, pkg) : Built(g, pkg)[p] = Files(g, pkg)[p]

(* No file of a build hides another.                                        *)
LEMMA BuiltFiles == ASSUME NEW g, NEW pkg PROVE BuiltShape(g, pkg)
<1> DEFINE F == Files(g, pkg)
           D == Built(g, pkg)
           A == [p \in Required(g.domains) |-> Artifact(Metadata(pkg, g), Payload(p, g, g))]
           E == Documents(EntriesOf(g))
           N == DomainDocuments(g)
<1>1. \A p \in DOMAIN E : ~IsJson(p) /\ p[1] = "document"
    BY PathsApart DEF Documents
<1>2. \A p \in DOMAIN N : ~IsJson(p) /\ p[1] = "domain"
    BY PathsApart DEF DomainDocuments
<1>3. \A p \in DOMAIN A : IsJson(p) /\ p # ManifestPath
    BY PathsApart DEF Required, Named
<1>4. F = A ++ E ++ N
  <2>1. Payload(<<"projection-entries">>, g, g) = EntriesOf(g)
    BY DEF Payload, Derived, EntriesOf
  <2> QED BY <2>1 DEF Files
<1>5. DOMAIN E \intersect DOMAIN N = {}
    BY <1>1, <1>2
<1>6. DOMAIN A \intersect (DOMAIN E \union DOMAIN N) = {} 
    BY <1>1, <1>2, <1>3
<1> HIDE DEF A, E, N
<1>7. /\ DOMAIN F = DOMAIN A \union DOMAIN E \union DOMAIN N
      /\ \A p \in DOMAIN A : F[p] = A[p]
      /\ \A p \in DOMAIN E : F[p] = E[p]
      /\ \A p \in DOMAIN N : F[p] = N[p]
    BY <1>4, <1>5, <1>6 DEF ++
<1>8. ManifestPath \notin DOMAIN F
    BY <1>1, <1>2, <1>3, <1>7, PathsApart
<1>9. D = File(ManifestPath, Manifest(g, pkg, F)) ++ F
    BY DEF Built
<1> HIDE DEF F, D
<1>10. /\ DOMAIN D = {ManifestPath} \union DOMAIN F
       /\ D[ManifestPath] = Manifest(g, pkg, F)
       /\ \A p \in DOMAIN F : D[p] = F[p]
    BY <1>8, <1>9 DEF ++, File
<1>11. /\ DOMAIN A = Required(g.domains)
       /\ \A p \in Required(g.domains) :
             A[p] = Artifact(Metadata(pkg, g), Payload(p, g, g))
    BY DEF A
<1>12. \A p \in DOMAIN E \union DOMAIN N : ~IsJson(p)
    BY <1>1, <1>2
<1>13. \A p \in Required(g.domains) : F[p] = Artifact(Metadata(pkg, g), Payload(p, g, g))
    BY <1>7, <1>11
<1> QED BY <1>7, <1>8, <1>10, <1>11, <1>12, <1>13 DEF F, D, E, N, BuiltShape

(* What a build writes verifies, in its staging directory (which has no     *)
(* Generation's name) and under its own name.                               *)
THEOREM BuiltVerifies ==
    ASSUME NEW g \in Generations, NEW pkg \in Packages, NEW name \in {g, None}
    PROVE  Verifies(name, Built(g, pkg))
<1> DEFINE F == Files(g, pkg)
           D == Built(g, pkg)
           E == EntriesOf(g)
           M == Manifest(g, pkg, F)
<1>1. PICK v \in Revisions, ds \in Inputs :
         g = GenerationId(v, ContentOf[v], ds) /\ Admissible(ContentOf[v]) /\ InputsAccepted(ds)
    BY DEF Generations
<1>2. /\ g.rev = v /\ g.domains = ds
      /\ g.content = [records |-> {Normalized(r) : r \in ContentOf[v].records},
                      active |-> ContentOf[v].active]
      /\ g = [rev |-> g.rev, content |-> g.content, domains |-> g.domains]
    BY <1>1 DEF GenerationId
<1>3. /\ DOMAIN F = Required(g.domains) \union DOMAIN Documents(E) \union DOMAIN DomainDocuments(g)
      /\ \A p \in Required(g.domains) : F[p] = Artifact(Metadata(pkg, g), Payload(p, g, g))
      /\ \A p \in DOMAIN Documents(E) : F[p] = Documents(E)[p]
      /\ \A p \in DOMAIN DomainDocuments(g) : F[p] = DomainDocuments(g)[p]
      /\ \A p \in DOMAIN Documents(E) \union DOMAIN DomainDocuments(g) : ~IsJson(p)
      /\ ManifestPath \notin DOMAIN F
      /\ DOMAIN D = {ManifestPath} \union DOMAIN F
      /\ D[ManifestPath] = M
      /\ \A p \in DOMAIN F : D[p] = F[p]
  <2>1. BuiltShape(g, pkg)
    BY BuiltFiles
  <2> QED BY <2>1 DEF BuiltShape
<1>4. /\ M.pkg = pkg /\ M.rev = g.rev /\ M.gen = g /\ M.authority = g.content
      /\ M.domains = {d.input : d \in g.domains} /\ M.files = F
    BY DEF Manifest
<1> HIDE DEF F, D, M
<1>5. Required(M.domains) = Required(g.domains) /\ (Composite(M.domains) <=> Composite(g.domains))
    BY <1>4 DEF Required, Composite
<1>6. \A p \in Required(g.domains) :
         p \in DOMAIN D /\ D[p] = Artifact(Metadata(pkg, g), Payload(p, g, g))
    BY <1>3
<1>7. \A p \in Required(g.domains) :
         /\ D[p].payload = Payload(p, g, g) /\ D[p].sum = D[p].payload
         /\ D[p].meta = [pkg |-> M.pkg, rev |-> M.rev, gen |-> M.gen]
  <2> TAKE p \in Required(g.domains)
  <2>1. D[p] = [meta |-> Metadata(pkg, g), payload |-> Payload(p, g, g), sum |-> Payload(p, g, g)]
    BY <1>6 DEF Artifact
  <2> QED BY <1>4, <2>1 DEF Metadata
<1>8. NameAgrees(name, M)
    BY <1>4 DEF NameAgrees
<1>9. FilesAgree(D, M)
    BY <1>3, <1>4 DEF FilesAgree
<1>10. ArtifactsAgree(D, M)
    BY <1>3, <1>4, <1>7 DEF ArtifactsAgree
<1> DEFINE content == [records |-> D[<<"normalized-records">>].payload,
                       active |-> D[<<"governing-digest">>].payload.active]
           domains == IF Composite(M.domains)
                      THEN D[<<"domain-projections">>].payload ELSE {}
<1>11. D[<<"normalized-records">>].payload = g.content.records
    BY <1>7 DEF Payload, Required
<1>12. D[<<"governing-digest">>].payload.active = g.content.active
  <2>1. D[<<"governing-digest">>].payload = GoverningDigest(g.content.records, g.content.active)
    BY <1>7 DEF Payload, Derived, Required
  <2> QED BY <2>1 DEF GoverningDigest
<1>13. content = g.content
    BY <1>2, <1>11, <1>12
<1>14. domains = g.domains
  <2>1. CASE Composite(g.domains)
    BY <1>5, <1>7, <2>1 DEF Payload, Required
  <2>2. CASE ~Composite(g.domains)
    BY <1>5, <2>2 DEF Composite
  <2> QED BY <2>1, <2>2
<1> HIDE DEF content, domains
<1>15. RecordsAgree(g.content.records, g.content.active)
  <2>1. \A n \in g.content.records : n = Normalized(n.record)
    BY <1>2, NormalizedTwice
  <2>2. {n.record : n \in g.content.records} = ContentOf[v].records
    BY <1>2, NormalizedTwice
  <2>3. ReferencesResolve({n.record : n \in g.content.records}, g.content.active)
    <3>1. ReferencesResolve(ContentOf[v].records, ContentOf[v].active)
      BY <1>1 DEF Admissible
    <3>2. g.content.active = ContentOf[v].active
      BY <1>2
    <3> QED BY <2>2, <3>1, <3>2
  <2> QED BY <2>1, <2>3 DEF RecordsAgree
<1>16. Composite(M.domains) => DomainsAgree(D, M, g.content)
    BY <1>1, <1>2, <1>4, <1>5, <1>7 DEF DomainsAgree, InputsAccepted, Payload,
       Required
<1>17. IdentityAgrees(M, g.content, g.domains)
    BY <1>2, <1>4 DEF IdentityAgrees
<1>18. DerivedAgree(D, M, g.content, g.domains)
    BY <1>4, <1>7 DEF DerivedAgree, Payload
<1>19. DocumentsAgree(D, M.gen, g.domains)
  <2>1. D[<<"projection-entries">>].payload = E
    BY <1>7 DEF Payload, Derived, Required, EntriesOf
  <2>2. ASSUME NEW e \in E
        PROVE  DocumentPath(e) \in DOMAIN D /\ D[DocumentPath(e)] = Document(e)
    <3> DEFINE x == CHOOSE y \in E : DocumentPath(y) = DocumentPath(e)
    <3>1. x \in E /\ DocumentPath(x) = DocumentPath(e)
      BY <2>2
    <3>2. x = e
      BY <1>2, <2>2, <3>1, EntryOfPath DEF EntriesOf
    <3>3. DocumentPath(e) \in DOMAIN Documents(E) /\ Documents(E)[DocumentPath(e)] = Document(x)
      BY <2>2 DEF Documents
    <3> QED BY <1>3, <3>2, <3>3
  <2>3. ASSUME NEW d \in g.domains, NEW id \in DOMAIN d.payloads
        PROVE  DomainPath(d, id) \in DOMAIN D /\ D[DomainPath(d, id)] = DomainDocument(d, id, g)
    <3> DEFINE p == DomainPath(d, id)
               x == CHOOSE y \in g.domains : y.input.domain = p[2]
    <3>1. p[2] = d.input.domain /\ p[3] = id
      BY DEF DomainPath
    <3>2. x \in g.domains /\ x.input.domain = d.input.domain
      BY <3>1
    <3>3. x = d
      BY <1>1, <1>2, <3>2 DEF InputsAccepted
    <3>4. p \in DOMAIN DomainDocuments(g) /\ DomainDocuments(g)[p] = DomainDocument(x, id, g)
      <4>1. p \in UNION {{DomainPath(c, i) : i \in DOMAIN c.payloads} : c \in g.domains}
        OBVIOUS
      <4> QED BY <3>1, <4>1 DEF DomainDocuments
    <3> QED BY <1>3, <3>3, <3>4
  <2> QED BY <1>4, <2>1, <2>2, <2>3 DEF DocumentsAgree
<1> QED BY <1>3, <1>5, <1>6, <1>8, <1>9, <1>10, <1>13, <1>14, <1>15, <1>16,
       <1>17, <1>18, <1>19 DEF Verifies, content, domains, D, M, F

(* What a build writes, what storage loses, mixes, grafts or exchanges, and *)
(* a manifest signed anew, all parse.                                       *)
LEMMA BuiltParsed ==
    ASSUME NEW g, NEW pkg \in Packages PROVE Parsed(Built(g, pkg))
<1> DEFINE F == Files(g, pkg)
           D == Built(g, pkg)
<1>1. BuiltShape(g, pkg)
    BY BuiltFiles
<1>2. ManifestParsed(D[ManifestPath])
  <2>1. D[ManifestPath] = Manifest(g, pkg, F)
    BY <1>1 DEF BuiltShape
  <2> HIDE DEF F, D
  <2> QED BY <2>1 DEF ManifestParsed, Manifest
<1>3. ASSUME NEW p \in Named \intersect DOMAIN D PROVE ArtifactParsed(D[p])
  <2>1. p \in Required(g.domains)
    BY <1>1, <1>3, PathsApart DEF BuiltShape
  <2>2. D[p] = Artifact(Metadata(pkg, g), Payload(p, g, g))
    BY <1>1, <2>1 DEF BuiltShape
  <2> HIDE DEF D
  <2> QED BY <2>2 DEF ArtifactParsed, Artifact
<1> QED BY <1>2, <1>3 DEF Parsed

(* Some files are lost.                                                     *)
LEMMA LostParsed ==
    ASSUME NEW dir, Parsed(dir), NEW P PROVE Parsed(Restrict(dir, P \intersect DOMAIN dir))
    BY DEF Parsed, Restrict

(* Files of one directory over those of another.                            *)
LEMMA LaidOverParsed ==
    ASSUME NEW f, NEW h, Parsed(f), Parsed(h) PROVE Parsed(f ++ h)
    BY DEF Parsed, ++

(* The manifest is brought to agree with the files.                         *)
LEMMA ResignedParsed == ASSUME NEW dir, Parsed(dir) PROVE Parsed(Resigned(dir))
<1>1. CASE ManifestPath \notin DOMAIN dir
    BY <1>1 DEF Resigned
<1>2. CASE ManifestPath \in DOMAIN dir
  <2> DEFINE m == dir[ManifestPath]
             files == Lost(dir, {ManifestPath})
             n == [m EXCEPT !.files = files]
  <2>1. Resigned(dir) = [dir EXCEPT ![ManifestPath] = n]
    BY <1>2 DEF Resigned
  <2>2. ManifestParsed(m)
    BY <1>2 DEF Parsed
  <2> HIDE DEF m, files
  <2>3. n = [pkg |-> m.pkg, rev |-> m.rev, gen |-> m.gen, authority |-> m.authority,
             domains |-> m.domains, files |-> files]
    BY <2>2 DEF ManifestParsed
  <2>4. ManifestParsed(n)
    BY <2>2, <2>3 DEF ManifestParsed
  <2> HIDE DEF n
  <2>5. /\ DOMAIN Resigned(dir) = DOMAIN dir
        /\ Resigned(dir)[ManifestPath] = n
        /\ \A p \in Named \intersect DOMAIN dir : Resigned(dir)[p] = dir[p]
    BY <1>2, <2>1, PathsApart
  <2> QED BY <2>4, <2>5 DEF Parsed
<1> QED BY <1>1, <1>2

(* So both the directory and its signed version are what was built, or are  *)
(* refused.                                                                 *)
LEMMA ParsedWithstands ==
    ASSUME NEW g \in Generations, NEW dir, Parsed(dir) PROVE Withstands(g, dir)
    BY VerifiedIsBuilt, ResignedParsed DEF Withstands

(* Contents of another Generation under this one's name.                    *)
LEMMA GraftParsed ==
    ASSUME NEW dir, Parsed(dir), NEW g, NEW h, NEW pkg, NEW P
    PROVE  Parsed(Grafted(dir, g, h, pkg, P))
<1> DEFINE A == [p \in P \intersect Required(h.domains) |->
                    Artifact(Metadata(pkg, g), Payload(p, h, g))]
           T == IF <<"projection-entries">> \in P
                THEN Documents(Payload(<<"projection-entries">>, h, g)) ELSE <<>>
<1>1. Parsed(A)
  <2>1. ManifestPath \notin DOMAIN A
    BY PathsApart DEF Required, Named
  <2>2. ASSUME NEW p \in DOMAIN A PROVE ArtifactParsed(A[p])
    <3>1. A[p] = Artifact(Metadata(pkg, g), Payload(p, h, g))
      BY <2>2
    <3> HIDE DEF A
    <3> QED BY <3>1 DEF Artifact, ArtifactParsed
  <2> QED BY <2>1, <2>2 DEF Parsed
<1>2. Parsed(T)
  <2>1. \A entries : \A p \in DOMAIN Documents(entries) : ~IsJson(p)
    BY PathsApart DEF Documents
  <2>2. \A p \in DOMAIN T : ~IsJson(p)
    BY <2>1
  <2> QED BY <2>2, PathsApart DEF Parsed
<1> HIDE DEF A, T
<1>3. Parsed(A ++ T)
    BY <1>1, <1>2, LaidOverParsed
<1>4. Grafted(dir, g, h, pkg, P) = (A ++ T) ++ dir
    BY DEF Grafted, A, T
<1> QED BY <1>3, <1>4, LaidOverParsed

(* A text is replaced.                                                      *)
LEMMA ExchangedParsed ==
    ASSUME NEW dir, Parsed(dir), NEW p \in DOMAIN dir, ~IsJson(p), NEW v
    PROVE  Parsed([dir EXCEPT ![p] = v])
    BY PathsApart DEF Parsed

(* The tampering the run tries on its instance is found on every instance.  *)
LEMMA TamperingFound == TamperingShows
<1> SUFFICES ASSUME NEW g \in Generations, NEW h \in Generations
             PROVE  LET pkg == CHOOSE p \in Packages : TRUE
                        dir == Built(g, pkg)
                        other(q) == Built(h, q)
                        texts == {p \in DOMAIN dir : ~IsJson(p)}
                        named == Required(g.domains) \union {ManifestPath}
                    IN  /\ Verifies(g, dir) /\ Verifies(None, dir)
                        /\ \A p \in DOMAIN dir : Withstands(g, Lost(dir, {p}))
                        /\ \A P \in SUBSET named, q \in Packages :
                              Withstands(g, Mixed(dir, other(q), P))
                        /\ \A p \in DOMAIN other(pkg) :
                              Withstands(g, Mixed(dir, other(pkg), {p}))
                        /\ \A P \in SUBSET Required(g.domains) :
                              Withstands(g, Grafted(dir, g, h, pkg, P))
                        /\ \A p, q \in texts : Withstands(g, [dir EXCEPT ![p] = dir[q]])
    BY DEF TamperingShows
<1> DEFINE pkg == CHOOSE p \in Packages : TRUE
           dir == Built(g, pkg)
           other(q) == Built(h, q)
           texts == {p \in DOMAIN dir : ~IsJson(p)}
<1>1. pkg \in Packages
    BY NameAssumption
<1> HIDE DEF pkg
<1>2. Parsed(dir) /\ \A q \in Packages : Parsed(other(q))
    BY <1>1, BuiltParsed
<1>3. Verifies(g, dir) /\ Verifies(None, dir)
    BY <1>1, BuiltVerifies
<1>4. ASSUME NEW P PROVE Withstands(g, Lost(dir, P))
  <2>1. DOMAIN dir \ P = (DOMAIN dir \ P) \intersect DOMAIN dir
    OBVIOUS
  <2>2. Parsed(Lost(dir, P))
    BY <1>2, <2>1, LostParsed DEF Lost
  <2> QED BY <2>2, ParsedWithstands
<1>5. ASSUME NEW q \in Packages, NEW P PROVE Withstands(g, Mixed(dir, other(q), P))
  <2>1. Parsed(Restrict(other(q), P \intersect DOMAIN other(q)))
    BY <1>2, LostParsed
  <2>2. Parsed(Mixed(dir, other(q), P))
    BY <1>2, <2>1, LaidOverParsed DEF Mixed
  <2> QED BY <2>2, ParsedWithstands
<1>6. ASSUME NEW P PROVE Withstands(g, Grafted(dir, g, h, pkg, P))
    BY <1>2, GraftParsed, ParsedWithstands
<1>7. ASSUME NEW p \in texts, NEW q \in texts PROVE Withstands(g, [dir EXCEPT ![p] = dir[q]])
    BY <1>2, ExchangedParsed, ParsedWithstands
<1> QED BY <1>1, <1>3, <1>4, <1>5, <1>6, <1>7 DEF pkg

(* The invariant the run checks, for every set of commits, projections and  *)
(* package versions.                                                        *)
THEOREM AcceptedOnlyBuilt == Spec => []VerifiesOnlyBuilt
<1>1. VerifiesOnlyBuilt
    BY TamperingFound DEF VerifiesOnlyBuilt
<1> QED BY <1>1, PTL
==============================================================================
