--------------------------- MODULE GenerationArtifacts ---------------------------
(***************************************************************************)
(* What a Generation's directory holds, as a function of the authority     *)
(* content and the domain projections it was built from, and what          *)
(* verifyGeneration accepts (src/src/generation/index.ts).                 *)
(*                                                                         *)
(* A checksum is the value it is taken of, so the identity of a Generation *)
(* is its seed. Sorted arrays are sets. A record keeps what the references *)
(* and the artifacts are made of; its body stands for its text and its     *)
(* sections. Contracts, lint and the layout of documents are left out.     *)
(***************************************************************************)
EXTENDS FiniteSets, Functions

CONSTANTS
    Revisions, ContentOf,   \* commits: [records |-> ..., active |-> ...]
    Inputs,                 \* the sets of domain projections a build is given
    Packages,
    None

\* Files laid over other files, and a file by itself (TLC's @@ and :>, which
\* the provers do not know).
f ++ g == [x \in DOMAIN f \union DOMAIN g |-> IF x \in DOMAIN f THEN f[x] ELSE g[x]]
File(path, content) == [p \in {path} |-> content]

Layers == {"evidence", "semantic", "cognitive"}
Unique(records) == \A q, r \in records : q.id = r.id => q = r

-----------------------------------------------------------------------------
(* Authority records                                                        *)

\* resolveStableId, in a set of records without duplicates
Resolves(records, id, layer) == \E r \in records : r.id = id /\ r.layer = layer
IsSystem(records, id) ==
    \E r \in records : r.id = id /\ r.layer = "cognitive" /\ r.type = "governing_system"

RecordResolves(records, r) ==
    /\ r.layer # "evidence" =>
          /\ \A id \in r.sources : Resolves(records, id, "evidence")
          /\ \A id \in r.peers : Resolves(records, id, r.layer)
    /\ r.layer = "cognitive" =>
          /\ r.governed # None => IsSystem(records, r.governed)
          /\ r.type = "governing_module" => r.governed # None

ReferencesResolve(records, active) ==
    /\ \A r \in records : RecordResolves(records, r)
    /\ active # None => IsSystem(records, active)

\* What a build, or validateAuthoritySource, makes of a commit.
Admissible(content) ==
    /\ content.records # {} /\ Unique(content.records)
    /\ ReferencesResolve(content.records, content.active)

RoleFor(r) ==
    IF r.layer # "cognitive" THEN r.layer
    ELSE IF r.type \in {"governing_system", "governing_module"} THEN r.type
    ELSE "ordinary_framework"

\* A normalized record carries its role and the checksum of all the rest.
Normalized(r) == [record |-> r, role |-> RoleFor(r), sum |-> <<r, RoleFor(r)>>]

-----------------------------------------------------------------------------
(* The payloads that are derived from normalized records                    *)

RegistryPayload(normal, gen) ==
    {[id |-> n.record.id, role |-> n.role, version |-> n.record.version, gen |-> gen,
      sum |-> n.sum, governed |-> n.record.governed] : n \in normal}

GoverningDigest(normal, active) ==
    [active |-> active,
     system |-> {<<n.record.version, n.record.body>> :
                    n \in {m \in normal : m.record.id = active}},
     modules |-> {<<n.record.id, n.record.version, n.record.body>> :
                    n \in {m \in normal : /\ m.role = "governing_module"
                                          /\ active # None
                                          /\ m.record.governed = active}}]

ProjectionEntries(normal, gen) ==
    {[gen |-> gen, layer |-> n.record.layer, id |-> n.record.id, role |-> n.role,
      version |-> n.record.version, sum |-> n.sum, sources |-> n.record.sources,
      content |-> n.record.body] : n \in normal}

IndexMetadata(normal) ==
    {[id |-> n.record.id, layer |-> n.record.layer, role |-> n.role,
      version |-> n.record.version, sum |-> n.sum] : n \in normal}

ViewProjection(normal, rev, active) ==
    [rev |-> rev, active |-> active, refs |-> {n.record.id : n \in normal}]

\* Every document has its projection entry's identity in its path.
DocumentPath(e) == <<"document", e.id, e.role, e.version, e.sum>>
Document(e) == [text |-> <<e.id, e.layer, e.role, e.version, e.sum, e.sources, e.content, e.gen>>]

-----------------------------------------------------------------------------
(* Domain projections: the tuple, the consumed manifest, the payloads.      *)

ProjectionAccepted(d) ==
    /\ d.input.manifest = d.manifest
    /\ d.payloads = d.manifest.payloads
    /\ ~d.manifest.current_state

InputsAccepted(domains) ==
    /\ \A d \in domains : ProjectionAccepted(d)
    /\ \A c, d \in domains : c.input.domain = d.input.domain => c = d

DomainIndex(domains, gen) ==
    {[gen |-> gen, domain |-> d.input.domain, manifest |-> d.input.manifest,
      documents |-> DOMAIN d.payloads] : d \in domains}
DomainPath(d, id) == <<"domain", d.input.domain, id>>
DomainDocument(d, id, gen) == [text |-> <<gen, d.input, id, d.payloads[id]>>]

-----------------------------------------------------------------------------
(* The directory                                                            *)

\* The seed: v3 with domains, v2 without.
GenerationId(rev, content, domains) ==
    [rev |-> rev,
     content |-> [records |-> {Normalized(r) : r \in content.records},
                  active |-> content.active],
     domains |-> domains]

ManifestPath == <<"manifest">>
Composite(domains) == domains # {}
Required(domains) ==
    {<<"normalized-records">>, <<"registry">>, <<"governing-digest">>,
     <<"projection-entries">>, <<"index-metadata">>, <<"view-projection">>}
    \union IF Composite(domains) THEN {<<"domain-projections">>, <<"domain-index">>} ELSE {}

\* The payload of each artifact that is derived from the records and domains.
Derived(path, content, rev, domains, gen) ==
    CASE path = <<"registry">>           -> RegistryPayload(content.records, gen)
      [] path = <<"governing-digest">>   -> GoverningDigest(content.records, content.active)
      [] path = <<"projection-entries">> -> ProjectionEntries(content.records, gen)
      [] path = <<"index-metadata">>     -> IndexMetadata(content.records)
      [] path = <<"view-projection">>    -> ViewProjection(content.records, rev, content.active)
      [] path = <<"domain-index">>       -> DomainIndex(domains, gen)

\* The payload of an artifact of g, under the name gen.
Payload(path, g, gen) ==
    CASE path = <<"normalized-records">> -> g.content.records
      [] path = <<"domain-projections">> -> g.domains
      [] OTHER -> Derived(path, g.content, g.rev, g.domains, gen)

Artifact(meta, payload) == [meta |-> meta, payload |-> payload, sum |-> payload]
Metadata(pkg, g) == [pkg |-> pkg, rev |-> g.rev, gen |-> g]

Documents(entries) ==
    [p \in {DocumentPath(e) : e \in entries} |->
       Document(CHOOSE e \in entries : DocumentPath(e) = p)]
DomainDocuments(g) ==
    LET of(p) == CHOOSE d \in g.domains : d.input.domain = p[2]
    IN  [p \in UNION {{DomainPath(d, id) : id \in DOMAIN d.payloads} : d \in g.domains} |->
           DomainDocument(of(p), p[3], g)]

Files(g, pkg) ==
    [p \in Required(g.domains) |-> Artifact(Metadata(pkg, g), Payload(p, g, g))]
    ++ Documents(Payload(<<"projection-entries">>, g, g)) ++ DomainDocuments(g)

Manifest(g, pkg, files) ==
    [pkg |-> pkg, rev |-> g.rev, gen |-> g, authority |-> g.content,
     domains |-> {d.input : d \in g.domains}, files |-> files]

\* The directory buildGeneration writes; the manifest's checksums are the files.
Built(g, pkg) == File(ManifestPath, Manifest(g, pkg, Files(g, pkg))) ++ Files(g, pkg)

-----------------------------------------------------------------------------
(* verifyGeneration                                                         *)

\* A staging directory's name is not the form of a Generation's.
NameAgrees(name, manifest) == name # None => name = manifest.gen

FilesAgree(dir, manifest) ==
    /\ DOMAIN dir = {ManifestPath} \union DOMAIN manifest.files
    /\ \A p \in DOMAIN manifest.files : dir[p] = manifest.files[p]

IsJson(p) == p[1] \notin {"document", "domain"}
ArtifactsAgree(dir, manifest) ==
    \A p \in {q \in DOMAIN manifest.files : IsJson(q)} :
        /\ dir[p].meta = [pkg |-> manifest.pkg, rev |-> manifest.rev, gen |-> manifest.gen]
        /\ dir[p].sum = dir[p].payload

RecordsAgree(normal, active) ==
    /\ \A n \in normal : n = Normalized(n.record)
    /\ ReferencesResolve({n.record : n \in normal}, active)

DomainsAgree(dir, manifest, content) ==
    LET domains == dir[<<"domain-projections">>].payload
    IN  /\ manifest.authority = content
        /\ {d.input : d \in domains} = manifest.domains
        /\ \A d \in domains : ProjectionAccepted(d)

IdentityAgrees(manifest, content, domains) ==
    manifest.gen = [rev |-> manifest.rev, content |-> content, domains |-> domains]

DerivedAgree(dir, manifest, content, domains) ==
    \A p \in Required(domains) \ {<<"normalized-records">>, <<"domain-projections">>} :
        dir[p].payload = Derived(p, content, manifest.rev, domains, manifest.gen)

\* Mutant: the documents' text is left to the manifest's checksums.
DocumentsAgree_Present(dir, gen, domains) ==
    /\ \A e \in dir[<<"projection-entries">>].payload : DocumentPath(e) \in DOMAIN dir
    /\ \A d \in domains : \A id \in DOMAIN d.payloads : DomainPath(d, id) \in DOMAIN dir

DocumentsAgree(dir, gen, domains) ==
    /\ \A e \in dir[<<"projection-entries">>].payload :
          DocumentPath(e) \in DOMAIN dir /\ dir[DocumentPath(e)] = Document(e)
    /\ \A d \in domains : \A id \in DOMAIN d.payloads :
          /\ DomainPath(d, id) \in DOMAIN dir
          /\ dir[DomainPath(d, id)] = DomainDocument(d, id, gen)

Verifies(name, dir) ==
    /\ ManifestPath \in DOMAIN dir
    /\ LET manifest == dir[ManifestPath]
       IN  /\ NameAgrees(name, manifest) /\ FilesAgree(dir, manifest)
           /\ ArtifactsAgree(dir, manifest)
           /\ Required(manifest.domains) \subseteq DOMAIN dir
           /\ LET content == [records |-> dir[<<"normalized-records">>].payload,
                              active |-> dir[<<"governing-digest">>].payload.active]
                  domains == IF Composite(manifest.domains)
                             THEN dir[<<"domain-projections">>].payload ELSE {}
              IN  /\ RecordsAgree(content.records, content.active)
                  /\ Composite(manifest.domains) => DomainsAgree(dir, manifest, content)
                  /\ IdentityAgrees(manifest, content, domains)
                  /\ DerivedAgree(dir, manifest, content, domains)
                  /\ DocumentsAgree(dir, manifest.gen, domains)

-----------------------------------------------------------------------------
(* What storage, or somebody, may have done to a directory since.           *)

Generations ==
    {GenerationId(v, ContentOf[v], ds) :
        v \in {u \in Revisions : Admissible(ContentOf[u])},
        ds \in {d \in Inputs : InputsAccepted(d)}}

ASSUME NameAssumption == None \notin Generations /\ Packages # {}

Lost(dir, paths) == Restrict(dir, DOMAIN dir \ paths)

\* Files of another Generation, as they are, strays among them.
Mixed(dir, other, paths) == Restrict(other, paths \intersect DOMAIN other) ++ dir

\* The contents of another Generation under this one's name and metadata, the
\* documents along with their entries.
Grafted(dir, g, h, pkg, paths) ==
    [p \in paths \intersect Required(h.domains) |->
        Artifact(Metadata(pkg, g), Payload(p, h, g))]
    ++ (IF <<"projection-entries">> \in paths
        THEN Documents(Payload(<<"projection-entries">>, h, g)) ELSE <<>>)
    ++ dir

\* The manifest brought to agree with the files it finds.
Resigned(dir) ==
    IF ManifestPath \notin DOMAIN dir THEN dir
    ELSE [dir EXCEPT ![ManifestPath].files = Lost(dir, {ManifestPath})]

AcceptedIsBuilt(name, dir) ==
    Verifies(name, dir) =>
        \E pkg \in Packages : \A p \in DOMAIN Files(name, pkg) :
            p \in DOMAIN dir /\ dir[p] = Files(name, pkg)[p]
Withstands(g, dir) == AcceptedIsBuilt(g, dir) /\ AcceptedIsBuilt(g, Resigned(dir))

\* Each directory built, with one file lost, with files of another one, with
\* contents of another one grafted into it, with its texts exchanged.
TamperingShows ==
    \A g \in Generations, h \in Generations :
      LET pkg == CHOOSE p \in Packages : TRUE
          dir == Built(g, pkg)
          other(q) == Built(h, q)
          texts == {p \in DOMAIN dir : ~IsJson(p)}
          named == Required(g.domains) \union {ManifestPath}
      IN  /\ Verifies(g, dir) /\ Verifies(None, dir)
          /\ \A p \in DOMAIN dir : Withstands(g, Lost(dir, {p}))
          /\ \A P \in SUBSET named, q \in Packages : Withstands(g, Mixed(dir, other(q), P))
          /\ \A p \in DOMAIN other(pkg) : Withstands(g, Mixed(dir, other(pkg), {p}))
          /\ \A P \in SUBSET Required(g.domains) : Withstands(g, Grafted(dir, g, h, pkg, P))
          /\ \A p, q \in texts : Withstands(g, [dir EXCEPT ![p] = dir[q]])

=============================================================================
