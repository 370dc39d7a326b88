----------------------------- MODULE Registries -----------------------------
(***************************************************************************)
(* What answers a resolution's questions: at each url either a registry of *)
(* this repository, which serves the fixture set it was started with, or   *)
(* anybody else, who may answer anything.                                  *)
(*                                                                         *)
(* fixtures.RegistrySet makes the set out of a checked-in document and     *)
(* built packages, FixtureSet.Sort orders it, registry.Handler answers out *)
(* of it, and the resolver orders the answer once more.  The answer's      *)
(* transport is the client's: any of them may be lost (Unavailable).       *)
(***************************************************************************)
EXTENDS Fixtures

CONSTANTS
    Catalogues,             \* the registries' documents, in the order of RegistrySets
    Anybody,                \* stands for no document: somebody else's registry
    Down                    \* nothing is served

\* A document lists versions with what BuildPackage makes of the sources they name.
ASSUME CataloguesAreLists ==
    \A c \in Catalogues : \A i \in DOMAIN RegistrySets : c[i] # Anybody =>
       \A p \in DOMAIN c[i] : c[i][p].versions \in Seq([version : Version, bytes : Built])

ASSUME RefusalsDiffer == NotFound # Unavailable

VARIABLES
    catalogue,              \* the document of each registry, or Anybody
    serving                 \* the fixture set each registry serves

served == <<vars, catalogue, serving>>

-----------------------------------------------------------------------------
\* "A registry fixture cannot relabel an artifact": name and version are those
\* the built package declares.
Faithful(document) ==
    \A p \in DOMAIN document : \A k \in DOMAIN document[p].versions :
       LET ref == document[p].versions[k]
       IN  ref.bytes.content = [name |-> document[p].name, version |-> ref.version]

\* The versions of one package, ascending, equal ones as the document has them:
\* there is one such order.
Ascending(versions) ==
    LET Before(i, j) ==
            LET c == Compare(versions[i].version, versions[j].version)
            IN  c < 0 \/ (c = 0 /\ i < j)
        orders == {order \in Bijection(DOMAIN versions, DOMAIN versions) :
                      \A m, n \in DOMAIN order : m < n => Before(order[m], order[n])}
    IN  {[k \in DOMAIN versions |-> versions[order[k]]] : order \in orders}

Names(document) == {document[p].name : p \in DOMAIN document}

\* RegistrySet and Sort: what is served of each name.  Of two packages with one
\* name only the first is ever found, and the sort leaves open which that is.
FixtureSets(document) ==
    {set \in [Names(document) -> UNION {Ascending(document[p].versions) : p \in DOMAIN document}] :
       \A n \in Names(document) : \E p \in DOMAIN document :
          document[p].name = n /\ set[n] \in Ascending(document[p].versions)}

\* A registry whose document is refused does not start.
Serves(document) ==
    IF document = Anybody THEN {Anybody}
    ELSE IF Faithful(document) THEN FixtureSets(document)
    ELSE {Down}

ServedInit ==
    /\ Init
    /\ catalogue \in Catalogues
    /\ serving \in [DOMAIN RegistrySets -> UNION {Serves(catalogue[i]) : i \in DOMAIN RegistrySets}]
    /\ \A i \in DOMAIN RegistrySets : serving[i] \in Serves(catalogue[i])

-----------------------------------------------------------------------------
\* The metadata endpoint: every version of a name, with its true size and digest.
Metadata(set, name) ==
    IF name \notin DOMAIN set THEN NotFound
    ELSE [k \in DOMAIN set[name] |->
            [version |-> set[name][k].version, size |-> set[name][k].bytes.size,
             digest |-> set[name][k].bytes.digest]]

\* No fixture set is taken for one of the markers, and a registry's metadata is
\* a document as any other.
ASSUME ServedIsListed ==
    \A c \in Catalogues : \A i \in DOMAIN RegistrySets : c[i] # Anybody /\ Faithful(c[i]) =>
       \A set \in FixtureSets(c[i]) :
          /\ set \notin {Anybody, Down}
          /\ \A n \in DOMAIN set : Metadata(set, n) \in Listings

Carrying(set, name, version) ==
    IF name \notin DOMAIN set THEN {}
    ELSE {k \in DOMAIN set[name] : set[name][k].version = version}

\* Mutant: the last artifact of a version is sent, not the first.
ArtifactLast(set, name, version) ==
    LET found == Carrying(set, name, version)
    IN  IF found = {} THEN NotFound
        ELSE set[name][CHOOSE k \in found : \A j \in found : j <= k].bytes

\* The artifact endpoint: the first artifact of that version.
Artifact(set, name, version) ==
    LET found == Carrying(set, name, version)
    IN  IF found = {} THEN NotFound
        ELSE set[name][CHOOSE k \in found : \A j \in found : k <= j].bytes

\* The registries at the url the policy's bound source has.
Dialled ==
    {i \in DOMAIN RegistrySets :
       \E k \in DOMAIN input.policy.sources :
          /\ input.policy.sources[k].id = res.policy.bound
          /\ input.policy.sources[k].url = RegistrySets[i].url}

\* What registries of ours serve there.
Sets == {serving[i] : i \in Dialled} \ {Anybody, Down}

\* No answer comes, or one of somebody else's.
Unknown(answer) ==
    \/ answer = Unavailable
    \/ Dialled = {}
    \/ \E i \in Dialled : serving[i] = Anybody

AskMetadata(answer) ==
    /\ Unknown(answer) \/ \E set \in Sets : answer = Metadata(set, dep.name)
    /\ ReceiveMetadata(answer)

FetchArtifact(answer) ==
    /\ Unknown(answer) \/ \E set \in Sets : answer = Artifact(set, dep.name, res.locked.version)
    /\ ReceiveArtifact(answer)

ServedNext ==
    /\ \/ EvaluatePolicy
       \/ CheckLock
       \/ QueryMetadata
       \/ pc = "metadata" /\ \E answer \in Refusals \cup Listings : AskMetadata(answer)
       \/ pc = "artifact" /\ \E answer \in Refusals \cup Blobs : FetchArtifact(answer)
    /\ UNCHANGED <<catalogue, serving>>

ServedSpec == ServedInit /\ [][ServedNext]_served

\* As in Resolver: the client gives up after its timeout.
ServedFairSpec == ServedSpec /\ WF_served(ServedNext)

-----------------------------------------------------------------------------
\* The documents of the resolution under way passed ValidateConsistency, which
\* also makes the fixture set of every source, and every registry is ours.
Checked ==
    /\ \E v \in BOOLEAN : ValidateConsistency({ThisScenario(v)})
    /\ \A i \in DOMAIN RegistrySets : catalogue[i] # Anybody
    /\ \A k \in DOMAIN input.policy.sources : \A i \in DOMAIN RegistrySets :
          RegistrySets[i].url = input.policy.sources[k].url => Faithful(catalogue[i])

\* The bound source's document publishes these bytes as what is locked.
Publish(bytes) ==
    \E i \in Dialled : \E p \in DOMAIN catalogue[i] :
       /\ catalogue[i][p].name = res.locked.name
       /\ \E k \in DOMAIN catalogue[i][p].versions :
             catalogue[i][p].versions[k] = [version |-> res.locked.version, bytes |-> bytes]

NamedTwice ==
    \E i \in Dialled : \E p, q \in DOMAIN catalogue[i] :
       p # q /\ catalogue[i][p].name = res.locked.name /\ catalogue[i][q].name = res.locked.name

\* A scenario that passed validation, against registries of this repository that
\* answer, delivers, unless its mapping is pooled or its declared range
\* excludes the lock, or:
\*   - the bound source does not publish what is locked, or lists its name
\*     twice, and says so when it is asked what it carries: what it lists it has;
\*   - it publishes other bytes under the locked name and version, and what it
\*     listed said that they are others: what it lists is what it sends, through
\*     two sorts and two lookups by version.
CheckedScenariosDeliver ==
    pc = "done" /\ Checked =>
       \/ failure = NoFailure
       \/ failure.class \in {"REGISTRY_UNAVAILABLE", "SOURCE_POLICY_NOT_EXCLUSIVE",
                             "LOCK_RANGE_CONFLICT"}
       \/ /\ failure = [class |-> "ARTIFACT_UNAVAILABLE", stage |-> "registry_query"]
          /\ NamedTwice \/ ~(\E b \in Built : Publish(b))
       \/ /\ failure.stage = "integrity"
          /\ res.selected.digest # res.locked.digest
          /\ \E b \in Built : Publish(b) /\ b.digest = res.selected.digest
=============================================================================
