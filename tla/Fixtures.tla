------------------------------ MODULE Fixtures ------------------------------
(***************************************************************************)
(* internal/fixtures: what ValidateConsistency demands of the scenarios    *)
(* checked in together, and what a scenario that passed it can rely on.    *)
(*                                                                         *)
(* A scenario holds the documents its fields name; a name no document is   *)
(* checked in under is an error of the loader and is left out.             *)
(***************************************************************************)
EXTENDS Resolver

CONSTANTS
    RegistrySets,           \* the registries: a sequence of [url, role, vulnerable]
    Built,                  \* what BuildPackage makes of the package sources
    Project                 \* the name of the project a manifest is for

\* BuildPackage returns only what pkgarchive.Build made of valid documents, and
\* Parse reads that back (MCPkgArchive!AcceptsExactlyTheBuilt).
ASSUME BuiltArtifactsParse == \A b \in Built : b.content # Malformed

\* What is built is bytes as a registry could send them.
ASSUME BuiltArtifactsAreBytes == Built \subseteq Blobs

\* RegistryURLs: no two registries are served at one url.
OneRegistryPerUrl ==
    \A i, j \in DOMAIN RegistrySets : RegistrySets[i].url = RegistrySets[j].url => i = j

\* buildmanifest.Validate.
ValidManifest(m) ==
    /\ m.formatKnown
    /\ m.project # Unset
    /\ m.dependencies # <<>>
    /\ \A i \in DOMAIN m.dependencies :
          LET d == m.dependencies[i]
          IN  d.alias # Unset /\ d.name # Unset /\ d.range # Unparsable
    /\ \A i, j \in DOMAIN m.dependencies :
          m.dependencies[i].alias = m.dependencies[j].alias => i = j

\* SourcePolicy, BuildManifest and Lock: a document that is not valid is not loaded.
Loads(s) == Valid(s.policy) /\ ValidManifest(s.manifest) /\ ValidLock(s.lock)

ResolverKnown(s) ==
    \/ s.resolver = "secure"
    \/ s.resolver = "combined-index" /\ s.vulnerable

\* The source is served, in the role it claims, and an ordinary scenario's by no
\* registry of the vulnerable half.
SourceServed(s, source) ==
    \E i \in DOMAIN RegistrySets :
       /\ RegistrySets[i].url = source.url
       /\ RegistrySets[i].role = source.role
       /\ RegistrySets[i].vulnerable => s.vulnerable

\* Mutant: a lock record need not match anything that can be built.
DependencyLockedUnbuilt(s, d) ==
    LET record == TheRecord(s.lock, d.alias)
    IN  /\ LockVerdict(s.lock, d.alias) = "found"
        /\ record.name = d.name
        /\ Verdict(s.policy, d.name) = "decided"
        /\ LET decision == Decision(s.policy, d.name)
           IN  decision.mode = Exclusive => decision.bound = record.source

\* The lock pins the dependency by its name, to the source the policy binds it
\* to, and to an artifact that can be built; the declared range is not asked.
DependencyLocked(s, d) ==
    LET record == TheRecord(s.lock, d.alias)
    IN  /\ LockVerdict(s.lock, d.alias) = "found"
        /\ record.name = d.name
        /\ Verdict(s.policy, d.name) = "decided"
        /\ LET decision == Decision(s.policy, d.name)
           IN  decision.mode = Exclusive => decision.bound = record.source
        /\ \E b \in Built :
              /\ b.content = [name |-> record.name, version |-> record.version]
              /\ b.size = record.size
              /\ b.digest = record.digest

ValidateConsistency(scenarios) ==
    /\ OneRegistryPerUrl
    /\ \A s, t \in scenarios : s.id = t.id => s = t
    /\ \A s \in scenarios :
          /\ ResolverKnown(s)
          /\ Loads(s)
          /\ \A i \in DOMAIN s.policy.sources : SourceServed(s, s.policy.sources[i])
          /\ \A i \in DOMAIN s.manifest.dependencies :
                DependencyLocked(s, s.manifest.dependencies[i])

-----------------------------------------------------------------------------
\* A scenario with the documents of the resolution under way.
ThisScenario(vulnerable) ==
    [id |-> "this", resolver |-> "secure", vulnerable |-> vulnerable, policy |-> input.policy,
     manifest |-> [formatKnown |-> TRUE, project |-> Project, dependencies |-> <<dep>>],
     lock |-> input.lock]

\* What checked-in documents that passed validation can still fail on: a pooled
\* mapping, the declared range, and what a registry answers; never on any other
\* point of a document, and never on bytes that matched the lock, whoever sent
\* them ("the checked-in fixtures agree with each other").
ValidatedScenariosFailOnlyOnAnswers ==
    pc = "done" /\ (\E v \in BOOLEAN : ValidateConsistency({ThisScenario(v)})) =>
       \/ failure = NoFailure
       \/ failure.stage \in {"registry_query", "artifact_fetch", "integrity"}
       \/ failure.class \in {"SOURCE_POLICY_NOT_EXCLUSIVE", "LOCK_RANGE_CONFLICT"}
=============================================================================
