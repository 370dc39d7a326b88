------------------------------ MODULE Resolver ------------------------------
(***************************************************************************)
(* internal/resolver: the secure resolution of one dependency.             *)
(*                                                                         *)
(* Resolve runs straight through; it stops only to wait for a registry.    *)
(* An action is the code between two such waits, or one numbered step of   *)
(* the function where nothing is waited for.  The registries are not       *)
(* trusted: any answer may come to any question (a missing answer is the   *)
(* client's timeout, a registry that is Unavailable).                      *)
(***************************************************************************)
EXTENDS SourcePolicy, Lockfile

CONSTANTS
    Inputs,                 \* documents: [policy, lock, dep]
    Listings,               \* metadata documents: sequences of offers
    Blobs,                  \* artifact bytes: [size, digest, content]
    Malformed,              \* the content pkgarchive.Parse refuses to read
    NotFound, Unavailable,  \* the answers that are not documents
    None                    \* a field not filled in

\* SHA-256 identifies bytes.
ASSUME DigestIdentifiesBytes == \A a, b \in Blobs : a.digest = b.digest => a = b

ASSUME NoneIsNoBlob == None \notin Blobs

LockObjections == {"LOCK_NAME_MISMATCH", "LOCK_SOURCE_MISMATCH", "LOCK_RANGE_CONFLICT"}

ASSUME NoneIsNoClass == None \notin LockObjections \cup {"verified"}

\* Every offer of a listing is one.
ASSUME OffersAreFilledIn == \A l \in Listings : \A k \in DOMAIN l : l[k] # None

ASSUME RefusalsAreNoDocuments == {NotFound, Unavailable} \cap (Listings \cup Blobs) = {}

VARIABLES
    input,                  \* the policy, the lock and the declared dependency
    pc,                     \* the next step of Resolve
    res,                    \* the Resolution record, filled in as steps succeed
    failure,                \* the Failure returned with it
    requests,               \* every request sent, in order
    opened                  \* every blob handed to pkgarchive.Parse

vars == <<input, pc, res, failure, requests, opened>>

dep == input.dep

NoResolution ==
    [policy |-> None, locked |-> None, queried |-> <<>>, candidates |-> <<>>,
     selected |-> None, integrity |-> None, package |-> None]

NoFailure == [class |-> "none", stage |-> "none"]

Stages == {"source_policy", "lock", "registry_query", "artifact_fetch", "integrity",
           "artifact_parse"}

Init ==
    /\ input \in Inputs
    /\ pc = "policy"
    /\ res = NoResolution
    /\ failure = NoFailure
    /\ requests = <<>>
    /\ opened = {}

\* Mutant: the failure is recorded and the function goes on.
FailWithoutReturn(class, stage) ==
    /\ pc' = pc
    /\ failure' = [class |-> class, stage |-> stage]

Fail(class, stage) ==
    /\ pc' = "done"
    /\ failure' = [class |-> class, stage |-> stage]

Proceed(next) == pc' = next /\ UNCHANGED failure

PolicyClass(verdict) ==
    CASE verdict = "invalid"    -> "SOURCE_POLICY_INVALID"
      [] verdict = "unresolved" -> "SOURCE_POLICY_UNRESOLVED"
      [] verdict = "ambiguous"  -> "SOURCE_POLICY_AMBIGUOUS"

\* 1. The source policy, before anything is contacted.
EvaluatePolicy ==
    /\ pc = "policy"
    /\ LET verdict == Verdict(input.policy, dep.name)
           decision == Decision(input.policy, dep.name)
       IN  \/ /\ verdict # "decided"
              /\ Fail(PolicyClass(verdict), "source_policy")
              /\ UNCHANGED res
           \/ /\ verdict = "decided"
              /\ decision.mode # Exclusive
              /\ Fail("SOURCE_POLICY_NOT_EXCLUSIVE", "source_policy")
              /\ UNCHANGED res
           \/ /\ verdict = "decided"
              /\ decision.mode = Exclusive
              /\ res' = [res EXCEPT !.policy = decision]
              /\ Proceed("lock")
    /\ UNCHANGED <<input, requests, opened>>

LockClass(verdict) ==
    CASE verdict = "invalid"   -> "LOCK_INVALID"
      [] verdict = "missing"   -> "LOCK_MISSING"
      [] verdict = "duplicate" -> "LOCK_DUPLICATE"

\* Mutant: the lock's source is not compared with the policy's.
LockObjectionAnySource(record) ==
    IF record.name # dep.name THEN "LOCK_NAME_MISMATCH"
    ELSE IF dep.range = Unparsable THEN "LOCK_RANGE_CONFLICT"
    ELSE IF ~Satisfies(dep.range, record.version) THEN "LOCK_RANGE_CONFLICT"
    ELSE None

\* The first disagreement between the record, the dependency and the policy.
LockObjection(record) ==
    IF record.name # dep.name THEN "LOCK_NAME_MISMATCH"
    ELSE IF record.source # res.policy.bound THEN "LOCK_SOURCE_MISMATCH"
    ELSE IF dep.range = Unparsable THEN "LOCK_RANGE_CONFLICT"
    ELSE IF ~Satisfies(dep.range, record.version) THEN "LOCK_RANGE_CONFLICT"
    ELSE None

\* 2. The lock, before anything is fetched.
CheckLock ==
    /\ pc = "lock"
    /\ LET verdict == LockVerdict(input.lock, dep.alias)
           record == TheRecord(input.lock, dep.alias)
       IN  \/ /\ verdict # "found"
              /\ Fail(LockClass(verdict), "lock")
              /\ UNCHANGED res
           \/ /\ verdict = "found"
              /\ res' = [res EXCEPT !.locked = record]
              /\ IF LockObjection(record) = None
                 THEN Proceed("query")
                 ELSE Fail(LockObjection(record), "lock")
    /\ UNCHANGED <<input, requests, opened>>

Ask(kind, version) ==
    requests' = Append(requests, [kind |-> kind, source |-> res.policy.bound,
                                  name |-> dep.name, version |-> version])

\* 3. The bound source is dialled and asked what it carries.
QueryMetadata ==
    /\ pc = "query"
    /\ \/ /\ Fail("REGISTRY_UNAVAILABLE", "registry_query")
          /\ UNCHANGED <<res, requests>>
       \/ /\ res' = [res EXCEPT !.queried = <<res.policy.bound>>]
          /\ Ask("metadata", None)
          /\ Proceed("metadata")
    /\ UNCHANGED <<input, opened>>

\* Parsable offers, the highest version first, otherwise as the source listed
\* them (they all come from the one source): there is one such order.
OrderCandidates(listing) ==
    LET offered == {i \in DOMAIN listing : listing[i].version # Unparsable}
        Before(i, j) ==
            LET c == Compare(listing[i].version, listing[j].version)
            IN  c > 0 \/ (c = 0 /\ i < j)
        orders == {order \in Bijection(1..Cardinality(offered), offered) :
                      \A m, n \in DOMAIN order : m < n => Before(order[m], order[n])}
    IN  {[k \in DOMAIN order |-> listing[order[k]]] : order \in orders}

\* Mutant: the highest offer is selected, as a resolver without a lock would.
OfferingHighest(candidates, version) == {i \in DOMAIN candidates : i = 1}

Offering(candidates, version) ==
    {i \in DOMAIN candidates : candidates[i].version = version}

FirstOffering(candidates, version) ==
    candidates[CHOOSE i \in Offering(candidates, version) :
                  \A j \in Offering(candidates, version) : i <= j]

\* 4. The locked version is selected among the candidates, and asked for.
SelectLocked(candidates) ==
    LET version == res.locked.version
    IN  \/ /\ Offering(candidates, version) = {}
           /\ res' = [res EXCEPT !.candidates = candidates]
           /\ Fail("ARTIFACT_UNAVAILABLE", "registry_query")
           /\ UNCHANGED requests
        \/ /\ Offering(candidates, version) # {}
           /\ res' = [res EXCEPT !.candidates = candidates,
                                 !.selected = FirstOffering(candidates, version)]
           /\ Ask("artifact", version)
           /\ Proceed("artifact")

ReceiveMetadata(answer) ==
    /\ pc = "metadata"
    /\ \/ /\ answer = NotFound
          /\ Fail("ARTIFACT_UNAVAILABLE", "registry_query")
          /\ UNCHANGED <<res, requests>>
       \/ /\ answer = Unavailable
          /\ Fail("REGISTRY_UNAVAILABLE", "registry_query")
          /\ UNCHANGED <<res, requests>>
       \/ /\ answer \in Listings
          /\ \E candidates \in OrderCandidates(answer) : SelectLocked(candidates)
    /\ UNCHANGED <<input, opened>>

IntegrityClass(verdict) ==
    CASE verdict = "size"   -> "ARTIFACT_SIZE_MISMATCH"
      [] verdict = "digest" -> "ARTIFACT_DIGEST_MISMATCH"

\* Mutant: the package's own name and version are not compared.
OpenUnnamed(blob) ==
    /\ opened' = opened \cup {blob}
    /\ IF blob.content = Malformed
       THEN /\ res' = [res EXCEPT !.integrity = "verified"]
            /\ Fail("ARTIFACT_MALFORMED", "artifact_parse")
       ELSE /\ res' = [res EXCEPT !.integrity = "verified", !.package = blob]
            /\ Proceed("done")

\* 6. Verified bytes are read as data; the manifest must say what the lock says.
Open(blob) ==
    /\ opened' = opened \cup {blob}
    /\ IF blob.content = Malformed
       THEN /\ res' = [res EXCEPT !.integrity = "verified"]
            /\ Fail("ARTIFACT_MALFORMED", "artifact_parse")
       ELSE IF blob.content.name # dep.name \/ blob.content.version # res.locked.version
       THEN /\ res' = [res EXCEPT !.integrity = "verified"]
            /\ Fail("MANIFEST_MISMATCH", "artifact_parse")
       ELSE /\ res' = [res EXCEPT !.integrity = "verified", !.package = blob]
            /\ Proceed("done")

\* 5. Size, then digest, before the content is looked at.
ReceiveArtifact(answer) ==
    /\ pc = "artifact"
    /\ \/ /\ answer = NotFound
          /\ Fail("ARTIFACT_UNAVAILABLE", "artifact_fetch")
          /\ UNCHANGED <<res, opened>>
       \/ /\ answer = Unavailable
          /\ Fail("REGISTRY_UNAVAILABLE", "artifact_fetch")
          /\ UNCHANGED <<res, opened>>
       \/ /\ answer \in Blobs
          /\ VerifyBytes(res.locked, answer) # "verified"
          /\ Fail(IntegrityClass(VerifyBytes(res.locked, answer)), "integrity")
          /\ UNCHANGED <<res, opened>>
       \/ /\ answer \in Blobs
          /\ VerifyBytes(res.locked, answer) = "verified"
          /\ Open(answer)
    /\ UNCHANGED <<input, requests>>

Refusals == {NotFound, Unavailable}

Next ==
    \/ EvaluatePolicy
    \/ CheckLock
    \/ QueryMetadata
    \/ \E answer \in Refusals \cup Listings : ReceiveMetadata(answer)
    \/ \E answer \in Refusals \cup Blobs : ReceiveArtifact(answer)

Spec == Init /\ [][Next]_vars

\* Every wait for a registry ends: the client gives up after its timeout.
FairSpec == Spec /\ WF_vars(Next)

-----------------------------------------------------------------------------
(***************************************************************************)
(* What the documents say, without the steps that read them.               *)
(***************************************************************************)

\* Of all the policy's mappings exactly one covers the declared name, and it
\* binds the name to the source s alone.
Binds(i, s) ==
    /\ Valid(i.policy)
    /\ \E k \in DOMAIN i.policy.mappings :
          /\ i.policy.mappings[k].mode = Exclusive
          /\ i.policy.mappings[k].source = s
          /\ \A j \in DOMAIN i.policy.mappings :
                Matches(i.policy.mappings[j].pattern, i.dep.name) <=> j = k

\* The lock holds r and no other record for the declared alias.
Pins(i, r) ==
    /\ ValidLock(i.lock)
    /\ \E k \in DOMAIN i.lock.records :
          /\ i.lock.records[k] = r
          /\ \A j \in DOMAIN i.lock.records : i.lock.records[j].alias = i.dep.alias <=> j = k

\* The policy, the lock and the declared dependency name one artifact.
Agree(i, r) ==
    /\ Binds(i, r.source)
    /\ Pins(i, r)
    /\ r.name = i.dep.name
    /\ i.dep.range # Unparsable
    /\ Satisfies(i.dep.range, r.version)

PinnedBytes(r, b) == b.size = r.size /\ b.digest = r.digest

Acceptable(i, b) ==
    \E k \in DOMAIN i.lock.records :
       LET r == i.lock.records[k]
       IN  /\ Agree(i, r)
           /\ PinnedBytes(r, b)
           /\ b.content # Malformed
           /\ b.content.name = i.dep.name
           /\ b.content.version = r.version

-----------------------------------------------------------------------------
Steps == {"policy", "lock", "query", "metadata", "artifact", "done"}

Records == UNION {{i.lock.records[k] : k \in DOMAIN i.lock.records} : i \in Inputs}

Requests ==
    [kind : {"metadata", "artifact"}, source : UNION {SourceIds(i.policy) : i \in Inputs},
     name : {i.dep.name : i \in Inputs}, version : {r.version : r \in Records} \cup {None}]

\* Type correctness of the Resolution record and of the evidence kept with it.
TypeOK ==
    /\ input \in Inputs
    /\ pc \in Steps
    /\ DOMAIN res = DOMAIN NoResolution
    /\ res.policy = None \/ res.policy = Decision(input.policy, dep.name)
    /\ res.locked \in Records \cup {None}
    /\ res.integrity \in {None, "verified"}
    /\ res.package \in Blobs \cup {None}
    /\ failure = NoFailure \/ (failure.stage \in Stages /\ pc = "done")
    /\ requests \in Seq(Requests)
    /\ opened \in SUBSET Blobs

\* No registry hears of a dependency before policy, lock and declaration agree
\* on it, and then only the source they agree on does, about that name and, for
\* an artifact, that version (resolver.go: "Query exactly one source").
EveryRequestIsAuthorised ==
    \A n \in DOMAIN requests :
       \E k \in DOMAIN input.lock.records :
          LET r == input.lock.records[k]
          IN  /\ Agree(input, r)
              /\ requests[n].source = r.source
              /\ requests[n].name = r.name
              /\ requests[n].kind = "artifact" => requests[n].version = r.version

\* Bytes are interpreted only when the one lock record has their size and
\* digest, whatever a registry answered ("verify size and digest before reading
\* content").
OnlyPinnedBytesAreOpened ==
    \A b \in opened :
       \E k \in DOMAIN input.lock.records :
          Pins(input, input.lock.records[k]) /\ PinnedBytes(input.lock.records[k], b)

\* The returned record tells how far the resolution really got: nothing was
\* asked before registry_query, no artifact before artifact_fetch, no bytes were
\* read before artifact_parse, and what was selected is the locked version.
RecordTellsHowFar ==
    pc = "done" =>
       LET asked == {requests[n].kind : n \in DOMAIN requests}
           stage == failure.stage
       IN  /\ stage \in {"source_policy", "lock"} => asked = {} /\ res.queried = <<>>
           /\ stage = "registry_query" => "artifact" \notin asked /\ res.selected = None
           /\ stage \in {"artifact_fetch", "integrity"} =>
                 "artifact" \in asked /\ res.selected # None
           /\ stage \in {"artifact_parse", "none"} <=> opened # {}
           /\ res.selected # None => res.selected.version = res.locked.version
           /\ res.integrity = "verified" <=> opened # {}
           /\ res.package # None <=> stage = "none"

Outcome == IF pc # "done" THEN "pending" ELSE IF failure = NoFailure THEN "delivered" ELSE "refused"

Promise == INSTANCE Pinned WITH Undelivered <- None, outcome <- Outcome, artifact <- res.package

\* The resolver implements its promise: it delivers only an artifact the
\* documents accept, and it always ends.
KeepsPromise == Promise!FairSpec
=============================================================================
