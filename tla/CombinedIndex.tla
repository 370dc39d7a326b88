---------------------------- MODULE CombinedIndex ---------------------------
(***************************************************************************)
(* internal/combinedindex: the intentionally vulnerable resolution of one  *)
(* dependency, with no lock.  It asks every source of the name's pool, in  *)
(* the pool's order, and takes the highest compatible version any of them  *)
(* offers.  The registries are as in Resolver: any answer may come to any  *)
(* question.                                                               *)
(***************************************************************************)
EXTENDS SourcePolicy, Semver, FiniteSets, Functions

CONSTANTS
    Inputs,                 \* [policy, dep, acknowledged]
    Listings,               \* metadata documents: sequences of offers
    Blobs,                  \* artifact bytes: [size, digest, content]
    Unparsable,             \* any spelling of a version or range that is refused
    Malformed,              \* the content pkgarchive.Parse refuses to read
    NotFound, Unavailable,  \* the answers that are not documents
    None                    \* a field not filled in

ASSUME RefusalsAreNoDocuments == {NotFound, Unavailable} \cap (Listings \cup Blobs) = {}

\* Every name has a pool, in an order; every listing is one of offers.
ASSUME PoolsAreLists ==
    \A i \in Inputs : \A k \in DOMAIN i.policy.mappings :
       i.policy.mappings[k].sources \in Seq(ToSet(i.policy.mappings[k].sources))

ASSUME ListingsAreLists ==
    \A l \in Listings :
       l \in Seq(ToSet(l)) /\ \A k \in DOMAIN l : l[k].version \in Version \cup {Unparsable}

VARIABLES
    input,                  \* the policy, the declared dependency, the opt-in
    pc,                     \* the next step of Resolve
    rank,                   \* the place in the pool of the source being asked
    offers,                 \* what the sources asked so far offer
    res,                    \* the Resolution record
    failure,                \* the Failure returned with it
    answers,                \* every metadata answer taken, by rank
    requests                \* every request sent, in order

vars == <<input, pc, rank, offers, res, failure, answers, requests>>

dep == input.dep

NoResolution ==
    [policy |-> None, queried |-> <<>>, candidates |-> <<>>, selected |-> None,
     integrity |-> None, package |-> None]

NoFailure == [class |-> "none", stage |-> "none"]

Init ==
    /\ input \in Inputs
    /\ pc = "gate"
    /\ rank = 1
    /\ offers = {}
    /\ res = NoResolution
    /\ failure = NoFailure
    /\ answers = <<>>
    /\ requests = <<>>

Fail(class, stage) ==
    /\ pc' = "done"
    /\ failure' = [class |-> class, stage |-> stage]

Proceed(next) == pc' = next /\ UNCHANGED failure

\* vulnerable.Gate: without both opt-in controls nothing happens, and what is
\* returned is no Failure.
PassGate ==
    /\ pc = "gate"
    /\ Proceed(IF input.acknowledged THEN "policy" ELSE "error")
    /\ UNCHANGED <<input, rank, offers, res, answers, requests>>

PolicyClass(verdict) ==
    CASE verdict = "invalid"    -> "SOURCE_POLICY_INVALID"
      [] verdict = "unresolved" -> "SOURCE_POLICY_UNRESOLVED"
      [] verdict = "ambiguous"  -> "SOURCE_POLICY_AMBIGUOUS"

\* Any decided mapping will do, an exclusive one's pool being its one source.
EvaluatePolicy ==
    /\ pc = "policy"
    /\ LET verdict == Verdict(input.policy, dep.name)
       IN  \/ /\ verdict # "decided"
              /\ Fail(PolicyClass(verdict), "source_policy")
              /\ UNCHANGED res
           \/ /\ verdict = "decided"
              /\ res' = [res EXCEPT !.policy = Decision(input.policy, dep.name)]
              /\ IF dep.range = Unparsable
                 THEN Fail("SOURCE_POLICY_INVALID", "source_policy")
                 ELSE Proceed("ask")
    /\ UNCHANGED <<input, rank, offers, answers, requests>>

pool == res.policy.pool

Ask(kind, source, version) ==
    requests' = Append(requests, [kind |-> kind, source |-> source,
                                  name |-> dep.name, version |-> version])

\* The next source of the pool is dialled and asked what it carries.
QueryMetadata ==
    /\ pc = "ask"
    /\ rank <= Len(pool)
    /\ \/ /\ Fail("REGISTRY_UNAVAILABLE", "registry_query")
          /\ UNCHANGED <<res, requests>>
       \/ /\ res' = [res EXCEPT !.queried = Append(@, pool[rank])]
          /\ Ask("metadata", pool[rank], None)
          /\ Proceed("metadata")
    /\ UNCHANGED <<input, rank, offers, answers>>

\* The parsable, compatible versions of a listing, each with its place in it.
Compatible(listing) ==
    {[source |-> pool[rank], rank |-> rank, place |-> i, version |-> listing[i].version,
      size |-> listing[i].size, digest |-> listing[i].digest] :
        i \in {i \in DOMAIN listing : /\ listing[i].version # Unparsable
                                     /\ Satisfies(dep.range, listing[i].version)}}

\* Mutant: a source that cannot be reached is passed over like one that does
\* not carry the name.
ReceiveMetadataLeniently(answer) ==
    /\ pc = "metadata"
    /\ offers' = IF answer \in Listings THEN offers \cup Compatible(answer) ELSE offers
    /\ answers' = Append(answers, answer)
    /\ rank' = rank + 1
    /\ Proceed("ask")
    /\ UNCHANGED <<input, res, requests>>

\* Mutant: the source is asked again when it does not carry the name.
ReceiveMetadataRetrying(answer) ==
    /\ pc = "metadata"
    /\ Len(requests) <= 3
    /\ answer \in Listings \cup {NotFound}
    /\ Proceed("ask")
    /\ IF answer = NotFound
       THEN UNCHANGED <<offers, rank, answers>>
       ELSE /\ offers' = offers \cup Compatible(answer)
            /\ answers' = Append(answers, answer)
            /\ rank' = rank + 1
    /\ UNCHANGED <<input, res, requests>>

\* A source that does not carry the name offers nothing; any other missing
\* answer ends the resolution.
ReceiveMetadata(answer) ==
    /\ pc = "metadata"
    /\ IF answer = Unavailable
       THEN /\ Fail("REGISTRY_UNAVAILABLE", "registry_query")
            /\ UNCHANGED <<offers, rank, answers>>
       ELSE /\ offers' = IF answer = NotFound THEN offers ELSE offers \cup Compatible(answer)
            /\ answers' = Append(answers, answer)
            /\ rank' = rank + 1
            /\ Proceed("ask")
    /\ UNCHANGED <<input, res, requests>>

\* Mutant: the source listed first is preferred to the higher version.
BeforeByRank(o, p) ==
    LET c == Compare(o.version, p.version)
    IN  \/ o.rank < p.rank
        \/ o.rank = p.rank /\ (c > 0 \/ (c = 0 /\ o.place < p.place))

\* The merged order: version first, then the pool's order; one source's equal
\* offers stay as it listed them.
Before(o, p) ==
    LET c == Compare(o.version, p.version)
    IN  \/ c > 0
        \/ c = 0 /\ o.rank < p.rank
        \/ c = 0 /\ o.rank = p.rank /\ o.place < p.place

\* The offers in that order: there is one such sequence.
Merges(offered) ==
    {merged \in Bijection(1..Cardinality(offered), offered) :
       \A i, j \in DOMAIN merged : i < j => Before(merged[i], merged[j])}

\* The first of the merged offers is selected and its source dialled and asked
\* for it.
Take(merged) ==
    /\ res' = [res EXCEPT !.candidates = merged, !.selected = merged[1]]
    /\ \/ Fail("REGISTRY_UNAVAILABLE", "artifact_fetch") /\ UNCHANGED requests
       \/ /\ Ask("artifact", merged[1].source, merged[1].version)
          /\ Proceed("artifact")

\* Mutant: finding nothing is not provided for.
SelectSomething ==
    /\ pc = "ask"
    /\ rank > Len(pool)
    /\ offers # {}
    /\ \E merged \in Merges(offers) : Take(merged)
    /\ UNCHANGED <<input, rank, offers, answers>>

\* Every source has been asked.
Select ==
    /\ pc = "ask"
    /\ rank > Len(pool)
    /\ \/ /\ offers = {}
          /\ Fail("NO_COMPATIBLE_CANDIDATE", "registry_query")
          /\ UNCHANGED <<res, requests>>
       \/ /\ offers # {}
          /\ \E merged \in Merges(offers) : Take(merged)
    /\ UNCHANGED <<input, rank, offers, answers>>

\* Whatever bytes come are read as data; nothing is compared with anything.
ReceiveArtifact(answer) ==
    /\ pc = "artifact"
    /\ \/ /\ answer = NotFound
          /\ Fail("ARTIFACT_UNAVAILABLE", "artifact_fetch")
          /\ UNCHANGED res
       \/ /\ answer = Unavailable
          /\ Fail("REGISTRY_UNAVAILABLE", "artifact_fetch")
          /\ UNCHANGED res
       \/ /\ answer \in Blobs
          /\ answer.content = Malformed
          /\ res' = [res EXCEPT !.integrity = "unverified"]
          /\ Fail("ARTIFACT_MALFORMED", "artifact_parse")
       \/ /\ answer \in Blobs
          /\ answer.content # Malformed
          /\ res' = [res EXCEPT !.integrity = "unverified", !.package = answer]
          /\ Proceed("done")
    /\ UNCHANGED <<input, rank, offers, answers, requests>>

Refusals == {NotFound, Unavailable}

Next ==
    \/ PassGate
    \/ EvaluatePolicy
    \/ QueryMetadata
    \/ \E answer \in Refusals \cup Listings : ReceiveMetadata(answer)
    \/ Select
    \/ \E answer \in Refusals \cup Blobs : ReceiveArtifact(answer)

Spec == Init /\ [][Next]_vars

\* Every wait for a registry ends: the client gives up after its timeout.
FairSpec == Spec /\ WF_vars(Next)

-----------------------------------------------------------------------------
\* Each pooled source is asked at most once, in the pool's order, and no other
\* source hears of the dependency; the record lists those asked; the one fetch
\* comes after them; the opt-in came first ("it asks every source in a combined
\* pool").
AsksThePoolInOrder ==
    /\ requests # <<>> => input.acknowledged
    /\ \A k \in DOMAIN res.queried : k <= Len(pool) /\ res.queried[k] = pool[k]
    /\ Len(requests) \in {Len(res.queried), Len(res.queried) + 1}
    /\ \A k \in DOMAIN requests :
          IF k <= Len(res.queried)
          THEN requests[k].kind = "metadata" /\ requests[k].source = res.queried[k]
          ELSE requests[k].kind = "artifact"
    /\ \A k \in DOMAIN requests : requests[k].source \notin res.policy.excluded

\* A selection is made only with every pooled source's own answer in hand: one
\* that cannot be reached ends the resolution, it is never passed over for the
\* next (the continue of combinedindex.go is for a 404 alone).
EverySourceAnsweredFirst ==
    res.selected # None =>
       /\ res.queried = pool
       /\ Len(answers) = Len(pool)
       /\ Unavailable \notin ToSet(answers)

\* What the k-th source offers, according to the answer it gave.
OfferedBy(k) ==
    IF answers[k] = NotFound THEN {}
    ELSE {v \in ToSet(answers[k]) : v.version # Unparsable /\ Satisfies(dep.range, v.version)}

\* The selected version is the highest compatible one that any pooled source
\* offers, of the first source in the pool that offers it: exactly the rule the
\* transcript prints (SelectionRule).
SelectsTheHighest ==
    res.selected # None =>
       /\ \A k \in DOMAIN answers, s \in {res.selected} : \A v \in OfferedBy(k) :
             \/ Compare(s.version, v.version) > 0
             \/ Compare(s.version, v.version) = 0 /\ s.rank <= k
       /\ \E v \in OfferedBy(res.selected.rank) :
             v.version = res.selected.version /\ v.digest = res.selected.digest
       /\ res.selected.source = pool[res.selected.rank]

\* A resolution ends, whatever the registries answer or leave unanswered.
AlwaysEnds == <>(pc \in {"done", "error"})

\* The offers of the same answers, had the pool been listed in another order.
Reranked(order) ==
    {[o EXCEPT !.rank = CHOOSE k \in DOMAIN order : order[k] = o.rank] : o \in offers}

\* "Listing a trusted source first changes the order of these questions and
\* nothing else" (combinedindex.go): from the same answers the same source and
\* digest are selected, in whatever order the pool is listed.
PoolOrderDecidesNothing ==
    res.selected # None =>
       \A order \in SetToSeqs(DOMAIN pool) : \A merged \in Merges(Reranked(order)) :
          /\ merged[1].source = res.selected.source
          /\ merged[1].digest = res.selected.digest
=============================================================================
