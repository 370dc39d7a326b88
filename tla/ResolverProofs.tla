--------------------------- MODULE ResolverProofs ---------------------------
(***************************************************************************)
(* The secure resolver's guarantees for every set of documents, listings   *)
(* and blobs, in three parts.  What it asks and opens: two facts about     *)
(* single evaluations (a decided name is bound by the policy, a found      *)
(* record is pinned by the lock) carry an inductive invariant, that what   *)
(* Resolve holds at each step is what the documents say.  What it reports: *)
(* the same for the evidence and the lines printed of it.  And what it     *)
(* comes to with documents that passed ValidateConsistency.                *)
(***************************************************************************)
EXTENDS Trace, Registries, DocumentProofs, WellFoundedInduction

\* A set of numbers has a least one.
LEMMA Least ==
    ASSUME NEW T, T \subseteq Nat, T # {}
    PROVE  \E x \in T : \A y \in T : x <= y
  <1> DEFINE R == OpToRel(<, Nat)
  <1>1. IsWellFoundedOn(R, Nat)
    BY NatLessThanWellFounded
  <1>2. \A x, y \in Nat : y < x => <<y, x>> \in R
    BY DEF OpToRel
  <1> HIDE DEF R
  <1>3. PICK x \in T : \A y \in T : ~ (<<y, x>> \in R)
    BY <1>1, WFMin
  <1>4. ASSUME NEW y \in T PROVE x <= y
    <2>1. x \in Nat /\ y \in Nat
      OBVIOUS
    <2>2. ~ (y < x)
      BY <1>2, <1>3, <2>1
    <2>3. QED
      BY <2>1, <2>2
  <1>5. QED
    BY <1>4

\* A name decided in exclusive mode is bound by the policy document itself.
LEMMA DecidedBinds ==
    ASSUME NEW i,
           Verdict(i.policy, i.dep.name) = "decided",
           Decision(i.policy, i.dep.name).mode = Exclusive
    PROVE  /\ Binds(i, Decision(i.policy, i.dep.name).bound)
           /\ Decision(i.policy, i.dep.name).bound \in SourceIds(i.policy)
  <1> DEFINE p == i.policy
             name == i.dep.name
  <1>1. Valid(p)
    BY DEF Verdict
  <1>2. PICK k \in DOMAIN p.mappings : MatchedBy(p, name) = {k}
    BY DEF Verdict
  <1>3. TheMapping(p, name) = p.mappings[k]
    BY <1>2 DEF TheMapping
  <1>4. /\ p.mappings[k].mode = Exclusive
        /\ Decision(p, name).bound = p.mappings[k].source
    BY <1>3 DEF Decision, Exclusive, Combined
  <1>5. \A j \in DOMAIN p.mappings : Matches(p.mappings[j].pattern, name) <=> j = k
    BY <1>2 DEF MatchedBy
  <1>6. p.mappings[k].source \in SourceIds(p)
    BY <1>1, <1>4 DEF Valid, ValidMapping, Exclusive, Combined
  <1>7. QED
    BY <1>1, <1>4, <1>5, <1>6 DEF Binds

\* The record Lock.Record returns is the one the lock holds for the alias.
LEMMA FoundIsPinned ==
    ASSUME NEW i,
           LockVerdict(i.lock, i.dep.alias) = "found"
    PROVE  /\ Pins(i, TheRecord(i.lock, i.dep.alias))
           /\ \E k \in DOMAIN i.lock.records :
                 TheRecord(i.lock, i.dep.alias) = i.lock.records[k]
  <1>1. ValidLock(i.lock)
    BY DEF LockVerdict
  <1>2. PICK k \in DOMAIN i.lock.records : RecordsFor(i.lock, i.dep.alias) = {k}
    BY DEF LockVerdict
  <1>3. TheRecord(i.lock, i.dep.alias) = i.lock.records[k]
    BY <1>2 DEF TheRecord
  <1>4. \A j \in DOMAIN i.lock.records : i.lock.records[j].alias = i.dep.alias <=> j = k
    BY <1>2 DEF RecordsFor
  <1>5. QED
    BY <1>1, <1>3, <1>4 DEF Pins

-----------------------------------------------------------------------------
Held == {"lock", "query", "metadata", "artifact"}

\* After the first step, the decision in hand is the policy's.
PolicyHeld ==
    pc \in Held =>
       /\ res.policy = Decision(input.policy, dep.name)
       /\ Binds(input, res.policy.bound)
       /\ res.policy.bound \in SourceIds(input.policy)

\* After the second, the record in hand is the lock's, and all documents agree.
LockHeld ==
    pc \in Held \ {"lock"} =>
       /\ \E k \in DOMAIN input.lock.records : res.locked = input.lock.records[k]
       /\ Agree(input, res.locked)
       /\ res.locked.source = res.policy.bound

\* A package is in hand only when the documents accept its bytes.
PackageHeld ==
    /\ pc # "done" => failure = NoFailure /\ res.package = None
    /\ failure # NoFailure => res.package = None
    /\ pc = "done" /\ failure = NoFailure => res.package \in Blobs /\ Acceptable(input, res.package)

Inv ==
    /\ TypeOK
    /\ PolicyHeld
    /\ LockHeld
    /\ PackageHeld
    /\ EveryRequestIsAuthorised
    /\ OnlyPinnedBytesAreOpened

LEMMA InitInv == Init => Inv
  <1> SUFFICES ASSUME Init PROVE Inv
    OBVIOUS
  <1>1. TypeOK
    BY DEF Init, TypeOK, NoResolution, Steps
  <1>2. PolicyHeld /\ LockHeld /\ PackageHeld
    BY DEF Init, PolicyHeld, LockHeld, PackageHeld, Held, NoResolution
  <1>3. EveryRequestIsAuthorised /\ OnlyPinnedBytesAreOpened
    BY DEF Init, EveryRequestIsAuthorised, OnlyPinnedBytesAreOpened
  <1>4. QED
    BY <1>1, <1>2, <1>3 DEF Inv

\* What a step that sends and opens nothing keeps.
LEMMA QuietStep ==
    ASSUME Inv, UNCHANGED <<input, requests, opened>>
    PROVE  EveryRequestIsAuthorised' /\ OnlyPinnedBytesAreOpened'
  BY DEF Inv, EveryRequestIsAuthorised, OnlyPinnedBytesAreOpened

\* A step that returns a failure and leaves the record without a package.
LEMMA FailingStep ==
    ASSUME Inv, UNCHANGED input, pc' = "done", failure' # NoFailure,
           res'.package = None,
           TypeOK',
           EveryRequestIsAuthorised',
           OnlyPinnedBytesAreOpened'
    PROVE  Inv'
  BY DEF Inv, PolicyHeld, LockHeld, PackageHeld, Held

\* Filling in one field of the record leaves the others alone.
LEMMA PolicyStep == Inv /\ EvaluatePolicy => Inv'
  <1> SUFFICES ASSUME Inv, EvaluatePolicy PROVE Inv'
    OBVIOUS
  <1>1. /\ pc = "policy"
        /\ UNCHANGED <<input, requests, opened>>
    BY DEF EvaluatePolicy
  <1>2. EveryRequestIsAuthorised' /\ OnlyPinnedBytesAreOpened'
    BY <1>1, QuietStep
  <1>3. TypeOK /\ failure = NoFailure /\ res.package = None
    BY <1>1 DEF Inv, PackageHeld
  <1> DEFINE decision == Decision(input.policy, dep.name)
  <1>4. CASE UNCHANGED res /\ pc' = "done" /\ failure'.stage = "source_policy"
    <2>1. failure' # NoFailure
      BY <1>4 DEF NoFailure
    <2>2. TypeOK'
      BY <1>1, <1>3, <1>4 DEF TypeOK, Steps, Stages, dep
    <2>3. QED
      BY <1>1, <1>2, <1>3, <1>4, <2>1, <2>2, FailingStep
  <1>5. CASE /\ Verdict(input.policy, dep.name) = "decided"
             /\ decision.mode = Exclusive
             /\ res' = [res EXCEPT !.policy = decision]
             /\ Proceed("lock")
    <2>1. pc' = "lock" /\ failure' = NoFailure /\ res'.policy = decision /\ res'.package = None
          /\ res'.locked = res.locked /\ res'.integrity = res.integrity
          /\ DOMAIN res' = DOMAIN res
      BY <1>3, <1>5 DEF TypeOK, Proceed, NoResolution
    <2>2. Binds(input, decision.bound) /\ decision.bound \in SourceIds(input.policy)
      BY <1>5, DecidedBinds DEF dep
    <2>4. TypeOK'
      BY <1>1, <1>3, <2>1 DEF TypeOK, Steps, dep
    <2>5. PolicyHeld' /\ LockHeld' /\ PackageHeld'
      BY <1>1, <2>1, <2>2 DEF PolicyHeld, LockHeld, PackageHeld, Held, dep
    <2>6. QED
      BY <1>2, <2>4, <2>5 DEF Inv
  <1>6. QED
    BY <1>4, <1>5 DEF EvaluatePolicy, Fail

LEMMA LockStep == Inv /\ CheckLock => Inv'
  <1> SUFFICES ASSUME Inv, CheckLock PROVE Inv'
    OBVIOUS
  <1> DEFINE record == TheRecord(input.lock, dep.alias)
  <1>1. /\ pc = "lock"
        /\ UNCHANGED <<input, requests, opened>>
    BY DEF CheckLock
  <1>2. EveryRequestIsAuthorised' /\ OnlyPinnedBytesAreOpened'
    BY <1>1, QuietStep
  <1>3. TypeOK /\ PolicyHeld /\ failure = NoFailure /\ res.package = None
    BY <1>1 DEF Inv, PackageHeld
  <1>4. CASE UNCHANGED res /\ pc' = "done" /\ failure'.stage = "lock"
    <2>1. failure' # NoFailure
      BY <1>4 DEF NoFailure
    <2>2. TypeOK'
      BY <1>1, <1>3, <1>4 DEF TypeOK, Steps, Stages, dep
    <2>3. QED
      BY <1>1, <1>2, <1>3, <1>4, <2>1, <2>2, FailingStep
  <1>5. CASE /\ LockVerdict(input.lock, dep.alias) = "found"
             /\ res' = [res EXCEPT !.locked = record]
             /\ \/ LockObjection(record) = None /\ Proceed("query")
                \/ LockObjection(record) # None /\ pc' = "done" /\ failure'.stage = "lock"
    <2>1. /\ Pins(input, record)
          /\ \E k \in DOMAIN input.lock.records : record = input.lock.records[k]
      BY <1>5, FoundIsPinned DEF dep
    <2>2. record \in Records
      BY <1>3, <2>1 DEF TypeOK, Records
    <2>3. /\ res'.locked = record /\ res'.policy = res.policy /\ res'.package = None
          /\ res'.integrity = res.integrity /\ DOMAIN res' = DOMAIN res
      BY <1>3, <1>5 DEF TypeOK, NoResolution
    <2>4. CASE LockObjection(record) = None /\ Proceed("query")
      <3>1. pc' = "query" /\ failure' = NoFailure
        BY <1>3, <2>4 DEF Proceed
      <3>2. /\ record.name = dep.name
            /\ record.source = res.policy.bound
            /\ dep.range # Unparsable
            /\ Satisfies(dep.range, record.version)
        BY <2>4, NoneIsNoClass DEF LockObjection, LockObjections
      <3>3. Agree(input, record)
        BY <1>1, <1>3, <2>1, <3>2 DEF PolicyHeld, Held, Agree, dep
      <3>4. TypeOK'
        BY <1>1, <1>3, <2>2, <2>3, <3>1 DEF TypeOK, Steps, dep
      <3>5. PolicyHeld' /\ LockHeld' /\ PackageHeld'
        BY <1>1, <1>3, <2>1, <2>3, <3>1, <3>2, <3>3
           DEF PolicyHeld, LockHeld, PackageHeld, Held, dep
      <3>6. QED
        BY <1>2, <3>4, <3>5 DEF Inv
    <2>5. CASE pc' = "done" /\ failure'.stage = "lock"
      <3>1. failure' # NoFailure
        BY <2>5 DEF NoFailure
      <3>2. TypeOK'
        BY <1>1, <1>3, <2>2, <2>3, <2>5 DEF TypeOK, Steps, Stages, dep
      <3>3. QED
        BY <1>1, <1>2, <2>3, <2>5, <3>1, <3>2, FailingStep
    <2>6. QED
      BY <1>5, <2>4, <2>5
  <1>6. QED
    BY <1>4, <1>5 DEF CheckLock, Fail

\* A request for what all documents agree on is an authorised one.
LEMMA AskingIsAuthorised ==
    ASSUME NEW kind \in {"metadata", "artifact"},
           NEW version,
           Inv, pc \in Held \ {"lock"}, UNCHANGED input,
           Ask(kind, version),
           version = None \/ version = res.locked.version,
           kind = "artifact" => version = res.locked.version
    PROVE  EveryRequestIsAuthorised' /\ requests' \in Seq(Requests)
  <1> DEFINE asked == [kind |-> kind, source |-> res.policy.bound,
                       name |-> dep.name, version |-> version]
  <1>1. TypeOK /\ LockHeld /\ PolicyHeld
    BY DEF Inv
  <1>2. PICK k \in DOMAIN input.lock.records : res.locked = input.lock.records[k]
    BY <1>1 DEF LockHeld
  <1>3. /\ Agree(input, res.locked)
        /\ asked.source = res.locked.source
        /\ asked.name = res.locked.name
        /\ asked.kind = "artifact" => asked.version = res.locked.version
    BY <1>1 DEF LockHeld, Agree, dep
  <1>4. res.locked \in Records
    BY <1>1, <1>2 DEF TypeOK, Records
  <1>5. asked \in Requests
    <2>1. res.policy.bound \in UNION {SourceIds(i.policy) : i \in Inputs}
      BY <1>1 DEF PolicyHeld, TypeOK, Held
    <2>2. dep.name \in {i.dep.name : i \in Inputs}
      BY <1>1 DEF TypeOK, dep
    <2>3. QED
      BY <1>4, <2>1, <2>2 DEF Requests
  <1>6. requests' = Append(requests, asked)
    BY DEF Ask
  <1>7. requests \in Seq(Requests)
    BY <1>1 DEF TypeOK
  <1>8. requests' \in Seq(Requests)
    BY <1>5, <1>6, <1>7
  <1>9. ASSUME NEW n \in DOMAIN requests'
        PROVE  \E j \in DOMAIN input.lock.records :
                  LET r == input.lock.records[j]
                  IN  /\ Agree(input, r)
                      /\ requests'[n].source = r.source
                      /\ requests'[n].name = r.name
                      /\ requests'[n].kind = "artifact" => requests'[n].version = r.version
    <2>1. CASE n = Len(requests) + 1
      <3>1. requests'[n] = asked
        BY <1>6, <1>7, <2>1
      <3>2. QED
        BY <1>2, <1>3, <3>1
    <2>2. CASE n # Len(requests) + 1
      <3>1. n \in DOMAIN requests /\ requests'[n] = requests[n]
        BY <1>6, <1>7, <2>2
      <3>2. EveryRequestIsAuthorised
        BY DEF Inv
      <3>3. QED
        BY <3>1, <3>2 DEF EveryRequestIsAuthorised
    <2>3. QED
      BY <2>1, <2>2
  <1>10. QED
    BY <1>8, <1>9 DEF EveryRequestIsAuthorised

LEMMA QueryStep == Inv /\ QueryMetadata => Inv'
  <1> SUFFICES ASSUME Inv, QueryMetadata PROVE Inv'
    OBVIOUS
  <1>1. pc = "query" /\ UNCHANGED <<input, opened>>
    BY DEF QueryMetadata
  <1>2. /\ TypeOK /\ PolicyHeld /\ LockHeld
        /\ OnlyPinnedBytesAreOpened
        /\ failure = NoFailure /\ res.package = None
    BY <1>1 DEF Inv, PackageHeld
  <1>3. CASE UNCHANGED <<res, requests>> /\ pc' = "done" /\ failure'.stage = "registry_query"
    <2>1. failure' # NoFailure
      BY <1>3 DEF NoFailure
    <2>2. TypeOK'
      BY <1>1, <1>2, <1>3 DEF TypeOK, Steps, Stages, dep
    <2>3. QED
      BY <1>1, <1>2, <1>3, <2>1, <2>2, QuietStep, FailingStep
  <1>4. CASE /\ res' = [res EXCEPT !.queried = <<res.policy.bound>>]
             /\ Ask("metadata", None)
             /\ Proceed("metadata")
    <2>1. pc' = "metadata" /\ failure' = NoFailure
      BY <1>2, <1>4 DEF Proceed
    <2>2. EveryRequestIsAuthorised' /\ requests' \in Seq(Requests)
      BY <1>1, <1>4, AskingIsAuthorised DEF Held
    <2>3. /\ res'.locked = res.locked /\ res'.policy = res.policy /\ res'.package = None
          /\ res'.integrity = res.integrity /\ DOMAIN res' = DOMAIN res
      BY <1>2, <1>4 DEF TypeOK, NoResolution
    <2>4. TypeOK'
      BY <1>1, <1>2, <2>1, <2>2, <2>3 DEF TypeOK, Steps, dep
    <2>5. PolicyHeld' /\ LockHeld' /\ PackageHeld'
      BY <1>1, <1>2, <2>1, <2>3 DEF PolicyHeld, LockHeld, PackageHeld, Held, dep
    <2>6. OnlyPinnedBytesAreOpened'
      BY <1>1, <1>2 DEF OnlyPinnedBytesAreOpened
    <2>7. QED
      BY <2>2, <2>4, <2>5, <2>6 DEF Inv
  <1>5. QED
    BY <1>3, <1>4 DEF QueryMetadata, Fail

LEMMA MetadataStep ==
    ASSUME NEW answer \in Refusals \cup Listings, Inv, ReceiveMetadata(answer)
    PROVE  Inv'
  <1>1. pc = "metadata" /\ UNCHANGED <<input, opened>>
    BY DEF ReceiveMetadata
  <1>2. /\ TypeOK /\ PolicyHeld /\ LockHeld
        /\ OnlyPinnedBytesAreOpened
        /\ failure = NoFailure /\ res.package = None
    BY <1>1 DEF Inv, PackageHeld
  <1>3. CASE /\ \/ UNCHANGED res
                \/ \E candidates \in OrderCandidates(answer) :
                      res' = [res EXCEPT !.candidates = candidates]
             /\ UNCHANGED requests
             /\ pc' = "done"
             /\ failure'.stage = "registry_query"
    <2>1. failure' # NoFailure
      BY <1>3 DEF NoFailure
    <2>2. /\ res'.locked = res.locked /\ res'.policy = res.policy /\ res'.package = None
          /\ res'.integrity = res.integrity /\ DOMAIN res' = DOMAIN res
      BY <1>2, <1>3 DEF TypeOK, NoResolution
    <2>3. TypeOK'
      BY <1>1, <1>2, <1>3, <2>2 DEF TypeOK, Steps, Stages, dep
    <2>4. QED
      BY <1>1, <1>2, <1>3, <2>1, <2>2, <2>3, QuietStep, FailingStep
  <1> DEFINE version == res.locked.version
  <1>4. CASE /\ \E candidates \in OrderCandidates(answer) :
                   res' = [res EXCEPT !.candidates = candidates,
                                      !.selected = FirstOffering(candidates, version)]
             /\ Ask("artifact", version)
             /\ Proceed("artifact")
    <2>1. pc' = "artifact" /\ failure' = NoFailure
      BY <1>2, <1>4 DEF Proceed
    <2>2. EveryRequestIsAuthorised' /\ requests' \in Seq(Requests)
      BY <1>1, <1>4, AskingIsAuthorised DEF Held
    <2>3. /\ res'.locked = res.locked /\ res'.policy = res.policy /\ res'.package = None
          /\ res'.integrity = res.integrity /\ DOMAIN res' = DOMAIN res
      BY <1>2, <1>4 DEF TypeOK, NoResolution
    <2>4. TypeOK'
      BY <1>1, <1>2, <2>1, <2>2, <2>3 DEF TypeOK, Steps, dep
    <2>5. PolicyHeld' /\ LockHeld' /\ PackageHeld'
      BY <1>1, <1>2, <2>1, <2>3 DEF PolicyHeld, LockHeld, PackageHeld, Held, dep
    <2>6. OnlyPinnedBytesAreOpened'
      BY <1>1, <1>2 DEF OnlyPinnedBytesAreOpened
    <2>7. QED
      BY <2>2, <2>4, <2>5, <2>6 DEF Inv
  <1>5. CASE \E candidates \in OrderCandidates(answer) : SelectLocked(candidates)
    <2>1. PICK candidates \in OrderCandidates(answer) : SelectLocked(candidates)
      BY <1>5
    <2>2. \/ /\ res' = [res EXCEPT !.candidates = candidates]
             /\ Fail("ARTIFACT_UNAVAILABLE", "registry_query")
             /\ UNCHANGED requests
          \/ /\ res' = [res EXCEPT !.candidates = candidates,
                                   !.selected = FirstOffering(candidates, version)]
             /\ Ask("artifact", version)
             /\ Proceed("artifact")
      BY <2>1 DEF SelectLocked
    <2>3. CASE /\ res' = [res EXCEPT !.candidates = candidates]
               /\ Fail("ARTIFACT_UNAVAILABLE", "registry_query")
               /\ UNCHANGED requests
      <3>1. \E c \in OrderCandidates(answer) : res' = [res EXCEPT !.candidates = c]
        BY <2>3
      <3>2. UNCHANGED requests /\ pc' = "done" /\ failure'.stage = "registry_query"
        BY <2>3 DEF Fail
      <3>3. QED
        BY <1>3, <3>1, <3>2
    <2>4. CASE /\ res' = [res EXCEPT !.candidates = candidates,
                                     !.selected = FirstOffering(candidates, version)]
               /\ Ask("artifact", version)
               /\ Proceed("artifact")
      <3>1. \E c \in OrderCandidates(answer) :
               res' = [res EXCEPT !.candidates = c, !.selected = FirstOffering(c, version)]
        BY <2>4
      <3>2. QED
        BY <1>4, <2>4, <3>1
    <2>5. QED
      BY <2>2, <2>3, <2>4
  <1>6. CASE UNCHANGED <<res, requests>> /\ \E class \in {"ARTIFACT_UNAVAILABLE", "REGISTRY_UNAVAILABLE"} :
                                               Fail(class, "registry_query")
    BY <1>3, <1>6 DEF Fail
  <1>7. QED
    BY <1>5, <1>6 DEF ReceiveMetadata

LEMMA ArtifactStep ==
    ASSUME NEW answer \in Refusals \cup Blobs, Inv, ReceiveArtifact(answer)
    PROVE  Inv'
  <1>1. pc = "artifact" /\ UNCHANGED <<input, requests>>
    BY DEF ReceiveArtifact
  <1>2. /\ TypeOK /\ PolicyHeld /\ LockHeld
        /\ OnlyPinnedBytesAreOpened
        /\ failure = NoFailure /\ res.package = None
    BY <1>1 DEF Inv, PackageHeld
  <1>3. EveryRequestIsAuthorised'
    BY <1>1 DEF Inv, EveryRequestIsAuthorised
  <1>4. CASE /\ UNCHANGED <<res, opened>>
             /\ pc' = "done"
             /\ failure'.stage \in {"artifact_fetch", "integrity"}
    <2>1. failure' # NoFailure
      BY <1>4 DEF NoFailure
    <2>2. TypeOK'
      BY <1>1, <1>2, <1>4 DEF TypeOK, Steps, Stages, dep
    <2>3. QED
      BY <1>1, <1>2, <1>4, <2>1, <2>2, QuietStep, FailingStep
  <1>5. CASE answer \in Blobs /\ VerifyBytes(res.locked, answer) = "verified" /\ Open(answer)
    <2>1. PinnedBytes(res.locked, answer)
      BY <1>5 DEF VerifyBytes, PinnedBytes
    <2>2. PICK k \in DOMAIN input.lock.records : res.locked = input.lock.records[k]
      BY <1>1, <1>2 DEF LockHeld, Held
    <2>3. Agree(input, res.locked)
      BY <1>1, <1>2 DEF LockHeld, Held
    <2>4. opened' = opened \cup {answer}
      BY <1>5 DEF Open
    <2>5. OnlyPinnedBytesAreOpened'
      BY <1>1, <1>2, <2>1, <2>2, <2>3, <2>4 DEF OnlyPinnedBytesAreOpened, Agree
    <2>6. CASE /\ res' = [res EXCEPT !.integrity = "verified"]
               /\ pc' = "done"
               /\ failure'.stage = "artifact_parse"
      <3>1. failure' # NoFailure
        BY <2>6 DEF NoFailure
      <3>2. /\ res'.locked = res.locked /\ res'.policy = res.policy /\ res'.package = None
            /\ res'.integrity = "verified" /\ DOMAIN res' = DOMAIN res
        BY <1>2, <2>6 DEF TypeOK, NoResolution
      <3>3. TypeOK'
        BY <1>1, <1>2, <1>5, <2>4, <2>6, <3>2 DEF TypeOK, Steps, Stages, dep
      <3>4. QED
        BY <1>1, <1>3, <2>5, <2>6, <3>1, <3>2, <3>3, FailingStep
    <2>7. CASE /\ answer.content # Malformed
               /\ answer.content.name = dep.name
               /\ answer.content.version = res.locked.version
               /\ res' = [res EXCEPT !.integrity = "verified", !.package = answer]
               /\ Proceed("done")
      <3>1. pc' = "done" /\ failure' = NoFailure
        BY <1>2, <2>7 DEF Proceed
      <3>2. /\ res'.locked = res.locked /\ res'.policy = res.policy /\ res'.package = answer
            /\ res'.integrity = "verified" /\ DOMAIN res' = DOMAIN res
        BY <1>2, <2>7 DEF TypeOK, NoResolution
      <3>3. Acceptable(input, answer)
        BY <2>1, <2>2, <2>3, <2>7 DEF Acceptable, dep
      <3>4. TypeOK'
        BY <1>1, <1>2, <1>5, <2>4, <3>1, <3>2 DEF TypeOK, Steps, dep
      <3>5. PolicyHeld' /\ LockHeld' /\ PackageHeld'
        BY <1>1, <1>5, <3>1, <3>2, <3>3 DEF PolicyHeld, LockHeld, PackageHeld, Held
      <3>6. QED
        BY <1>3, <2>5, <3>4, <3>5 DEF Inv
    <2>8. QED
      BY <1>5, <2>6, <2>7 DEF Open, Fail
  <1>6. QED
    BY <1>4, <1>5 DEF ReceiveArtifact, Fail

\* Inv holds of every reachable state of the resolver.
THEOREM InvIsInvariant == Spec => []Inv
  <1>1. Inv /\ [Next]_vars => Inv'
    <2> SUFFICES ASSUME Inv, [Next]_vars PROVE Inv'
      OBVIOUS
    <2>1. CASE UNCHANGED vars
      BY <2>1 DEF vars, Inv, TypeOK, PolicyHeld, LockHeld, PackageHeld, dep,
         EveryRequestIsAuthorised, OnlyPinnedBytesAreOpened
    <2>2. QED
      BY <2>1, PolicyStep, LockStep, QueryStep, MetadataStep, ArtifactStep DEF Next
  <1>2. QED
    BY <1>1, InitInv, PTL DEF Spec

\* Type correctness, for every set of documents and answers.
THEOREM TypeCorrect == Spec => []TypeOK
  <1>1. Inv => TypeOK
    BY DEF Inv
  <1>2. QED
    BY <1>1, InvIsInvariant, PTL

\* Whatever registries answer, only what policy, lock and declaration agree on
\* is ever asked of them.
THEOREM RequestsAreAuthorised == Spec => []EveryRequestIsAuthorised
  <1>1. Inv => EveryRequestIsAuthorised
    BY DEF Inv
  <1>2. QED
    BY <1>1, InvIsInvariant, PTL

\* Whatever registries answer, only the pinned bytes are interpreted.
THEOREM PinnedBytesOnly == Spec => []OnlyPinnedBytesAreOpened
  <1>1. Inv => OnlyPinnedBytesAreOpened
    BY DEF Inv
  <1>2. QED
    BY <1>1, InvIsInvariant, PTL

\* Every step of the resolver is a step of its promise or changes nothing the
\* promise speaks of.
THEOREM ImplementsPromise == Spec => Promise!Spec
  <1>1. Init => Promise!Init
    BY DEF Init, Promise!Init, Outcome, NoResolution
  <1>2. Inv /\ Inv' /\ [Next]_vars => [Promise!Next]_(Promise!promised)
    <2> SUFFICES ASSUME Inv, Inv', [Next]_vars PROVE [Promise!Next]_(Promise!promised)
      OBVIOUS
    <2>1. UNCHANGED input
      BY DEF Next, vars, EvaluatePolicy, CheckLock, QueryMetadata, ReceiveMetadata, SelectLocked,
             ReceiveArtifact
    <2>2. CASE UNCHANGED <<Outcome, res.package>>
      BY <2>1, <2>2 DEF Promise!promised
    <2>3. CASE pc # "done" /\ pc' # "done"
      BY <2>1, <2>3 DEF Promise!promised, Outcome, Inv, PackageHeld
    <2>4. CASE pc # "done" /\ pc' = "done" /\ failure' # NoFailure
      <3>1. res.package = None /\ res'.package = None
        BY <2>4 DEF Inv, PackageHeld
      <3>2. QED
        BY <2>1, <2>4, <3>1 DEF Promise!Next, Promise!Refuse, Outcome
    <2>5. CASE pc # "done" /\ pc' = "done" /\ failure' = NoFailure
      <3>1. res'.package \in Blobs /\ Acceptable(input, res'.package)
        BY <2>1, <2>5 DEF Inv, PackageHeld
      <3>2. QED
        BY <2>1, <2>5, <3>1 DEF Promise!Next, Promise!Deliver, Outcome
    <2>6. CASE pc = "done"
      BY <2>2, <2>6 DEF Next, vars, Outcome, EvaluatePolicy, CheckLock, QueryMetadata,
         ReceiveMetadata, ReceiveArtifact
    <2>7. QED
      BY <2>3, <2>4, <2>5, <2>6
  <1>3. QED
    BY <1>1, <1>2, InvIsInvariant, PTL DEF Spec, Promise!Spec

-----------------------------------------------------------------------------
(***************************************************************************)
(* The record the resolver returns, and what is printed of it.  An         *)
(* invariant says how far the record, the requests and the bytes read have *)
(* come at each step, and at which stage of a failure: what the properties *)
(* compare follows.                                                        *)
(***************************************************************************)

\* What is selected is an offer of the listing, of the version looked for.
LEMMA ChosenIsOffered ==
    ASSUME NEW listing, NEW candidates \in OrderCandidates(listing), NEW version,
           Offering(candidates, version) # {}
    PROVE  /\ FirstOffering(candidates, version).version = version
           /\ \E k \in DOMAIN listing : FirstOffering(candidates, version) = listing[k]
  <1> DEFINE offered == {i \in DOMAIN listing : listing[i].version # Unparsable}
  <1>1. PICK order \in Bijection(1..Cardinality(offered), offered) :
           candidates = [k \in DOMAIN order |-> listing[order[k]]]
    BY DEF OrderCandidates
  <1>2. DOMAIN candidates = DOMAIN order /\ order \in [1..Cardinality(offered) -> offered]
    BY <1>1 DEF Bijection, Injection
  <1>3. Offering(candidates, version) \subseteq Nat
    BY <1>2 DEF Offering
  <1>4. \E i \in Offering(candidates, version) : \A j \in Offering(candidates, version) : i <= j
    BY <1>3, Least
  <1>5. PICK i \in Offering(candidates, version) :
           FirstOffering(candidates, version) = candidates[i]
    BY <1>4 DEF FirstOffering
  <1>6. candidates[i] = listing[order[i]] /\ order[i] \in DOMAIN listing
    BY <1>1, <1>2, <1>5 DEF Offering
  <1>7. QED
    BY <1>5, <1>6 DEF Offering

-----------------------------------------------------------------------------
NothingAsked == requests = <<>> /\ res.queried = <<>>

NothingSelected ==
    res.selected = None /\ \A n \in DOMAIN requests : requests[n].kind = "metadata"

NothingRead == opened = {} /\ res.integrity = None /\ res.package = None

\* The locked version was found at the bound source, which was asked for it.
Chosen ==
    /\ res.selected # None
    /\ res.selected.version = res.locked.version
    /\ AskedForArtifact(res.policy.bound)
    /\ res.policy.bound \in SourceIds(input.policy)

Unanswered == failure.class \in {"ARTIFACT_UNAVAILABLE", "REGISTRY_UNAVAILABLE"}

\* How far a resolution has come that has returned.
Ending ==
    \/ failure.stage \in {"source_policy", "lock"} /\ NothingAsked /\ NothingSelected /\ NothingRead
    \/ failure.stage = "registry_query" /\ Unanswered /\ NothingSelected /\ NothingRead
    \/ failure.stage = "artifact_fetch" /\ Unanswered /\ Chosen /\ NothingRead
    \/ failure.stage = "integrity" /\ Chosen /\ NothingRead
    \/ /\ failure.stage = "artifact_parse"
       /\ Chosen /\ opened # {} /\ res.integrity = "verified" /\ res.package = None
    \/ /\ failure = NoFailure
       /\ Chosen /\ opened # {} /\ res.integrity = "verified" /\ res.package # None

\* How far it has come at each step.
Progress ==
    /\ pc = "policy" => res.policy = None
    /\ pc \in {"policy", "lock"} => res.locked = None
    /\ pc \in {"policy", "lock", "query"} => NothingAsked
    /\ pc \in {"policy", "lock", "query", "metadata"} => NothingSelected /\ res.candidates = <<>>
    /\ pc # "done" => NothingRead
    /\ pc = "artifact" => Chosen
    /\ pc = "done" => Ending

LEMMA InitProgress == Init => Progress
  BY DEF Init, Progress, NoResolution, NothingAsked, NothingSelected, NothingRead

LEMMA PolicyProgress ==
    ASSUME Inv, Progress, EvaluatePolicy
    PROVE  Progress'
  <1>1. /\ pc = "policy" /\ UNCHANGED <<input, requests, opened>>
        /\ NothingAsked /\ NothingSelected /\ NothingRead
        /\ res.policy = None /\ res.locked = None /\ res.candidates = <<>>
        /\ DOMAIN res = DOMAIN NoResolution /\ TypeOK
    BY DEF EvaluatePolicy, Progress, Inv, TypeOK
  <1>2. CASE UNCHANGED res /\ pc' = "done" /\ failure'.stage = "source_policy"
    BY <1>1, <1>2 DEF Progress, Ending, NothingAsked, NothingSelected, NothingRead
  <1>3. CASE /\ \E d : res' = [res EXCEPT !.policy = d]
             /\ Proceed("lock")
    <2>1. pc' = "lock"
      BY <1>3 DEF Proceed
    <2>2. \A f \in DOMAIN res : f # "policy" => res'[f] = res[f]
      BY <1>3
    <2>3. /\ res'.locked = None /\ res'.candidates = <<>> /\ res'.queried = res.queried
          /\ res'.selected = res.selected /\ res'.integrity = res.integrity
          /\ res'.package = res.package
      BY <1>1, <2>2 DEF NoResolution
    <2>4. QED
      BY <1>1, <2>1, <2>3 DEF Progress, NothingAsked, NothingSelected, NothingRead
  <1>4. QED
    BY <1>2, <1>3 DEF EvaluatePolicy, Fail

LEMMA LockProgress ==
    ASSUME Inv, Progress, CheckLock
    PROVE  Progress'
  <1>1. /\ pc = "lock" /\ UNCHANGED <<input, requests, opened>>
        /\ NothingAsked /\ NothingSelected /\ NothingRead
        /\ res.locked = None /\ res.candidates = <<>>
        /\ DOMAIN res = DOMAIN NoResolution /\ TypeOK
    BY DEF CheckLock, Progress, Inv, TypeOK
  <1>2. CASE UNCHANGED res /\ pc' = "done" /\ failure'.stage = "lock"
    BY <1>1, <1>2 DEF Progress, Ending, NothingAsked, NothingSelected, NothingRead
  <1>3. CASE /\ \E d : res' = [res EXCEPT !.locked = d]
             /\ pc' = "query" \/ (pc' = "done" /\ failure'.stage = "lock")
    <2>1. \A f \in DOMAIN res : f # "locked" => res'[f] = res[f]
      BY <1>3
    <2>2. /\ res'.candidates = <<>> /\ res'.queried = res.queried
          /\ res'.selected = res.selected /\ res'.integrity = res.integrity
          /\ res'.package = res.package
      BY <1>1, <2>1 DEF NoResolution
    <2>3. QED
      BY <1>1, <1>3, <2>2 DEF Progress, Ending, NothingAsked, NothingSelected, NothingRead
  <1>4. QED
    BY <1>2, <1>3 DEF CheckLock, Fail, Proceed

LEMMA QueryProgress ==
    ASSUME Inv, Progress, QueryMetadata
    PROVE  Progress'
  <1>1. /\ pc = "query" /\ UNCHANGED <<input, opened>>
        /\ NothingAsked /\ NothingSelected /\ NothingRead /\ res.candidates = <<>>
        /\ DOMAIN res = DOMAIN NoResolution /\ TypeOK
    BY DEF QueryMetadata, Progress, Inv, TypeOK
  <1>2. CASE UNCHANGED <<res, requests>> /\ Fail("REGISTRY_UNAVAILABLE", "registry_query")
    <2>1. /\ pc' = "done" /\ failure'.stage = "registry_query"
          /\ failure'.class = "REGISTRY_UNAVAILABLE"
      BY <1>2 DEF Fail
    <2>2. QED
      BY <1>1, <1>2, <2>1 DEF Progress, Ending, Unanswered, NothingSelected, NothingRead
  <1>3. CASE /\ res' = [res EXCEPT !.queried = <<res.policy.bound>>]
             /\ Ask("metadata", None)
             /\ Proceed("metadata")
    <2>1. pc' = "metadata"
      BY <1>3 DEF Proceed
    <2>2. \A f \in DOMAIN res : f # "queried" => res'[f] = res[f]
      BY <1>3
    <2>3. /\ res'.candidates = <<>>
          /\ res'.selected = res.selected /\ res'.integrity = res.integrity
          /\ res'.package = res.package
      BY <1>1, <2>2 DEF NoResolution
    <2>4. PICK x : x.kind = "metadata" /\ requests' = Append(requests, x)
      BY <1>3 DEF Ask
    <2>5. \A n \in DOMAIN requests' : requests'[n].kind = "metadata"
      <3>1. requests = <<>>
        BY <1>1 DEF NothingAsked
      <3>2. requests' = <<x>>
        BY <2>4, <3>1
      <3>3. QED
        BY <2>4, <3>2
    <2>6. QED
      BY <1>1, <2>1, <2>3, <2>5 DEF Progress, NothingSelected, NothingRead
  <1>4. QED
    BY <1>2, <1>3 DEF QueryMetadata

LEMMA MetadataProgress ==
    ASSUME Inv, Progress, NEW answer \in Refusals \cup Listings, ReceiveMetadata(answer)
    PROVE  Progress'
  <1>1. /\ pc = "metadata" /\ UNCHANGED <<input, opened>>
        /\ NothingSelected /\ NothingRead /\ res.candidates = <<>>
        /\ DOMAIN res = DOMAIN NoResolution /\ TypeOK
    BY DEF ReceiveMetadata, Progress, Inv, TypeOK
  <1>2. ASSUME UNCHANGED requests,
               UNCHANGED res \/ \E c : res' = [res EXCEPT !.candidates = c],
               \E class \in {"ARTIFACT_UNAVAILABLE", "REGISTRY_UNAVAILABLE"} :
                  Fail(class, "registry_query")
        PROVE  Progress'
    <2>1. pc' = "done" /\ failure'.stage = "registry_query" /\ Unanswered'
      BY <1>2 DEF Fail, Unanswered
    <2>2. \A f \in DOMAIN res : f # "candidates" => res'[f] = res[f]
      BY <1>2
    <2>3. /\ res'.selected = res.selected /\ res'.integrity = res.integrity
          /\ res'.package = res.package
      BY <1>1, <2>2 DEF NoResolution
    <2>4. QED
      BY <1>1, <1>2, <2>1, <2>3 DEF Progress, Ending, NothingSelected, NothingRead
  <1>3. ASSUME answer \in Listings, NEW candidates \in OrderCandidates(answer),
               Offering(candidates, res.locked.version) # {},
               res' = [res EXCEPT !.candidates = candidates,
                                  !.selected = FirstOffering(candidates, res.locked.version)],
               Ask("artifact", res.locked.version),
               Proceed("artifact")
        PROVE  Progress'
    <2> DEFINE chosen == FirstOffering(candidates, res.locked.version)
               x == [kind |-> "artifact", source |-> res.policy.bound,
                     name |-> dep.name, version |-> res.locked.version]
    <2>1. pc' = "artifact" /\ requests' = Append(requests, x)
      BY <1>3 DEF Proceed, Ask
    <2>2. chosen # None /\ chosen.version = res.locked.version
      BY <1>3, ChosenIsOffered, OffersAreFilledIn
    <2>3. \A f \in DOMAIN res : f \notin {"candidates", "selected"} => res'[f] = res[f]
      BY <1>3
    <2>4. /\ res'.selected = chosen /\ res'.integrity = res.integrity
          /\ res'.package = res.package /\ res'.locked = res.locked /\ res'.policy = res.policy
      BY <1>1, <1>3, <2>3 DEF NoResolution
    <2>5. res.policy.bound \in SourceIds(input.policy)
      BY <1>1 DEF Inv, PolicyHeld, Held
    <2>6. \E n \in DOMAIN requests' :
             requests'[n].kind = "artifact" /\ requests'[n].source = res.policy.bound
      <3>1. requests \in Seq(Requests)
        BY <1>1 DEF TypeOK
      <3>2. requests' \in Seq(Requests \cup {x})
        BY <2>1, <3>1
      <3>3. requests'[Len(requests) + 1] = x /\ Len(requests) + 1 \in DOMAIN requests'
        BY <2>1, <3>1
      <3>4. QED
        BY <3>3
    <2> HIDE DEF chosen, x
    <2>7. Chosen'
      BY <1>1, <2>2, <2>4, <2>5, <2>6 DEF Chosen, AskedForArtifact
    <2>8. QED
      BY <1>1, <2>1, <2>4, <2>7 DEF Progress, NothingRead
  <1>4. ASSUME answer \in Listings, NEW candidates \in OrderCandidates(answer),
               SelectLocked(candidates)
        PROVE  Progress'
    <2>1. CASE /\ res' = [res EXCEPT !.candidates = candidates]
               /\ Fail("ARTIFACT_UNAVAILABLE", "registry_query")
               /\ UNCHANGED requests
      <3>1. \E c : res' = [res EXCEPT !.candidates = c]
        BY <2>1
      <3>2. QED
        BY <1>2, <2>1, <3>1
    <2>2. CASE /\ Offering(candidates, res.locked.version) # {}
               /\ res' = [res EXCEPT !.candidates = candidates,
                                     !.selected = FirstOffering(candidates, res.locked.version)]
               /\ Ask("artifact", res.locked.version)
               /\ Proceed("artifact")
      BY <1>3, <1>4, <2>2
    <2>3. QED
      BY <1>4, <2>1, <2>2 DEF SelectLocked
  <1>5. CASE /\ UNCHANGED <<res, requests>>
             /\ \E class \in {"ARTIFACT_UNAVAILABLE", "REGISTRY_UNAVAILABLE"} :
                   Fail(class, "registry_query")
    BY <1>2, <1>5
  <1>6. QED
    BY <1>4, <1>5 DEF ReceiveMetadata

LEMMA ArtifactProgress ==
    ASSUME Inv, Progress, NEW answer \in Refusals \cup Blobs, ReceiveArtifact(answer)
    PROVE  Progress'
  <1>1. /\ pc = "artifact" /\ UNCHANGED <<input, requests>>
        /\ Chosen /\ NothingRead /\ failure = NoFailure
        /\ DOMAIN res = DOMAIN NoResolution /\ TypeOK
    BY DEF ReceiveArtifact, Progress, Inv, PackageHeld, TypeOK
  <1>2. CASE /\ UNCHANGED <<res, opened>>
             /\ \/ \E class \in {"ARTIFACT_UNAVAILABLE", "REGISTRY_UNAVAILABLE"} :
                      Fail(class, "artifact_fetch")
                \/ \E class : Fail(class, "integrity")
    <2>1. /\ pc' = "done"
          /\ \/ failure'.stage = "artifact_fetch" /\ Unanswered'
             \/ failure'.stage = "integrity"
      BY <1>2 DEF Fail, Unanswered
    <2>2. Chosen' /\ NothingRead'
      BY <1>1, <1>2 DEF Chosen, AskedForArtifact, NothingRead
    <2>3. QED
      BY <1>1, <1>2, <2>1, <2>2 DEF Progress, Ending
  <1>3. CASE answer \in Blobs /\ Open(answer)
    <2>1. opened' = opened \cup {answer} /\ opened' # {}
      BY <1>3 DEF Open
    <2>2. \/ /\ res' = [res EXCEPT !.integrity = "verified"]
             /\ pc' = "done" /\ failure'.stage = "artifact_parse"
          \/ /\ res' = [res EXCEPT !.integrity = "verified", !.package = answer]
             /\ pc' = "done" /\ failure' = NoFailure
      BY <1>1, <1>3 DEF Open, Fail, Proceed
    <2>3. \A f \in DOMAIN res : f \notin {"integrity", "package"} => res'[f] = res[f]
      BY <2>2
    <2>4. /\ res'.selected = res.selected /\ res'.locked = res.locked /\ res'.policy = res.policy
          /\ res'.integrity = "verified"
      BY <1>1, <2>2, <2>3 DEF NoResolution
    <2>5. Chosen'
      BY <1>1, <2>4 DEF Chosen, AskedForArtifact
    <2>6. \/ failure'.stage = "artifact_parse" /\ res'.package = None
          \/ failure' = NoFailure /\ res'.package = answer /\ answer # None
      BY <1>1, <1>3, <2>2, NoneIsNoBlob DEF NoResolution, NothingRead
    <2>7. QED
      BY <2>1, <2>2, <2>4, <2>5, <2>6 DEF Progress, Ending
  <1>4. QED
    BY <1>2, <1>3 DEF ReceiveArtifact

LEMMA NextProgress ==
    ASSUME Inv, Progress, Next
    PROVE  Progress'
  BY PolicyProgress, LockProgress, QueryProgress, MetadataProgress, ArtifactProgress DEF Next

THEOREM ProgressIsInvariant == Spec => []Progress
  <1>1. Inv /\ Progress /\ [Next]_vars => Progress'
    <2> SUFFICES ASSUME Inv, Progress, UNCHANGED vars PROVE Progress'
      BY NextProgress
    <2>1. QED
      BY DEF vars, Progress, Ending, Chosen, AskedForArtifact, Unanswered, NothingAsked,
             NothingSelected, NothingRead
  <1>2. QED
    BY <1>1, InitProgress, InvIsInvariant, PTL DEF Spec

\* Resolution, as Resolve returns it: the record tells how far the resolution
\* really got, for every set of documents and answers.
THEOREM RecordIsTrue == Spec => []RecordTellsHowFar
  <1>1. Progress => RecordTellsHowFar
    <2> SUFFICES ASSUME Progress, pc = "done", Ending PROVE RecordTellsHowFar
      BY DEF Progress, RecordTellsHowFar
    <2>1. NoFailure.stage = "none" /\ NoFailure.class = "none" /\ None # "verified"
      BY NoneIsNoClass DEF NoFailure
    <2>2. requests = <<>> => DOMAIN requests = {}
      OBVIOUS
    <2>3. Chosen => \E n \in DOMAIN requests : requests[n].kind = "artifact"
      BY DEF Chosen, AskedForArtifact
    <2>4. QED
      BY <2>1, <2>2, <2>3
      DEF RecordTellsHowFar, Ending, NothingAsked, NothingSelected, NothingRead, Chosen
  <1>2. QED
    BY <1>1, ProgressIsInvariant, PTL

\* renderResolution: the two lines a reader takes together contradict neither
\* each other nor what was asked and read.
THEOREM PrintedLinesAgree == Spec => []LinesAgree
  <1>1. Inv /\ Progress => LinesAgree
    <2> SUFFICES ASSUME Inv, pc = "done", Ending PROVE LinesAgree
      BY DEF Progress, LinesAgree
    <2>1. CASE NothingSelected /\ NothingRead
      BY <2>1 DEF LinesAgree, OriginShown, IntegrityShown, NothingSelected, NothingRead,
                  AskedForArtifact
    <2>2. CASE Chosen
      <3>1. res.policy.bound # NothingAccepted /\ Matched # NotReached
        BY <2>2, NoSourceReadsSo DEF Chosen, Inv, TypeOK, Matched, NotReached
      <3>2. QED
        BY <2>2, <3>1 DEF LinesAgree, OriginShown, IntegrityShown, Chosen
    <2>3. QED
      BY <2>1, <2>2 DEF Ending
  <1>2. QED
    BY <1>1, InvIsInvariant, ProgressIsInvariant, PTL

\* dependencyRecord: the transcript's verdict on the bytes is what the transcript's
\* documentation says it distinguishes.
THEOREM VerdictsAreTrue == Spec => []VerdictMeansWhatItSays
  <1>1. Progress => VerdictMeansWhatItSays
    <2> SUFFICES ASSUME pc = "done", Ending PROVE VerdictMeansWhatItSays
      BY DEF Progress, VerdictMeansWhatItSays
    <2>1. NoFailure.stage = "none" /\ None # "verified"
      BY NoneIsNoClass DEF NoFailure
    <2>2. QED
      BY <2>1 DEF VerdictMeansWhatItSays, IntegrityRecorded, Ending, NothingAsked, NothingRead,
                  Chosen, Unanswered
  <1>2. QED
    BY <1>1, ProgressIsInvariant, PTL

-----------------------------------------------------------------------------
(***************************************************************************)
(* Documents that passed ValidateConsistency.  The check relates them two  *)
(* by two, and when it is made no registry has said anything; one lemma    *)
(* restates what it gives a resolution, and one conjunct carries it over   *)
(* the steps.                                                              *)
(***************************************************************************)

\* The documents of the resolution under way are a scenario that was checked.
Passed == \E v \in BOOLEAN : ValidateConsistency({ThisScenario(v)})

TheLocked == TheRecord(input.lock, dep.alias)

BuiltAs(record, b) ==
    /\ b.content = [name |-> record.name, version |-> record.version]
    /\ b.size = record.size
    /\ b.digest = record.digest

LEMMA CheckedDocuments ==
    ASSUME Passed
    PROVE  /\ Verdict(input.policy, dep.name) = "decided"
           /\ LockVerdict(input.lock, dep.alias) = "found"
           /\ TheLocked.name = dep.name
           /\ Decision(input.policy, dep.name).mode = Exclusive =>
                 Decision(input.policy, dep.name).bound = TheLocked.source
           /\ \E b \in Built : BuiltAs(TheLocked, b)
  <1>1. PICK v \in BOOLEAN : ValidateConsistency({ThisScenario(v)})
    BY DEF Passed
  <1> DEFINE s == ThisScenario(v)
  <1>2. \A i \in DOMAIN s.manifest.dependencies :
           DependencyLocked(s, s.manifest.dependencies[i])
    BY <1>1 DEF ValidateConsistency
  <1>3. /\ s.policy = input.policy /\ s.lock = input.lock
        /\ s.manifest.dependencies = <<dep>>
    BY DEF ThisScenario
  <1> HIDE DEF s
  <1>4. DependencyLocked(s, dep)
    BY <1>2, <1>3
  <1>5. QED
    BY <1>3, <1>4 DEF DependencyLocked, TheLocked, BuiltAs

\* Past the policy, an exclusive mapping decided; past the lock, the record in
\* hand is the one that was checked.
OnCheckedDocuments ==
    /\ pc = "lock" => res.policy.mode = Exclusive
    /\ pc \in Held \ {"lock"} => res.locked = TheLocked
    /\ Passed => ValidatedScenariosFailOnlyOnAnswers

LEMMA InitChecked == Init => OnCheckedDocuments
  BY DEF Init, OnCheckedDocuments, Held, ValidatedScenariosFailOnlyOnAnswers

LEMMA PolicyChecked ==
    ASSUME Inv, OnCheckedDocuments, EvaluatePolicy
    PROVE  OnCheckedDocuments'
  <1>1. UNCHANGED input /\ TypeOK
    BY DEF EvaluatePolicy, Inv
  <1>2. Passed => Verdict(input.policy, dep.name) = "decided"
    BY CheckedDocuments
  <1>3. CASE Verdict(input.policy, dep.name) # "decided"
    <2>1. ~Passed' /\ pc' = "done"
      BY <1>1, <1>2, <1>3 DEF EvaluatePolicy, Fail, Passed, ThisScenario, dep
    <2>2. QED
      BY <2>1 DEF OnCheckedDocuments, Held
  <1>4. CASE Fail("SOURCE_POLICY_NOT_EXCLUSIVE", "source_policy")
    BY <1>4 DEF Fail, OnCheckedDocuments, Held, ValidatedScenariosFailOnlyOnAnswers
  <1>5. CASE /\ Decision(input.policy, dep.name).mode = Exclusive
             /\ res' = [res EXCEPT !.policy = Decision(input.policy, dep.name)]
             /\ Proceed("lock")
    <2>1. res'.policy = Decision(input.policy, dep.name)
      BY <1>1, <1>5 DEF TypeOK, NoResolution
    <2>2. QED
      BY <1>5, <2>1 DEF Proceed, OnCheckedDocuments, Held, ValidatedScenariosFailOnlyOnAnswers
  <1>6. QED
    BY <1>3, <1>4, <1>5 DEF EvaluatePolicy

LEMMA LockChecked ==
    ASSUME Inv, OnCheckedDocuments, CheckLock
    PROVE  OnCheckedDocuments'
  <1>1. /\ UNCHANGED input /\ pc = "lock" /\ TypeOK
        /\ res.policy = Decision(input.policy, dep.name) /\ res.policy.mode = Exclusive
    BY DEF CheckLock, Inv, PolicyHeld, Held, OnCheckedDocuments
  <1>2. TheLocked' = TheLocked /\ (Passed' <=> Passed)
    BY <1>1 DEF TheLocked, dep, Passed, ThisScenario
  <1>3. Passed => /\ LockVerdict(input.lock, dep.alias) = "found"
                  /\ LockObjection(TheLocked) \in {None, "LOCK_RANGE_CONFLICT"}
    BY <1>1, CheckedDocuments DEF LockObjection
  <1>4. CASE LockVerdict(input.lock, dep.alias) # "found"
    <2>1. ~Passed' /\ pc' = "done"
      BY <1>2, <1>3, <1>4 DEF CheckLock, Fail
    <2>2. QED
      BY <2>1 DEF OnCheckedDocuments, Held
  <1>5. CASE /\ res' = [res EXCEPT !.locked = TheLocked]
             /\ LockObjection(TheLocked) = None
             /\ Proceed("query")
    <2>1. res'.locked = TheLocked
      BY <1>1, <1>5 DEF TypeOK, NoResolution
    <2>2. QED
      BY <1>2, <1>5, <2>1 DEF Proceed, OnCheckedDocuments, ValidatedScenariosFailOnlyOnAnswers
  <1>6. CASE LockObjection(TheLocked) # None /\ Fail(LockObjection(TheLocked), "lock")
    BY <1>2, <1>3, <1>6 DEF Fail, OnCheckedDocuments, Held, ValidatedScenariosFailOnlyOnAnswers
  <1>7. QED
    BY <1>4, <1>5, <1>6 DEF CheckLock, TheLocked

LEMMA QueryChecked ==
    ASSUME Inv, OnCheckedDocuments, QueryMetadata
    PROVE  OnCheckedDocuments'
  <1>1. UNCHANGED input /\ pc = "query" /\ TypeOK /\ res.locked = TheLocked
    BY DEF QueryMetadata, Inv, Held, OnCheckedDocuments
  <1>2. TheLocked' = TheLocked
    BY <1>1 DEF TheLocked, dep
  <1>3. CASE Fail("REGISTRY_UNAVAILABLE", "registry_query")
    BY <1>3 DEF Fail, OnCheckedDocuments, Held, ValidatedScenariosFailOnlyOnAnswers
  <1>4. CASE res' = [res EXCEPT !.queried = <<res.policy.bound>>] /\ Proceed("metadata")
    <2>1. res'.locked = TheLocked
      BY <1>1, <1>4 DEF TypeOK, NoResolution
    <2>2. QED
      BY <1>2, <1>4, <2>1 DEF Proceed, OnCheckedDocuments, ValidatedScenariosFailOnlyOnAnswers
  <1>5. QED
    BY <1>3, <1>4 DEF QueryMetadata

LEMMA MetadataChecked ==
    ASSUME Inv, OnCheckedDocuments, NEW answer, ReceiveMetadata(answer)
    PROVE  OnCheckedDocuments'
  <1>1. UNCHANGED input /\ pc = "metadata" /\ TypeOK /\ res.locked = TheLocked
    BY DEF ReceiveMetadata, Inv, Held, OnCheckedDocuments
  <1>2. TheLocked' = TheLocked
    BY <1>1 DEF TheLocked, dep
  <1>3. CASE \E class : Fail(class, "registry_query")
    BY <1>3 DEF Fail, OnCheckedDocuments, Held, ValidatedScenariosFailOnlyOnAnswers
  <1>4. CASE /\ \E candidates, offer :
                   res' = [res EXCEPT !.candidates = candidates, !.selected = offer]
             /\ Proceed("artifact")
    <2>1. res'.locked = TheLocked
      BY <1>1, <1>4 DEF TypeOK, NoResolution
    <2>2. QED
      BY <1>2, <1>4, <2>1 DEF Proceed, OnCheckedDocuments, ValidatedScenariosFailOnlyOnAnswers
  <1>5. QED
    BY <1>3, <1>4 DEF ReceiveMetadata, SelectLocked

\* Bytes that matched the lock are the ones that were built for it, whoever sent
\* them: they parse and say what the lock says.
LEMMA ArtifactChecked ==
    ASSUME Inv, OnCheckedDocuments, NEW answer \in Refusals \cup Blobs, ReceiveArtifact(answer)
    PROVE  OnCheckedDocuments'
  <1>1. UNCHANGED input /\ pc = "artifact" /\ res.locked = TheLocked /\ failure = NoFailure
    BY DEF ReceiveArtifact, Inv, PackageHeld, Held, OnCheckedDocuments
  <1>2. Passed' <=> Passed
    BY <1>1 DEF dep, Passed, ThisScenario
  <1>3. CASE \E stage \in {"artifact_fetch", "integrity"} : \E class : Fail(class, stage)
    BY <1>3 DEF Fail, OnCheckedDocuments, Held, ValidatedScenariosFailOnlyOnAnswers
  <1>4. CASE answer \in Blobs /\ VerifyBytes(res.locked, answer) = "verified" /\ Open(answer)
    <2>1. pc' = "done"
      BY <1>4 DEF Open, Fail, Proceed
    <2>2. SUFFICES ASSUME Passed PROVE failure' = NoFailure
      BY <1>2, <2>1 DEF OnCheckedDocuments, Held, ValidatedScenariosFailOnlyOnAnswers
    <2>3. PICK b \in Built : BuiltAs(TheLocked, b)
      BY <2>2, CheckedDocuments
    <2>4. answer = b
      BY <1>1, <1>4, <2>3, DigestIdentifiesBytes, BuiltArtifactsAreBytes DEF VerifyBytes, BuiltAs
    <2>5. /\ answer.content # Malformed
          /\ answer.content.name = dep.name /\ answer.content.version = res.locked.version
      BY <1>1, <2>2, <2>3, <2>4, CheckedDocuments, BuiltArtifactsParse DEF BuiltAs
    <2>6. QED
      BY <1>1, <1>4, <2>5 DEF Open, Proceed
  <1>5. QED
    BY <1>3, <1>4 DEF ReceiveArtifact

LEMMA CheckedIsInvariant == Spec => []OnCheckedDocuments
  <1>1. Inv /\ OnCheckedDocuments /\ [Next]_vars => OnCheckedDocuments'
    <2>1. Inv /\ OnCheckedDocuments /\ Next => OnCheckedDocuments'
      BY PolicyChecked, LockChecked, QueryChecked, MetadataChecked, ArtifactChecked DEF Next
    <2>2. OnCheckedDocuments /\ UNCHANGED vars => OnCheckedDocuments'
      BY DEF vars, OnCheckedDocuments, Passed, ThisScenario, TheLocked, dep,
             ValidatedScenariosFailOnlyOnAnswers
    <2>3. QED
      BY <2>1, <2>2
  <1>2. QED
    BY <1>1, InitChecked, InvIsInvariant, PTL DEF Spec

\* ValidateConsistency: documents that passed it fail a resolution only on a
\* pooled mapping, on the declared range, or on what a registry answers, for
\* every scenario, listing and artifact.
THEOREM CheckedScenariosAreSound == Spec => []ValidatedScenariosFailOnlyOnAnswers
  <1>1. OnCheckedDocuments => ValidatedScenariosFailOnlyOnAnswers
    BY DEF OnCheckedDocuments, Passed, ValidatedScenariosFailOnlyOnAnswers
  <1>2. QED
    BY <1>1, CheckedIsInvariant, PTL

-----------------------------------------------------------------------------
(***************************************************************************)
(* The resolver against registries that serve what is checked in.          *)
(***************************************************************************)
\* Whatever stands at the urls, the resolution is one of Resolver's: what is
\* proved of those holds of these.
THEOREM ServedIsResolved == ServedSpec => Spec
  <1>1. ServedInit => Init
    BY DEF ServedInit
  <1>2. [ServedNext]_served => [Next]_vars
    BY DEF ServedNext, AskMetadata, FetchArtifact, Next, served
  <1>3. QED
    BY <1>1, <1>2, PTL DEF ServedSpec, Spec

\* Each registry serves what its document says.
Served ==
    /\ catalogue \in Catalogues
    /\ \A i \in DOMAIN RegistrySets : serving[i] \in Serves(catalogue[i])

LEMMA SetFacts ==
    ASSUME Served, NEW i \in DOMAIN RegistrySets,
           catalogue[i] # Anybody, Faithful(catalogue[i])
    PROVE  /\ serving[i] \in FixtureSets(catalogue[i])
           /\ serving[i] \notin {Anybody, Down}
           /\ DOMAIN serving[i] = Names(catalogue[i])
           /\ \A n \in DOMAIN serving[i] : Metadata(serving[i], n) \in Listings
  <1>1. serving[i] \in FixtureSets(catalogue[i])
    BY DEF Served, Serves
  <1>2. DOMAIN serving[i] = Names(catalogue[i])
    BY <1>1 DEF FixtureSets
  <1>3. QED
    BY <1>1, <1>2, ServedIsListed DEF Served

\* The same versions, in some order.
Reordered(list, versions) ==
    /\ DOMAIN list = DOMAIN versions
    /\ \A k \in DOMAIN list : \E j \in DOMAIN versions : list[k] = versions[j]
    /\ \A j \in DOMAIN versions : \E k \in DOMAIN list : list[k] = versions[j]

\* What is served of a name is one package of that name, as the document has it.
LEMMA ServedAsWritten ==
    ASSUME NEW document, NEW set \in FixtureSets(document), NEW n \in DOMAIN set
    PROVE  \E p \in DOMAIN document :
              document[p].name = n /\ Reordered(set[n], document[p].versions)
  <1>1. n \in Names(document)
    BY DEF FixtureSets
  <1>2. PICK p \in DOMAIN document :
           document[p].name = n /\ set[n] \in Ascending(document[p].versions)
    BY <1>1 DEF FixtureSets
  <1> DEFINE versions == document[p].versions
  <1>3. PICK order \in Bijection(DOMAIN versions, DOMAIN versions) :
           set[n] = [k \in DOMAIN versions |-> versions[order[k]]]
    BY <1>2 DEF Ascending
  <1>4. /\ order \in [DOMAIN versions -> DOMAIN versions]
        /\ \A j \in DOMAIN versions : \E k \in DOMAIN versions : order[k] = j
    BY <1>3 DEF Bijection, Surjection, Injection
  <1>5. QED
    BY <1>2, <1>3, <1>4 DEF Reordered

\* The source a checked scenario's policy binds is one registry of ours.
LEMMA OneIsDialled ==
    ASSUME Served, Checked,
           Valid(input.policy), res.policy.bound \in SourceIds(input.policy)
    PROVE  \E i \in DOMAIN RegistrySets :
              /\ Dialled = {i}
              /\ Sets = {serving[i]}
              /\ catalogue[i] # Anybody
              /\ Faithful(catalogue[i])
              /\ ~Unknown(NotFound)
              /\ \A answer \in Listings \cup Blobs : ~Unknown(answer)
  <1>1. PICK v \in BOOLEAN : ValidateConsistency({ThisScenario(v)})
    BY DEF Checked
  <1> DEFINE s == ThisScenario(v)
             sources == input.policy.sources
  <1>2. OneRegistryPerUrl
    BY <1>1 DEF ValidateConsistency
  <1>3. \A k \in DOMAIN s.policy.sources : SourceServed(s, s.policy.sources[k])
    BY <1>1 DEF ValidateConsistency
  <1>4. s.policy = input.policy
    BY DEF ThisScenario
  <1>5. \A k \in DOMAIN sources : \E i \in DOMAIN RegistrySets : RegistrySets[i].url = sources[k].url
    BY <1>3, <1>4 DEF SourceServed
  <1>6. \A j, k \in DOMAIN sources : sources[j].id = sources[k].id => j = k
    BY DEF Valid, ValidSources
  <1>7. PICK k \in DOMAIN sources : sources[k].id = res.policy.bound
    BY DEF SourceIds
  <1>8. PICK i \in DOMAIN RegistrySets : RegistrySets[i].url = sources[k].url
    BY <1>5
  <1>9. Dialled = {i}
    BY <1>2, <1>6, <1>7, <1>8 DEF Dialled, OneRegistryPerUrl
  <1>10. catalogue[i] # Anybody /\ Faithful(catalogue[i])
    BY <1>7, <1>8 DEF Checked
  <1>11. serving[i] \notin {Anybody, Down}
    BY <1>10, SetFacts
  <1>12. Unavailable \notin Listings \cup Blobs \cup {NotFound}
    BY RefusalsAreNoDocuments, RefusalsDiffer
  <1>13. QED
    BY <1>9, <1>10, <1>11, <1>12 DEF Sets, Unknown

\* What a registry of ours does not carry, its document does not publish, unless
\* it has two packages of that name.
LEMMA NotCarriedIsNotPublished ==
    ASSUME Served, NEW i \in DOMAIN RegistrySets, Dialled = {i},
           catalogue[i] # Anybody, Faithful(catalogue[i]),
           Carrying(serving[i], res.locked.name, res.locked.version) = {}
    PROVE  NamedTwice \/ ~(\E b \in Built : Publish(b))
  <1> DEFINE name == res.locked.name
             document == catalogue[i]
  <1> SUFFICES ASSUME ~NamedTwice, NEW b \in Built, Publish(b) PROVE FALSE
    OBVIOUS
  <1>1. PICK here \in DOMAIN document :
           /\ document[here].name = name
           /\ \E j \in DOMAIN document[here].versions :
                 document[here].versions[j] = [version |-> res.locked.version, bytes |-> b]
    BY DEF Publish
  <1>2. name \in DOMAIN serving[i]
    BY <1>1, SetFacts DEF Names
  <1>3. PICK q \in DOMAIN document :
           document[q].name = name /\ Reordered(serving[i][name], document[q].versions)
    <2>1. serving[i] \in FixtureSets(document)
      BY SetFacts
    <2>2. QED
      BY ONLY <1>2, <2>1, ServedAsWritten
  <1>4. here = q
    BY <1>1, <1>3 DEF NamedTwice
  <1>5. \E k \in DOMAIN serving[i][name] : serving[i][name][k].version = res.locked.version
    <2>1. PICK j \in DOMAIN document[here].versions :
             document[here].versions[j] = [version |-> res.locked.version, bytes |-> b]
      BY <1>1
    <2>2. \E k \in DOMAIN serving[i][name] : serving[i][name][k] = document[here].versions[j]
      BY <1>3, <1>4, <2>1 DEF Reordered
    <2>3. QED
      BY <2>1, <2>2
  <1>6. QED
    BY <1>2, <1>5 DEF Carrying

\* The first artifact of a version is there, was built, and is published.
LEMMA CarriedIsPublished ==
    ASSUME Served, NEW i \in DOMAIN RegistrySets, Dialled = {i},
           catalogue[i] # Anybody, Faithful(catalogue[i]),
           Carrying(serving[i], res.locked.name, res.locked.version) # {}
    PROVE  LET name == res.locked.name
               version == res.locked.version
               sent == Artifact(serving[i], name, version)
           IN  /\ sent \in Built
               /\ Publish(sent)
               /\ \E k \in Carrying(serving[i], name, version) :
                     /\ \A j \in Carrying(serving[i], name, version) : k <= j
                     /\ sent = serving[i][name][k].bytes
  <1> DEFINE name == res.locked.name
             version == res.locked.version
             document == catalogue[i]
             found == Carrying(serving[i], name, version)
  <1>1. name \in DOMAIN serving[i]
    BY DEF Carrying
  <1>2. PICK p \in DOMAIN document :
           document[p].name = name /\ Reordered(serving[i][name], document[p].versions)
    <2>1. serving[i] \in FixtureSets(document)
      BY SetFacts
    <2>2. QED
      BY ONLY <1>1, <2>1, ServedAsWritten
  <1>3. document[p].versions \in Seq([version : Version, bytes : Built])
    BY <1>2, CataloguesAreLists DEF Served
  <1>4. found \subseteq Nat
    <2>1. \A S, t : t \in Seq(S) => DOMAIN t \subseteq Nat
      OBVIOUS
    <2>2. DOMAIN document[p].versions \subseteq Nat
      BY ONLY <1>3, <2>1
    <2>3. QED
      BY <1>1, <1>2, <2>2 DEF Carrying, Reordered
  <1>5. \E k \in found : \A j \in found : k <= j
    BY <1>4, Least
  <1>6. PICK k \in found :
           /\ \A j \in found : k <= j
           /\ Artifact(serving[i], name, version) = serving[i][name][k].bytes
    BY <1>5 DEF Artifact
  <1>7. PICK j \in DOMAIN document[p].versions : serving[i][name][k] = document[p].versions[j]
    BY <1>1, <1>2, <1>6 DEF Carrying, Reordered
  <1>8. document[p].versions[j] \in [version : Version, bytes : Built]
    <2>1. \A S, t : t \in Seq(S) => \A n \in DOMAIN t : t[n] \in S
      OBVIOUS
    <2>2. QED
      BY ONLY <1>3, <1>7, <2>1
  <1>9. document[p].versions[j].version = version
    BY <1>1, <1>6, <1>7 DEF Carrying
  <1>10. document[p].versions[j] = [version |-> version, bytes |-> serving[i][name][k].bytes]
    BY <1>7, <1>8, <1>9
  <1>11. QED
    BY <1>2, <1>6, <1>7, <1>8, <1>10 DEF Publish

\* What a registry of ours serves of a name is typed as its document is.
LEMMA ServedVersions ==
    ASSUME Served, NEW i \in DOMAIN RegistrySets,
           catalogue[i] # Anybody, Faithful(catalogue[i]),
           NEW n \in DOMAIN serving[i]
    PROVE  /\ DOMAIN serving[i][n] \subseteq Nat
           /\ \A k \in DOMAIN serving[i][n] : serving[i][n][k].version \in Version
  <1> DEFINE document == catalogue[i]
  <1>1. PICK p \in DOMAIN document : Reordered(serving[i][n], document[p].versions)
    <2>1. serving[i] \in FixtureSets(document)
      BY SetFacts
    <2>2. QED
      BY ONLY <2>1, ServedAsWritten
  <1>2. document[p].versions \in Seq([version : Version, bytes : Built])
    BY CataloguesAreLists DEF Served
  <1>3. \A S, t : t \in Seq(S) => DOMAIN t \subseteq Nat /\ \A k \in DOMAIN t : t[k] \in S
    OBVIOUS
  <1>4. /\ DOMAIN document[p].versions \subseteq Nat
        /\ \A j \in DOMAIN document[p].versions :
              document[p].versions[j] \in [version : Version, bytes : Built]
    BY ONLY <1>2, <1>3
  <1>5. QED
    BY <1>1, <1>4 DEF Reordered

\* The resolver's first offer of the locked version is the registry's first
\* artifact of it, although one sorts down and the other up.
LEMMA ListedIsSent ==
    ASSUME Served, NEW i \in DOMAIN RegistrySets, Dialled = {i},
           catalogue[i] # Anybody, Faithful(catalogue[i]),
           res.locked.name \in DOMAIN serving[i],
           NEW candidates \in OrderCandidates(Metadata(serving[i], res.locked.name))
    PROVE  LET offers == Offering(candidates, res.locked.version)
               found == Carrying(serving[i], res.locked.name, res.locked.version)
           IN  /\ offers = {} <=> found = {}
               /\ offers # {} =>
                     FirstOffering(candidates, res.locked.version).digest
                        = Artifact(serving[i], res.locked.name, res.locked.version).digest
  <1> DEFINE name == res.locked.name
             version == res.locked.version
             list == serving[i][name]
             listing == Metadata(serving[i], name)
             offered == {k \in DOMAIN listing : listing[k].version # Unparsable}
             offers == Offering(candidates, version)
             found == Carrying(serving[i], name, version)
  <1>1. /\ DOMAIN list \subseteq Nat
        /\ \A k \in DOMAIN list : list[k].version \in Version
    BY ServedVersions
  <1>2. /\ DOMAIN listing = DOMAIN list
        /\ \A k \in DOMAIN list : /\ listing[k].version = list[k].version
                                  /\ listing[k].digest = list[k].bytes.digest
    BY DEF Metadata
  <1>3. offered = DOMAIN list
    BY <1>1, <1>2, UnparsableIsNoVersion
  <1>4. PICK order \in Bijection(1..Cardinality(offered), offered) :
           /\ candidates = [k \in DOMAIN order |-> listing[order[k]]]
           /\ \A m, n \in DOMAIN order : m < n =>
                 LET c == Compare(listing[order[m]].version, listing[order[n]].version)
                 IN  c > 0 \/ (c = 0 /\ order[m] < order[n])
    BY DEF OrderCandidates
  <1>5. /\ DOMAIN order = 1..Cardinality(offered)
        /\ \A m \in DOMAIN order : order[m] \in DOMAIN list
        /\ \A k \in DOMAIN list : \E m \in DOMAIN order : order[m] = k
    BY <1>3, <1>4 DEF Bijection, Injection, Surjection
  <1>6. found = {k \in DOMAIN list : list[k].version = version}
    BY DEF Carrying
  <1>7. offers = {m \in DOMAIN order : order[m] \in found}
    BY <1>2, <1>4, <1>5, <1>6 DEF Offering
  <1>8. offers = {} <=> found = {}
    <2>1. ASSUME NEW m \in offers PROVE order[m] \in found
      BY <1>7
    <2>2. ASSUME NEW k \in found PROVE \E m \in offers : order[m] = k
      <3>1. k \in DOMAIN list
        BY <1>6
      <3>2. PICK m \in DOMAIN order : order[m] = k
        BY <1>5, <3>1
      <3>3. m \in offers
        BY <1>7, <3>2
      <3>4. QED
        BY <3>2, <3>3
    <2> HIDE DEF offers, found
    <2>3. QED
      BY <2>1, <2>2
  <1>9. ASSUME offers # {}
        PROVE  FirstOffering(candidates, version).digest = Artifact(serving[i], name, version).digest
    <2>1. offers \subseteq Nat
      BY <1>5, <1>7
    <2>2. \E m \in offers : \A n \in offers : m <= n
      BY <1>9, <2>1, Least
    <2>3. PICK m \in offers :
             /\ \A n \in offers : m <= n
             /\ FirstOffering(candidates, version) = candidates[m]
      BY <2>2 DEF FirstOffering
    <2>4. order[m] \in found /\ FirstOffering(candidates, version).digest = list[order[m]].bytes.digest
      BY <1>2, <1>4, <1>5, <1>7, <2>3
    <2>5. ASSUME NEW k \in found PROVE order[m] <= k
      <3>1. PICK n \in DOMAIN order : order[n] = k
        BY <1>5, <1>6
      <3>2. n \in offers /\ m \in DOMAIN order
        BY <1>7, <2>5, <3>1
      <3>3. m \in Nat /\ n \in Nat /\ m <= n /\ order[m] \in Nat /\ order[n] \in Nat
        BY <1>1, <1>5, <2>1, <2>3, <3>2
      <3>4. /\ listing[order[m]].version = listing[order[n]].version
            /\ listing[order[m]].version \in Version
        BY <1>1, <1>2, <1>6, <2>4, <3>1
      <3>5. Compare(listing[order[m]].version, listing[order[n]].version) = 0
        BY <3>4, CompareZeroIsEquality
      <3>6. QED
        BY <1>4, <3>1, <3>2, <3>3, <3>5
    <2>6. PICK k \in found :
             /\ \A j \in found : k <= j
             /\ Artifact(serving[i], name, version) = list[k].bytes
      BY <1>8, <1>9, CarriedIsPublished
    <2>7. order[m] = k
      <3>1. order[m] <= k /\ k <= order[m]
        BY <2>4, <2>5, <2>6
      <3>2. order[m] \in Nat /\ k \in Nat
        BY <1>1, <1>6, <2>4
      <3>3. QED
        BY ONLY <3>1, <3>2
    <2>8. QED
      BY <2>4, <2>6, <2>7
  <1>10. QED
    BY <1>8, <1>9

-----------------------------------------------------------------------------
\* What the bound source sends next is what its listing said.
ListedHeld ==
    \E i \in DOMAIN RegistrySets :
       /\ Dialled = {i}
       /\ catalogue[i] # Anybody /\ Faithful(catalogue[i])
       /\ Carrying(serving[i], res.locked.name, res.locked.version) # {}
       /\ res.selected.digest
             = Artifact(serving[i], res.locked.name, res.locked.version).digest

ServedHeld ==
    /\ Served
    /\ pc = "artifact" /\ Checked => ListedHeld
    /\ CheckedScenariosDeliver

LEMMA InitServed == ServedInit => ServedHeld
  BY DEF ServedInit, Init, ServedHeld, Served, CheckedScenariosDeliver

\* What the later steps leave alone.
LEMMA Undisturbed ==
    ASSUME UNCHANGED <<input, catalogue, serving>>,
           res'.policy = res.policy, res'.locked = res.locked
    PROVE  /\ Served' <=> Served
           /\ Checked' <=> Checked
           /\ Dialled' = Dialled
           /\ NamedTwice' <=> NamedTwice
           /\ \A b \in Built : Publish(b)' <=> Publish(b)
  <1>1. Dialled' = Dialled
    BY DEF Dialled
  <1>2. (Served' <=> Served) /\ (Checked' <=> Checked)
    BY DEF Served, Checked, ThisScenario, dep
  <1>3. NamedTwice' <=> NamedTwice
    BY <1>1 DEF NamedTwice
  <1>4. \A b \in Built : Publish(b)' <=> Publish(b)
    BY <1>1 DEF Publish
  <1>5. QED
    BY <1>1, <1>2, <1>3, <1>4

\* Before the bound source is asked, a checked scenario fails only on a pooled
\* mapping, on the declared range, or on the registry's absence.
LEMMA EarlyServed ==
    ASSUME Inv, OnCheckedDocuments', ServedHeld, UNCHANGED <<catalogue, serving>>,
           EvaluatePolicy \/ CheckLock \/ QueryMetadata
    PROVE  ServedHeld'
  <1>1. Served'
    BY DEF ServedHeld, Served
  <1>2. pc' # "artifact"
    BY DEF EvaluatePolicy, CheckLock, QueryMetadata, Fail, Proceed
  <1>3. ASSUME pc' = "done", Checked'
        PROVE  \/ failure' = NoFailure
               \/ failure'.class \in {"REGISTRY_UNAVAILABLE", "SOURCE_POLICY_NOT_EXCLUSIVE",
                                      "LOCK_RANGE_CONFLICT"}
    <2>1. Passed'
      BY <1>3 DEF Checked, Passed
    <2>2. \/ failure' = NoFailure
          \/ failure'.stage \in {"registry_query", "artifact_fetch", "integrity"}
          \/ failure'.class \in {"SOURCE_POLICY_NOT_EXCLUSIVE", "LOCK_RANGE_CONFLICT"}
      BY <1>3, <2>1 DEF OnCheckedDocuments, ValidatedScenariosFailOnlyOnAnswers, Passed
    <2>3. failure'.stage \in {"source_policy", "lock"} \/ failure'.class = "REGISTRY_UNAVAILABLE"
      BY <1>3 DEF EvaluatePolicy, CheckLock, QueryMetadata, Fail, Proceed
    <2>4. QED
      BY <2>2, <2>3 DEF NoFailure
  <1>4. CheckedScenariosDeliver'
    BY <1>3 DEF CheckedScenariosDeliver
  <1>5. QED
    BY <1>1, <1>2, <1>4 DEF ServedHeld

\* Once a source is dialled, a checked scenario's is one registry of ours.
LEMMA OursIsDialled ==
    ASSUME Inv, Served, Checked, pc \in {"metadata", "artifact"}
    PROVE  /\ res.locked.name = dep.name
           /\ \E i \in DOMAIN RegistrySets :
                 /\ Dialled = {i}
                 /\ Sets = {serving[i]}
                 /\ catalogue[i] # Anybody
                 /\ Faithful(catalogue[i])
                 /\ ~Unknown(NotFound)
                 /\ \A answer \in Listings \cup Blobs : ~Unknown(answer)
  <1>1. /\ Valid(input.policy) /\ res.policy.bound \in SourceIds(input.policy)
        /\ res.locked.name = dep.name
    BY DEF Inv, PolicyHeld, LockHeld, Held, Binds, Agree, dep
  <1>2. QED
    BY <1>1, OneIsDialled

\* A registry of ours that refuses a name, or lists no offer of the locked
\* version, does not publish it; the offer selected is what it will send.
LEMMA MetadataServed ==
    ASSUME Inv, OnCheckedDocuments, ServedHeld, UNCHANGED <<catalogue, serving>>,
           NEW answer \in Refusals \cup Listings, AskMetadata(answer)
    PROVE  ServedHeld'
  <1>1. /\ pc = "metadata" /\ UNCHANGED input /\ ReceiveMetadata(answer)
        /\ Served /\ TypeOK
    BY DEF AskMetadata, ReceiveMetadata, ServedHeld, Inv
  <1>2. res'.policy = res.policy /\ res'.locked = res.locked
    BY <1>1 DEF ReceiveMetadata, SelectLocked, Fail, Proceed, TypeOK, NoResolution
  <1>3. /\ Served' /\ (Checked' <=> Checked) /\ Dialled' = Dialled
        /\ NamedTwice' <=> NamedTwice
        /\ \A b \in Built : Publish(b)' <=> Publish(b)
    BY <1>1, <1>2, Undisturbed
  <1>4. CASE ~Checked
    BY <1>3, <1>4 DEF ServedHeld, CheckedScenariosDeliver
  <1>5. CASE answer = Unavailable
    <2>1. pc' = "done" /\ failure'.class = "REGISTRY_UNAVAILABLE"
      BY <1>1, <1>5, RefusalsDiffer, RefusalsAreNoDocuments DEF ReceiveMetadata, Fail
    <2>2. QED
      BY <1>3, <2>1 DEF ServedHeld, CheckedScenariosDeliver
  <1>6. CASE Checked /\ answer # Unavailable
    <2>1. PICK i \in DOMAIN RegistrySets :
             /\ Dialled = {i} /\ Sets = {serving[i]}
             /\ catalogue[i] # Anybody /\ Faithful(catalogue[i])
             /\ ~Unknown(NotFound)
             /\ \A a \in Listings \cup Blobs : ~Unknown(a)
      BY <1>1, <1>6, OursIsDialled
    <2>2. res.locked.name = dep.name
      BY <1>1, <1>6, OursIsDialled
    <2> DEFINE name == res.locked.name
               version == res.locked.version
               found == Carrying(serving[i], name, version)
               NotPublished == NamedTwice \/ ~(\E b \in Built : Publish(b))
    <2>3. answer = Metadata(serving[i], name)
      BY <1>6, <2>1, <2>2 DEF AskMetadata, Refusals
    <2>4. found = {} => NotPublished
      BY <1>1, <2>1, NotCarriedIsNotPublished
    <2>5. NotPublished' <=> NotPublished
      BY <1>3
    <2>6. ASSUME found = {},
                 pc' = "done", failure' = [class |-> "ARTIFACT_UNAVAILABLE", stage |-> "registry_query"]
          PROVE  ServedHeld'
      BY <1>3, <2>4, <2>5, <2>6 DEF ServedHeld, CheckedScenariosDeliver
    <2>7. CASE answer = NotFound
      <3>1. name \notin DOMAIN serving[i]
        BY <1>1, <2>1, <2>3, <2>7, SetFacts, RefusalsAreNoDocuments
      <3>2. found = {}
        BY <3>1 DEF Carrying
      <3>3. /\ pc' = "done"
            /\ failure' = [class |-> "ARTIFACT_UNAVAILABLE", stage |-> "registry_query"]
        BY <1>1, <2>7, RefusalsDiffer, RefusalsAreNoDocuments DEF ReceiveMetadata, Fail
      <3>4. QED
        BY <2>6, <3>2, <3>3
    <2>8. CASE answer \in Listings
      <3>1. name \in DOMAIN serving[i]
        BY <2>3, <2>8, RefusalsAreNoDocuments DEF Metadata
      <3>2. PICK candidates \in OrderCandidates(answer) : SelectLocked(candidates)
        BY <1>1, <2>8, RefusalsAreNoDocuments DEF ReceiveMetadata
      <3>3. /\ Offering(candidates, version) = {} <=> found = {}
            /\ Offering(candidates, version) # {} =>
                  FirstOffering(candidates, version).digest
                     = Artifact(serving[i], name, version).digest
        BY <1>1, <2>1, <2>3, <3>1, <3>2, ListedIsSent
      <3>4. CASE Offering(candidates, version) = {}
        BY <2>6, <3>2, <3>3, <3>4 DEF SelectLocked, Fail
      <3>5. CASE Offering(candidates, version) # {}
        <4>1. /\ pc' = "artifact"
              /\ res'.selected = FirstOffering(candidates, version)
          BY <1>1, <3>2, <3>5 DEF SelectLocked, Proceed, TypeOK, NoResolution
        <4>2. /\ Carrying(serving[i], name, version)' = found
              /\ Artifact(serving[i], name, version)' = Artifact(serving[i], name, version)
          BY <1>2
        <4>3. ListedHeld'
          BY <1>3, <2>1, <3>3, <3>5, <4>1, <4>2 DEF ListedHeld
        <4>4. QED
          BY <1>3, <4>1, <4>3 DEF ServedHeld, CheckedScenariosDeliver
      <3>6. QED
        BY <3>4, <3>5
    <2>9. QED
      BY <1>6, <2>7, <2>8 DEF Refusals
  <1>7. QED
    BY <1>4, <1>5, <1>6

\* What was listed is sent, is published, and has the locked bytes' digest only
\* when it is those bytes.
LEMMA ArtifactServed ==
    ASSUME Inv, OnCheckedDocuments, OnCheckedDocuments', ServedHeld,
           UNCHANGED <<catalogue, serving>>,
           NEW answer \in Refusals \cup Blobs, FetchArtifact(answer)
    PROVE  ServedHeld'
  <1>1. /\ pc = "artifact" /\ UNCHANGED input /\ ReceiveArtifact(answer)
        /\ Served /\ TypeOK /\ failure = NoFailure /\ res.locked = TheLocked
    BY DEF FetchArtifact, ReceiveArtifact, ServedHeld, Inv, PackageHeld, Held, OnCheckedDocuments
  <1>2. /\ res'.policy = res.policy /\ res'.locked = res.locked /\ res'.selected = res.selected
        /\ pc' = "done"
    BY <1>1 DEF ReceiveArtifact, Open, Fail, Proceed, TypeOK, NoResolution
  <1>3. /\ Served' /\ (Checked' <=> Checked) /\ Dialled' = Dialled
        /\ NamedTwice' <=> NamedTwice
        /\ \A b \in Built : Publish(b)' <=> Publish(b)
    BY <1>1, <1>2, Undisturbed
  <1>4. CASE ~Checked
    BY <1>2, <1>3, <1>4 DEF ServedHeld, CheckedScenariosDeliver
  <1>5. CASE answer = Unavailable
    <2>1. failure'.class = "REGISTRY_UNAVAILABLE"
      BY <1>1, <1>5, RefusalsDiffer, RefusalsAreNoDocuments DEF ReceiveArtifact, Fail
    <2>2. QED
      BY <1>2, <1>3, <2>1 DEF ServedHeld, CheckedScenariosDeliver
  <1>6. CASE Checked /\ answer # Unavailable
    <2>1. PICK i \in DOMAIN RegistrySets :
             /\ Dialled = {i} /\ Sets = {serving[i]}
             /\ catalogue[i] # Anybody /\ Faithful(catalogue[i])
             /\ ~Unknown(NotFound)
             /\ \A a \in Listings \cup Blobs : ~Unknown(a)
      BY <1>1, <1>6, OursIsDialled
    <2>2. res.locked.name = dep.name
      BY <1>1, <1>6, OursIsDialled
    <2> DEFINE sent == Artifact(serving[i], res.locked.name, res.locked.version)
    <2>3. /\ Carrying(serving[i], res.locked.name, res.locked.version) # {}
          /\ res.selected.digest = sent.digest
      <3>1. PICK j \in DOMAIN RegistrySets :
               /\ Dialled = {j}
               /\ Carrying(serving[j], res.locked.name, res.locked.version) # {}
               /\ res.selected.digest
                     = Artifact(serving[j], res.locked.name, res.locked.version).digest
        BY <1>1, <1>6 DEF ServedHeld, ListedHeld
      <3>2. i = j
        BY <2>1, <3>1
      <3>3. QED
        BY <3>1, <3>2
    <2>4. sent \in Built /\ Publish(sent)
      BY <1>1, <2>1, <2>3, CarriedIsPublished
    <2>5. answer = sent
      BY <1>6, <2>1, <2>2 DEF FetchArtifact, Refusals
    <2>6. sent \in Blobs /\ sent \notin Refusals
      BY <2>4, BuiltArtifactsAreBytes, RefusalsAreNoDocuments DEF Refusals
    <2>7. Passed /\ Passed'
      BY <1>3, <1>6 DEF Checked, Passed
    <2>8. CASE VerifyBytes(res.locked, sent) # "verified"
      <3>1. failure'.stage = "integrity"
        BY <1>1, <2>5, <2>6, <2>8 DEF ReceiveArtifact, Fail, Refusals
      <3>2. res.selected.digest # res.locked.digest
        <4>1. SUFFICES ASSUME sent.digest = res.locked.digest PROVE FALSE
          BY <2>3
        <4>2. PICK b \in Built : BuiltAs(res.locked, b)
          BY <1>1, <2>7, CheckedDocuments
        <4>3. sent = b
          BY <2>6, <4>1, <4>2, DigestIdentifiesBytes, BuiltArtifactsAreBytes DEF BuiltAs
        <4>4. QED
          BY <2>8, <4>2, <4>3 DEF BuiltAs, VerifyBytes
      <3>3. \E b \in Built : Publish(b)' /\ b.digest = res'.selected.digest
        BY <1>2, <1>3, <2>3, <2>4
      <3>4. QED
        BY <1>2, <1>3, <3>1, <3>2, <3>3 DEF ServedHeld, CheckedScenariosDeliver
    <2>9. CASE VerifyBytes(res.locked, sent) = "verified"
      <3>1. Open(sent)
        BY <1>1, <2>5, <2>6, <2>9 DEF ReceiveArtifact, Refusals
      <3>2. failure' = NoFailure
        \/ failure' \in [class : {"ARTIFACT_MALFORMED", "MANIFEST_MISMATCH"}, stage : {"artifact_parse"}]
        BY <1>1, <3>1 DEF Open, Fail, Proceed
      <3>3. failure' = NoFailure
        BY <1>2, <2>7, <3>2 DEF OnCheckedDocuments, ValidatedScenariosFailOnlyOnAnswers, Passed
      <3>4. QED
        BY <1>2, <1>3, <3>3 DEF ServedHeld, CheckedScenariosDeliver
    <2>10. QED
      BY <2>8, <2>9
  <1>7. QED
    BY <1>4, <1>5, <1>6

\* RegistrySet, Handler and Resolve together: a checked scenario against
\* registries of this repository fails only on its mapping, its range, an answer
\* that does not come, or what the bound source's own document publishes; what a
\* registry lists is what it sends, for every catalogue, scenario and order.
THEOREM CheckedScenariosAreServed == ServedSpec => []CheckedScenariosDeliver
  <1>1. /\ Inv /\ OnCheckedDocuments /\ OnCheckedDocuments' /\ ServedHeld
        /\ [ServedNext]_served
        => ServedHeld'
    <2>1. ASSUME Inv, OnCheckedDocuments, OnCheckedDocuments', ServedHeld, ServedNext
          PROVE  ServedHeld'
      <3>1. UNCHANGED <<catalogue, serving>>
        BY <2>1 DEF ServedNext
      <3>2. CASE EvaluatePolicy \/ CheckLock \/ QueryMetadata
        BY <2>1, <3>1, <3>2, EarlyServed
      <3>3. CASE \E answer \in Refusals \cup Listings : AskMetadata(answer)
        BY <2>1, <3>1, <3>3, MetadataServed
      <3>4. CASE \E answer \in Refusals \cup Blobs : FetchArtifact(answer)
        BY <2>1, <3>1, <3>4, ArtifactServed
      <3>5. QED
        BY <2>1, <3>2, <3>3, <3>4 DEF ServedNext
    <2>2. ServedHeld /\ UNCHANGED served => ServedHeld'
      <3>1. SUFFICES ASSUME ServedHeld, UNCHANGED served PROVE ServedHeld'
        OBVIOUS
      <3>2. UNCHANGED <<input, pc, res, failure, catalogue, serving>>
        BY <3>1 DEF served, vars
      <3>3. /\ Served' /\ (Checked' <=> Checked) /\ Dialled' = Dialled
            /\ NamedTwice' <=> NamedTwice
            /\ \A b \in Built : Publish(b)' <=> Publish(b)
        BY <3>1, <3>2, Undisturbed DEF ServedHeld
      <3>4. ListedHeld' <=> ListedHeld
        BY <3>2, <3>3 DEF ListedHeld
      <3>5. CheckedScenariosDeliver'
        BY <3>1, <3>2, <3>3 DEF ServedHeld, CheckedScenariosDeliver
      <3>6. QED
        BY <3>1, <3>2, <3>3, <3>4, <3>5 DEF ServedHeld
    <2>3. QED
      BY <2>1, <2>2
  <1>2. ServedHeld => CheckedScenariosDeliver
    BY DEF ServedHeld
  <1>3. ServedSpec => ServedInit /\ [][ServedNext]_served
    BY DEF ServedSpec
  <1>4. QED
    BY <1>1, <1>2, <1>3, InitServed, ServedIsResolved, InvIsInvariant, CheckedIsInvariant, PTL
=============================================================================
