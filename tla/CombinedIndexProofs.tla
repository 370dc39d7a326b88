------------------------ MODULE CombinedIndexProofs -------------------------
(***************************************************************************)
(* The pooled resolver's guarantees for every pool, every listing and any  *)
(* number of sources.  None of the three is inductive alone: a selection   *)
(* rests on offers taken one source at a time, so the invariant says that  *)
(* the offers in hand are exactly what the answers in hand offer, and that *)
(* the answers are those of the sources asked, in the pool's order.        *)
(***************************************************************************)
EXTENDS CombinedIndex, DocumentProofs, FiniteSetTheorems

Asking == {"ask", "metadata", "artifact"}

Decided ==
    /\ Verdict(input.policy, dep.name) = "decided"
    /\ res.policy = Decision(input.policy, dep.name)

\* Nothing is asked or selected but by the policy's own decision.
PolicyHeld ==
    /\ input \in Inputs
    /\ pc \in {"policy"} \cup Asking => input.acknowledged
    /\ DOMAIN res = DOMAIN NoResolution
    /\ \/ Decided
       \/ pc \notin Asking /\ requests = <<>> /\ res.queried = <<>> /\ res.selected = None

Sent ==
    [kind : {"metadata", "artifact"}, source : SourceIds(input.policy), name : {dep.name},
     version : Version \cup {None}]

\* The loop over the pool: one question and one answer for each source so far.
LoopHeld ==
    /\ answers \in Seq(Listings \cup {NotFound})
    /\ Unavailable \notin ToSet(answers)
    /\ rank = Len(answers) + 1
    /\ res.queried \in Seq(SourceIds(input.policy))
    /\ requests \in Seq(Sent)
    /\ pc \in {"gate", "policy", "ask", "metadata"} => res.selected = None
    /\ pc \in {"gate", "policy"} => answers = <<>> /\ requests = <<>> /\ res.queried = <<>>
    /\ pc \in {"ask", "metadata"} => Len(requests) = Len(res.queried)
    /\ pc = "ask" => Len(res.queried) = Len(answers) /\ Len(answers) <= Len(pool)
    /\ pc = "metadata" => Len(res.queried) = Len(answers) + 1 /\ Len(answers) < Len(pool)

Fits(v) == v.version # Unparsable /\ Satisfies(dep.range, v.version)

\* The offers in hand are those of the answers in hand.
OffersHeld ==
    /\ IsFiniteSet(offers)
    /\ \A o \in offers :
          /\ o.rank \in DOMAIN answers
          /\ answers[o.rank] \in Listings
          /\ o.place \in DOMAIN answers[o.rank]
          /\ Fits(answers[o.rank][o.place])
          /\ o.version = answers[o.rank][o.place].version
          /\ o.digest = answers[o.rank][o.place].digest
          /\ o.source = pool[o.rank]
    /\ \A k \in DOMAIN answers : answers[k] \in Listings =>
          \A i \in DOMAIN answers[k] : Fits(answers[k][i]) =>
             \E o \in offers : o.rank = k /\ o.version = answers[k][i].version

Inv ==
    /\ PolicyHeld
    /\ LoopHeld
    /\ OffersHeld
    /\ AsksThePoolInOrder
    /\ EverySourceAnsweredFirst
    /\ SelectsTheHighest

\* What a decision says of its pool.
LEMMA PoolFacts ==
    ASSUME input \in Inputs, Decided
    PROVE  /\ pool \in Seq(SourceIds(input.policy))
           /\ \A k \in DOMAIN pool : pool[k] \notin res.policy.excluded
  <1> DEFINE p == input.policy
             m == TheMapping(p, dep.name)
  <1>1. Verdict(p, dep.name) = "decided"
    BY DEF Decided
  <1>2. pool = Pool(m) /\ res.policy.excluded = SourceIds(p) \ ToSet(Pool(m))
    BY DEF Decided, Decision, pool
  <1>3. ToSet(Pool(m)) \subseteq SourceIds(p)
    BY <1>1, PoolIsDeclared
  <1>4. PICK at \in DOMAIN p.mappings : m = p.mappings[at]
    BY <1>1, TheMappingIsTheMatch DEF MappingsOf
  <1>5. m.sources \in Seq(ToSet(m.sources))
    BY <1>4, PoolsAreLists
  <1> HIDE DEF m, p
  <1>6. Pool(m) \in Seq(ToSet(Pool(m)))
    <2>1. CASE m.mode = Combined
      BY <1>5, <2>1 DEF Pool
    <2>2. CASE m.mode # Combined
      <3>1. Pool(m) = <<m.source>>
        BY <2>2 DEF Pool
      <3>2. m.source \in ToSet(Pool(m))
        BY <3>1 DEF ToSet
      <3>3. QED
        BY <3>1, <3>2
    <2>3. QED
      BY <2>1, <2>2
  <1>7. Pool(m) \in Seq(SourceIds(p))
    BY <1>3, <1>6
  <1>8. \A k \in DOMAIN Pool(m) : Pool(m)[k] \in ToSet(Pool(m))
    BY DEF ToSet
  <1>9. QED
    BY <1>2, <1>7, <1>8 DEF p

LEMMA InitInv == Init => Inv
  <1> SUFFICES ASSUME Init PROVE Inv
    OBVIOUS
  <1>1. PolicyHeld
    BY DEF Init, PolicyHeld, NoResolution, Asking
  <1>2. LoopHeld
    BY DEF Init, LoopHeld, NoResolution, ToSet
  <1>3. OffersHeld
    BY FS_EmptySet DEF Init, OffersHeld
  <1>4. AsksThePoolInOrder /\ EverySourceAnsweredFirst /\ SelectsTheHighest
    BY DEF Init, NoResolution, AsksThePoolInOrder, EverySourceAnsweredFirst, SelectsTheHighest
  <1>5. QED
    BY <1>1, <1>2, <1>3, <1>4 DEF Inv

\* A step that leaves alone what was asked, answered and selected.
Kept ==
    /\ UNCHANGED <<input, rank, offers, answers, requests>>
    /\ DOMAIN res' = DOMAIN res
    /\ res'.policy = res.policy
    /\ res'.queried = res.queried
    /\ res'.selected = res.selected

LEMMA KeptFacts ==
    ASSUME Inv, Kept
    PROVE  OffersHeld' /\ AsksThePoolInOrder' /\ EverySourceAnsweredFirst' /\ SelectsTheHighest'
  <1>1. pool' = pool /\ dep' = dep
    BY DEF Kept, pool, dep
  <1>2. OffersHeld'
    BY <1>1 DEF Inv, Kept, OffersHeld, Fits
  <1>3. AsksThePoolInOrder'
    BY <1>1 DEF Inv, Kept, AsksThePoolInOrder
  <1>4. EverySourceAnsweredFirst'
    BY <1>1 DEF Inv, Kept, EverySourceAnsweredFirst
  <1>5. SelectsTheHighest'
    BY <1>1 DEF Inv, Kept, SelectsTheHighest, OfferedBy
  <1>6. QED
    BY <1>2, <1>3, <1>4, <1>5

\* A step after which nothing more happens, or only a fetch is waited for.
LEMMA EndingStep ==
    ASSUME Inv, Kept, pc' \in {"done", "error"}
    PROVE  Inv'
  <1>1. dep' = dep
    BY DEF Kept, dep
  <1>2. PolicyHeld'
    BY <1>1 DEF Inv, Kept, PolicyHeld, Decided, Asking
  <1>3. LoopHeld'
    BY <1>1 DEF Inv, Kept, LoopHeld, Sent
  <1>4. QED
    BY <1>2, <1>3, KeptFacts DEF Inv

LEMMA GateStep == Inv /\ PassGate => Inv'
  <1> SUFFICES ASSUME Inv, PassGate PROVE Inv'
    OBVIOUS
  <1>1. Kept /\ pc = "gate" /\ pc' \in {"policy", "error"}
    BY DEF PassGate, Kept, Proceed
  <1>2. dep' = dep
    BY <1>1 DEF Kept, dep
  <1>3. CASE pc' = "policy"
    <2>1. PolicyHeld'
      BY <1>1, <1>2, <1>3 DEF Inv, Kept, PolicyHeld, Decided, Asking, PassGate, Proceed
    <2>2. LoopHeld'
      BY <1>1, <1>2, <1>3 DEF Inv, Kept, LoopHeld, Sent
    <2>3. QED
      BY <1>1, <2>1, <2>2, KeptFacts DEF Inv
  <1>4. QED
    BY <1>1, <1>3, EndingStep

LEMMA PolicyStep == Inv /\ EvaluatePolicy => Inv'
  <1> SUFFICES ASSUME Inv, EvaluatePolicy PROVE Inv'
    OBVIOUS
  <1> DEFINE decision == Decision(input.policy, dep.name)
  <1>1. /\ pc = "policy"
        /\ UNCHANGED <<input, rank, offers, answers, requests>>
        /\ dep' = dep
    BY DEF EvaluatePolicy, dep
  <1>2. /\ DOMAIN res = DOMAIN NoResolution
        /\ answers = <<>> /\ requests = <<>> /\ res.queried = <<>> /\ res.selected = None
        /\ input \in Inputs
    BY <1>1 DEF Inv, PolicyHeld, LoopHeld
  <1>3. CASE UNCHANGED res /\ pc' = "done"
    BY <1>1, <1>3, EndingStep DEF Kept
  <1>4. CASE /\ Verdict(input.policy, dep.name) = "decided"
             /\ res' = [res EXCEPT !.policy = decision]
             /\ pc' \in {"done", "ask"}
    <2>1. /\ DOMAIN res' = DOMAIN res
          /\ res'.policy = decision
          /\ res'.queried = <<>>
          /\ res'.selected = None
      BY <1>2, <1>4 DEF NoResolution
    <2> HIDE DEF decision
    <2>2. PolicyHeld' /\ Decided'
      BY <1>1, <1>2, <1>4, <2>1 DEF Inv, PolicyHeld, Decided, decision, Asking
    <2>3. Len(pool') \in Nat
      BY <1>1, <1>2, <2>2, PoolFacts DEF Decided, PolicyHeld, pool
    <2>4. LoopHeld'
      <3>1. /\ answers' = <<>> /\ requests' = <<>> /\ res'.queried = <<>> /\ rank' = 1
            /\ Unavailable \notin ToSet(answers)
        BY <1>1, <1>2, <2>1 DEF Inv, LoopHeld
      <3>2. ToSet(answers)' = ToSet(answers)
        BY <1>1
      <3>3. QED
        <4>1. answers' \in Seq(Listings \cup {NotFound}) /\ requests' \in Seq(Sent')
          BY <3>1
        <4>2. res'.queried \in Seq(SourceIds(input'.policy))
          BY <3>1
        <4>3. Unavailable \notin ToSet(answers)' /\ rank' = Len(answers') + 1
          BY <3>1, <3>2
        <4>4. Len(answers') = 0 /\ Len(requests') = 0 /\ Len(res'.queried) = 0
          BY <3>1
        <4>5. QED
          BY <1>4, <2>1, <2>3, <3>1, <4>1, <4>2, <4>3, <4>4 DEF LoopHeld
    <2>5. OffersHeld'
      BY <1>1, <1>2 DEF Inv, OffersHeld, Fits
    <2>6. AsksThePoolInOrder' /\ EverySourceAnsweredFirst' /\ SelectsTheHighest'
      BY <1>1, <1>2, <2>1 DEF AsksThePoolInOrder, EverySourceAnsweredFirst, SelectsTheHighest
    <2>7. QED
      BY <2>2, <2>4, <2>5, <2>6 DEF Inv
  <1>5. QED
    BY <1>3, <1>4 DEF EvaluatePolicy, Fail, Proceed

LEMMA QueryStep == Inv /\ QueryMetadata => Inv'
  <1> SUFFICES ASSUME Inv, QueryMetadata PROVE Inv'
    OBVIOUS
  <1>1. /\ pc = "ask"
        /\ rank <= Len(pool)
        /\ UNCHANGED <<input, rank, offers, answers>>
        /\ dep' = dep
    BY DEF QueryMetadata, dep
  <1>2. CASE UNCHANGED <<res, requests>> /\ pc' = "done"
    BY <1>1, <1>2, EndingStep DEF Kept
  <1>3. CASE /\ res' = [res EXCEPT !.queried = Append(@, pool[rank])]
             /\ Ask("metadata", pool[rank], None)
             /\ pc' = "metadata"
    <2> DEFINE question == [kind |-> "metadata", source |-> pool[rank],
                            name |-> dep.name, version |-> None]
    <2>1. Decided /\ input \in Inputs /\ DOMAIN res = DOMAIN NoResolution
      BY <1>1 DEF Inv, PolicyHeld, Asking
    <2>2. /\ pool \in Seq(SourceIds(input.policy))
          /\ \A k \in DOMAIN pool : pool[k] \notin res.policy.excluded
      BY <2>1, PoolFacts
    <2>3. /\ DOMAIN res' = DOMAIN res
          /\ res'.policy = res.policy
          /\ res'.queried = Append(res.queried, pool[rank])
          /\ res'.selected = res.selected
          /\ pool' = pool
      BY <1>3, <2>1 DEF NoResolution, pool
    <2>4. PolicyHeld'
      BY <1>1, <2>1, <2>3 DEF Inv, PolicyHeld, Decided, Asking
    <2>5. /\ rank = Len(answers) + 1 /\ rank \in DOMAIN pool /\ rank = Len(res.queried) + 1
          /\ Len(requests) = Len(res.queried)
          /\ res.queried \in Seq(SourceIds(input.policy))
          /\ requests \in Seq(Sent)
          /\ res.selected = None
      BY <1>1, <2>2 DEF Inv, LoopHeld
    <2>6. question \in Sent
      BY <2>2, <2>5 DEF Sent
    <2>7. requests' = Append(requests, question)
      BY <1>3 DEF Ask
    <2>8. LoopHeld'
      <3>1. res'.queried \in Seq(SourceIds(input.policy)) /\ requests' \in Seq(Sent)
        BY <2>2, <2>3, <2>5, <2>6, <2>7
      <3>2. Len(requests') = Len(requests) + 1 /\ Len(res'.queried) = Len(res.queried) + 1
        BY <2>3, <2>5, <2>7
      <3>3. QED
        BY <1>1, <1>3, <2>2, <2>3, <2>5, <3>1, <3>2 DEF Inv, LoopHeld, Sent
    <2>9. OffersHeld'
      BY <1>1, <2>3 DEF Inv, OffersHeld, Fits
    <2>10. AsksThePoolInOrder'
      <3> HIDE DEF question
      <3>1. question.kind = "metadata" /\ question.source = pool[rank]
        BY DEF question
      <3>2. input'.acknowledged
        BY <1>1 DEF Inv, PolicyHeld, Asking
      <3>3. QED
        BY <1>1, <2>2, <2>3, <2>5, <2>6, <2>7, <3>1, <3>2 DEF Inv, AsksThePoolInOrder
    <2>11. EverySourceAnsweredFirst' /\ SelectsTheHighest'
      BY <2>3, <2>5 DEF EverySourceAnsweredFirst, SelectsTheHighest
    <2>12. QED
      BY <2>4, <2>8, <2>9, <2>10, <2>11 DEF Inv
  <1>4. QED
    BY <1>2, <1>3 DEF QueryMetadata, Fail, Proceed

LEMMA CompatibleIsFinite ==
    ASSUME NEW listing \in Listings
    PROVE  IsFiniteSet(Compatible(listing))
  <1> DEFINE places == {i \in DOMAIN listing : Fits(listing[i])}
             offer(i) == [source |-> pool[rank], rank |-> rank, place |-> i,
                          version |-> listing[i].version, size |-> listing[i].size,
                          digest |-> listing[i].digest]
             f == [i \in places |-> offer(i)]
  <1>1. DOMAIN listing = 1..Len(listing) /\ Len(listing) \in Nat
    BY ListingsAreLists
  <1>2. IsFiniteSet(DOMAIN listing)
    BY <1>1, FS_Interval
  <1>3. IsFiniteSet(places)
    <2>1. places \in SUBSET DOMAIN listing
      OBVIOUS
    <2>2. QED
      BY <1>2, <2>1, FS_Subset
  <1>4. Compatible(listing) = {offer(i) : i \in places}
    BY DEF Compatible, Fits
  <1> HIDE DEF places, offer
  <1>5. f \in Surjection(places, {offer(i) : i \in places})
    BY DEF Surjection
  <1>6. QED
    BY <1>3, <1>4, <1>5, FS_Surjection

LEMMA ReceiveMetadataStep ==
    ASSUME Inv, NEW answer \in Refusals \cup Listings, ReceiveMetadata(answer)
    PROVE  Inv'
  <1>1. pc = "metadata" /\ UNCHANGED <<input, res, requests>> /\ dep' = dep /\ pool' = pool
    BY DEF ReceiveMetadata, dep, pool
  <1>2. CASE pc' = "done" /\ UNCHANGED <<offers, rank, answers>>
    BY <1>1, <1>2, EndingStep DEF Kept
  <1>3. CASE /\ answer # Unavailable
             /\ pc' = "ask"
             /\ offers' = IF answer = NotFound THEN offers ELSE offers \cup Compatible(answer)
             /\ answers' = Append(answers, answer)
             /\ rank' = rank + 1
    <2>1. Decided /\ input \in Inputs /\ input.acknowledged
      BY <1>1 DEF Inv, PolicyHeld, Asking
    <2>2. pool \in Seq(SourceIds(input.policy))
      BY <2>1, PoolFacts
    <2>3. /\ answers \in Seq(Listings \cup {NotFound})
          /\ rank = Len(answers) + 1
          /\ Unavailable \notin ToSet(answers)
          /\ Len(res.queried) = Len(answers) + 1
          /\ Len(answers) < Len(pool)
          /\ res.selected = None
      BY <1>1 DEF Inv, LoopHeld
    <2>4. answer \in Listings \cup {NotFound}
      BY <1>3 DEF Refusals
    <2>5. /\ answers' \in Seq(Listings \cup {NotFound})
          /\ Len(answers') = rank
          /\ DOMAIN answers' = DOMAIN answers \cup {rank}
          /\ rank \notin DOMAIN answers
          /\ answers'[rank] = answer
          /\ \A k \in DOMAIN answers : answers'[k] = answers[k]
      BY <1>3, <2>3, <2>4
    <2>6. PolicyHeld'
      BY <1>1, <1>3, <2>1 DEF Inv, PolicyHeld, Decided, Asking
    <2>7. LoopHeld'
      <3>1. Unavailable \notin ToSet(answers')
        BY <1>3, <2>3, <2>5 DEF ToSet
      <3>2. rank' = Len(answers') + 1 /\ Len(answers') = Len(res.queried) /\ Len(answers') <= Len(pool)
        BY <1>3, <2>2, <2>3, <2>5
      <3>3. ToSet(answers)' = ToSet(answers')
        OBVIOUS
      <3>4. Sent' = Sent
        BY <1>1 DEF Sent
      <3>5. QED
        BY <1>1, <1>3, <2>3, <2>5, <3>1, <3>2, <3>3, <3>4 DEF Inv, LoopHeld
    <2>8. OffersHeld'
      <3>1. IsFiniteSet(offers')
        BY <1>3, <2>4, CompatibleIsFinite, FS_Union DEF Inv, OffersHeld
      <3>2. ASSUME NEW o \in Compatible(answer), answer \in Listings
            PROVE  /\ o.rank = rank /\ o.place \in DOMAIN answer /\ Fits(answer[o.place])
                   /\ o.version = answer[o.place].version
                   /\ o.digest = answer[o.place].digest
                   /\ o.source = pool[rank]
        BY <3>2 DEF Compatible, Fits
      <3>3. ASSUME NEW i \in DOMAIN answer, answer \in Listings, Fits(answer[i])
            PROVE  \E o \in Compatible(answer) : o.rank = rank /\ o.version = answer[i].version
        <4> DEFINE o == [source |-> pool[rank], rank |-> rank, place |-> i,
                         version |-> answer[i].version, size |-> answer[i].size,
                         digest |-> answer[i].digest]
        <4>1. o \in Compatible(answer)
          BY <3>3 DEF Compatible, Fits
        <4>2. o.rank = rank /\ o.version = answer[i].version
          OBVIOUS
        <4>3. QED
          BY <4>1, <4>2
      <3>4. \A v : Fits(v)' <=> Fits(v)
        BY <1>1 DEF Fits
      <3>5. NotFound \notin Listings
        BY RefusalsAreNoDocuments
      <3>6. ASSUME NEW o \in offers'
            PROVE  /\ o.rank \in DOMAIN answers'
                   /\ answers'[o.rank] \in Listings
                   /\ o.place \in DOMAIN answers'[o.rank]
                   /\ Fits(answers'[o.rank][o.place])
                   /\ o.version = answers'[o.rank][o.place].version
                   /\ o.digest = answers'[o.rank][o.place].digest
                   /\ o.source = pool[o.rank]
        <4>1. CASE o \in offers
          BY <2>5, <4>1 DEF Inv, OffersHeld
        <4>2. CASE o \in Compatible(answer) /\ answer # NotFound
          BY <2>4, <2>5, <3>2, <4>2
        <4>3. QED
          BY <1>3, <4>1, <4>2
      <3>7. ASSUME NEW k \in DOMAIN answers', answers'[k] \in Listings,
                   NEW i \in DOMAIN answers'[k], Fits(answers'[k][i])
            PROVE  \E o \in offers' : o.rank = k /\ o.version = answers'[k][i].version
        <4>1. CASE k \in DOMAIN answers
          BY <1>3, <2>5, <3>7, <4>1 DEF Inv, OffersHeld
        <4>2. CASE k = rank
          BY <1>3, <2>5, <3>3, <3>5, <3>7, <4>2
        <4>3. QED
          BY <2>5, <4>1, <4>2
      <3>8. QED
        BY <1>1, <3>1, <3>4, <3>6, <3>7 DEF OffersHeld
    <2>9. AsksThePoolInOrder'
      BY <1>1 DEF Inv, AsksThePoolInOrder
    <2>10. EverySourceAnsweredFirst' /\ SelectsTheHighest'
      BY <1>1, <2>3 DEF EverySourceAnsweredFirst, SelectsTheHighest
    <2>11. QED
      BY <2>6, <2>7, <2>8, <2>9, <2>10 DEF Inv
  <1>4. QED
    BY <1>2, <1>3 DEF ReceiveMetadata, Fail, Proceed

\* The merge of some offers begins with one of them, which comes before every
\* other.
LEMMA MergeBegins ==
    ASSUME NEW S, IsFiniteSet(S), S # {}, NEW merged \in Merges(S)
    PROVE  /\ merged[1] \in S
           /\ \A o \in S : o = merged[1] \/ Before(merged[1], o)
  <1>1. Cardinality(S) \in Nat /\ Cardinality(S) # 0
    BY FS_CardinalityType, FS_EmptySet
  <1>2. 1 \in 1..Cardinality(S)
    BY <1>1
  <1>3. /\ merged \in [1..Cardinality(S) -> S]
        /\ \A o \in S : \E j \in 1..Cardinality(S) : merged[j] = o
        /\ \A i, j \in DOMAIN merged : i < j => Before(merged[i], merged[j])
    BY DEF Merges, Bijection, Injection, Surjection
  <1>4. ASSUME NEW o \in S
        PROVE  o = merged[1] \/ Before(merged[1], o)
    <2>1. PICK j \in 1..Cardinality(S) : merged[j] = o
      BY <1>3
    <2>2. j = 1 \/ 1 < j
      BY <1>1
    <2>3. QED
      BY <1>2, <1>3, <2>1, <2>2
  <1>5. QED
    BY <1>2, <1>3, <1>4

LEMMA CompareSame ==
    ASSUME NEW v \in Version
    PROVE  Compare(v, v) = 0
  BY ComponentWidth DEF Version, Compare, CmpUint

LEMMA SelectStep == Inv /\ Select => Inv'
  <1> SUFFICES ASSUME Inv, Select PROVE Inv'
    OBVIOUS
  <1>1. /\ pc = "ask"
        /\ rank > Len(pool)
        /\ UNCHANGED <<input, rank, offers, answers>>
        /\ dep' = dep
    BY DEF Select, dep
  <1>2. CASE UNCHANGED <<res, requests>> /\ pc' = "done"
    BY <1>1, <1>2, EndingStep DEF Kept
  <1>3. ASSUME offers # {}, NEW merged \in Merges(offers), Take(merged)
        PROVE  Inv'
    <2> DEFINE question == [kind |-> "artifact", source |-> merged[1].source,
                            name |-> dep.name, version |-> merged[1].version]
    <2>1. /\ Decided /\ input \in Inputs /\ input.acknowledged
          /\ DOMAIN res = DOMAIN NoResolution
      BY <1>1 DEF Inv, PolicyHeld, Asking
    <2>2. /\ pool \in Seq(SourceIds(input.policy))
          /\ \A k \in DOMAIN pool : pool[k] \notin res.policy.excluded
      BY <2>1, PoolFacts
    <2>3. /\ answers \in Seq(Listings \cup {NotFound})
          /\ Unavailable \notin ToSet(answers)
          /\ rank = Len(answers) + 1
          /\ res.queried \in Seq(SourceIds(input.policy))
          /\ requests \in Seq(Sent)
          /\ Len(requests) = Len(res.queried)
          /\ Len(res.queried) = Len(answers)
          /\ Len(answers) = Len(pool)
      BY <1>1, <2>2 DEF Inv, LoopHeld
    <2>4. /\ DOMAIN res' = DOMAIN res
          /\ res'.policy = res.policy
          /\ res'.queried = res.queried
          /\ res'.selected = merged[1]
          /\ pool' = pool
      BY <1>3, <2>1 DEF Take, NoResolution, pool
    <2>5. /\ merged[1] \in offers
          /\ \A o \in offers : o = merged[1] \/ Before(merged[1], o)
      BY <1>3, MergeBegins DEF Inv, OffersHeld
    <2>6. \/ pc' = "done" /\ requests' = requests
          \/ pc' = "artifact" /\ requests' = Append(requests, question)
      BY <1>3 DEF Take, Ask, Fail, Proceed
    <2>7. \A o \in offers :
             /\ o.rank \in DOMAIN answers
             /\ answers[o.rank] \in Listings
             /\ o.place \in DOMAIN answers[o.rank]
             /\ Fits(answers[o.rank][o.place])
             /\ o.version = answers[o.rank][o.place].version
             /\ o.digest = answers[o.rank][o.place].digest
             /\ o.source = pool[o.rank]
             /\ o.version \in Version
      <3>1. \A o \in offers :
             /\ o.rank \in DOMAIN answers
             /\ answers[o.rank] \in Listings
             /\ o.place \in DOMAIN answers[o.rank]
             /\ Fits(answers[o.rank][o.place])
             /\ o.version = answers[o.rank][o.place].version
             /\ o.digest = answers[o.rank][o.place].digest
             /\ o.source = pool[o.rank]
        BY DEF Inv, OffersHeld
      <3>2. QED
        BY <3>1, ListingsAreLists DEF Fits
    <2>8. merged[1].rank \in DOMAIN pool /\ merged[1].source = pool[merged[1].rank]
      BY <2>2, <2>3, <2>5, <2>7
    <2>9. question \in Sent
      BY <2>2, <2>5, <2>7, <2>8 DEF Sent
    <2>10. PolicyHeld'
      BY <1>1, <2>1, <2>4 DEF Inv, PolicyHeld, Decided
    <2>11. LoopHeld'
      <3>1. requests' \in Seq(Sent)
        BY <2>3, <2>6, <2>9
      <3>2. Sent' = Sent /\ ToSet(answers)' = ToSet(answers)
        BY <1>1 DEF Sent
      <3>3. QED
        BY <1>1, <2>3, <2>4, <2>6, <3>1, <3>2 DEF LoopHeld
    <2>12. OffersHeld'
      BY <1>1, <2>4 DEF Inv, OffersHeld, Fits
    <2>13. AsksThePoolInOrder'
      <3> HIDE DEF question
      <3>1. question.kind = "artifact" /\ question.source = pool[merged[1].rank]
        BY <2>8 DEF question
      <3>2. QED
        <4>1. AsksThePoolInOrder /\ input.acknowledged
          BY <2>1 DEF Inv
        <4>2. pool[merged[1].rank] \notin res.policy.excluded
          BY <2>2, <2>8
        <4>3. \/ requests' = requests
              \/ /\ requests' = Append(requests, question)
                 /\ Len(requests') = Len(requests) + 1
                 /\ requests'[Len(requests) + 1] = question
                 /\ \A k \in 1..Len(requests) : requests'[k] = requests[k]
          BY <2>3, <2>6, <2>9
        <4>4. \/ DOMAIN requests' = 1..Len(requests)
              \/ DOMAIN requests' = 1..(Len(requests) + 1)
          BY <2>3, <2>6, <2>9
        <4>5. Len(requests') \in {Len(res.queried), Len(res.queried) + 1}
          BY <2>3, <4>3
        <4>6. ASSUME NEW k \in DOMAIN requests'
              PROVE  /\ IF k <= Len(res.queried)
                        THEN /\ requests'[k].kind = "metadata"
                             /\ requests'[k].source = res.queried[k]
                        ELSE requests'[k].kind = "artifact"
                     /\ requests'[k].source \notin res.policy.excluded
          <5>1. CASE k \in 1..Len(requests)
            <6>1. requests'[k] = requests[k] /\ k \in DOMAIN requests
              BY <2>3, <4>3, <5>1
            <6>2. QED
              BY <4>1, <6>1 DEF AsksThePoolInOrder
          <5>2. CASE k \notin 1..Len(requests)
            <6>1. k = Len(requests) + 1 /\ requests'[k] = question
              BY <2>3, <4>3, <4>4, <5>2
            <6>2. ~ k <= Len(res.queried)
              BY <2>3, <6>1
            <6>3. QED
              BY <3>1, <4>2, <6>1, <6>2
          <5>3. QED
            BY <5>1, <5>2
        <4>7. QED
          BY <1>1, <2>4, <4>1, <4>5, <4>6 DEF AsksThePoolInOrder
    <2>14. EverySourceAnsweredFirst'
      <3>1. \A k \in DOMAIN res.queried : res.queried[k] = pool[k]
        BY DEF Inv, AsksThePoolInOrder
      <3>2. res.queried = pool
        BY <2>2, <2>3, <3>1
      <3>3. ToSet(answers)' = ToSet(answers)
        BY <1>1
      <3>4. QED
        BY <1>1, <2>3, <2>4, <3>2, <3>3 DEF EverySourceAnsweredFirst
    <2>15. SelectsTheHighest'
      <3> DEFINE s == merged[1]
      <3>1. ASSUME NEW k \in DOMAIN answers, NEW v \in OfferedBy(k)
            PROVE  \/ Compare(s.version, v.version) > 0
                   \/ Compare(s.version, v.version) = 0 /\ s.rank <= k
        <4>1. answers[k] \in Listings /\ v \in ToSet(answers[k]) /\ Fits(v)
          BY <2>3, <3>1 DEF OfferedBy, Fits
        <4>2. PICK i \in DOMAIN answers[k] : answers[k][i] = v
          BY <4>1 DEF ToSet
        <4>3. PICK o \in offers : o.rank = k /\ o.version = v.version
          BY <4>1, <4>2 DEF Inv, OffersHeld
        <4>4. CASE o = s
          BY <2>3, <2>5, <2>7, <4>3, <4>4, CompareSame
        <4>5. CASE Before(s, o)
          BY <2>3, <2>5, <2>7, <4>3, <4>5 DEF Before
        <4>6. QED
          BY <2>5, <4>3, <4>4, <4>5
      <3>2. \E v \in OfferedBy(s.rank) : v.version = s.version /\ v.digest = s.digest
        <4>1. answers[s.rank] # NotFound
          BY <2>5, <2>7, RefusalsAreNoDocuments
        <4>2. answers[s.rank][s.place] \in OfferedBy(s.rank)
          BY <2>5, <2>7, <4>1 DEF OfferedBy, Fits, ToSet
        <4>3. QED
          BY <2>5, <2>7, <4>2
      <3>3. \A k : OfferedBy(k)' = OfferedBy(k)
        BY <1>1 DEF OfferedBy, ToSet
      <3> HIDE DEF s
      <3>4. res'.selected = s
        BY <2>4 DEF s
      <3>5. s.source = pool[s.rank]
        BY <2>8 DEF s
      <3>6. QED
        BY <1>1, <2>4, <3>1, <3>2, <3>3, <3>4, <3>5 DEF SelectsTheHighest
    <2>16. QED
      BY <2>10, <2>11, <2>12, <2>13, <2>14, <2>15 DEF Inv
  <1>4. QED
    BY <1>2, <1>3 DEF Select, Fail

LEMMA ReceiveArtifactStep ==
    ASSUME Inv, NEW answer \in Refusals \cup Blobs, ReceiveArtifact(answer)
    PROVE  Inv'
  <1>1. pc = "artifact" /\ DOMAIN res = DOMAIN NoResolution
    BY DEF ReceiveArtifact, Inv, PolicyHeld
  <1>2. pc' = "done"
    BY DEF ReceiveArtifact, Fail, Proceed
  <1>3. Kept
    BY <1>1 DEF ReceiveArtifact, Kept, NoResolution
  <1>4. QED
    BY <1>2, <1>3, EndingStep

LEMMA NextInv == Inv /\ [Next]_vars => Inv'
  <1> SUFFICES ASSUME Inv, [Next]_vars PROVE Inv'
    OBVIOUS
  <1>1. CASE UNCHANGED vars
    <2>1. Kept /\ UNCHANGED pc /\ dep' = dep
      BY <1>1 DEF vars, Kept, dep
    <2>2. PolicyHeld'
      BY <2>1 DEF Inv, Kept, PolicyHeld, Decided, Asking
    <2>3. LoopHeld'
      BY <2>1 DEF Inv, Kept, LoopHeld, Sent, pool
    <2>4. QED
      BY <2>1, <2>2, <2>3, KeptFacts DEF Inv
  <1>2. CASE Next
    BY <1>2, GateStep, PolicyStep, QueryStep, ReceiveMetadataStep, SelectStep,
       ReceiveArtifactStep DEF Next
  <1>3. QED
    BY <1>1, <1>2

LEMMA Invariance == Spec => []Inv
  BY InitInv, NextInv, PTL DEF Spec

-----------------------------------------------------------------------------
\* Whatever the pool and whatever registries answer: sources are asked in the
\* pool's order, each once, and none outside it (combinedindex.Resolve's loop).
THEOREM PoolInOrder == Spec => []AsksThePoolInOrder
  <1>1. Inv => AsksThePoolInOrder
    BY DEF Inv
  <1>2. QED
    BY <1>1, Invariance, PTL

\* No source that could not be reached is passed over, in a pool of any size.
THEOREM NoSourcePassedOver == Spec => []EverySourceAnsweredFirst
  <1>1. Inv => EverySourceAnsweredFirst
    BY DEF Inv
  <1>2. QED
    BY <1>1, Invariance, PTL

\* The selection is the highest version any source of the pool offers, of the
\* first that offers it, for any number of sources and offers: the rule the
\* transcript prints (SelectionRule), and no other.
THEOREM HighestIsSelected == Spec => []SelectsTheHighest
  <1>1. Inv => SelectsTheHighest
    BY DEF Inv
  <1>2. QED
    BY <1>1, Invariance, PTL
=============================================================================
