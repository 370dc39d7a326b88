--------------------------- MODULE DocumentProofs ----------------------------
(***************************************************************************)
(* What both resolvers rely on about versions and policies, for every      *)
(* component width and policies of any size: an accepted spelling is       *)
(* unique, Compare is a total order, every range is an interval of it, and *)
(* what an edit of a policy can and cannot do to a decision.               *)
(***************************************************************************)
EXTENDS Semver, PolicyDocument, FiniteSetTheorems, TLAPS

\* Parse's promise that one version value has exactly one spelling: two
\* accepted spellings of the same value are the same text.  The resolvers
\* match the locked version against a source's by comparing strings.
THEOREM SpellingIsUnique ==
    ASSUME NEW s \in Seq(Part), NEW t \in Seq(Part),
           Parses(s), Parses(t), Parse(s) = Parse(t)
    PROVE  s = t
  <1>1. Len(s) = 3 /\ Len(t) = 3
    BY DEF Parses
  <1>2. \A i \in 1..3 : s[i].number = t[i].number
    BY DEF Parse
  <1>3. ASSUME NEW i \in 1..3
        PROVE  s[i] = t[i]
    <2>1. s[i] \in Part /\ t[i] \in Part
      BY <1>1
    <2>2. s[i].digits = TRUE /\ t[i].digits = TRUE /\ s[i].zeros = t[i].zeros
      BY <2>1 DEF Parses, ParsesPart, Part
    <2>3. \A p \in Part :
            p = [digits |-> p.digits, zeros |-> p.zeros, number |-> p.number]
      BY DEF Part
    <2>4. s[i].number = t[i].number
      BY <1>2
    <2>5. QED
      BY <2>1, <2>2, <2>3, <2>4
  <1>4. QED
    BY <1>1, <1>3

\* Compare reports equality of versions and nothing coarser.
THEOREM CompareZeroIsEquality ==
    ASSUME NEW a \in Version, NEW b \in Version
    PROVE  Compare(a, b) = 0 <=> a = b
  BY ComponentWidth DEF Compare, CmpUint, Version

\* Swapping the arguments of Compare negates its answer: sorting "descending"
\* with it does not depend on the side a version stands on.
THEOREM CompareAntisymmetric ==
    ASSUME NEW a \in Version, NEW b \in Version
    PROVE  Compare(a, b) = -Compare(b, a)
  BY ComponentWidth DEF Compare, CmpUint, Version

\* Compare is transitive, so the sorts of both resolvers have one answer.
THEOREM CompareTransitive ==
    ASSUME NEW a \in Version, NEW b \in Version, NEW c \in Version,
           Compare(a, b) >= 0, Compare(b, c) >= 0
    PROVE  Compare(a, c) >= 0
  BY ComponentWidth DEF Compare, CmpUint, Version

\* A range has no holes: what lies between two satisfying versions satisfies.
THEOREM RangeIsConvex ==
    ASSUME NEW r \in VersionRange,
           NEW a \in Version, NEW b \in Version, NEW c \in Version,
           Compare(c, b) >= 0, Compare(b, a) >= 0,
           Satisfies(r, a), Satisfies(r, c)
    PROVE  Satisfies(r, b)
  <1>1. r.base \in Version /\ r.kind \in RangeKinds
    BY DEF VersionRange
  <1>2. Compare(b, r.base) >= 0
    <2>1. Compare(a, r.base) >= 0
      BY DEF Satisfies
    <2>2. QED
      BY <1>1, <2>1, CompareTransitive
  <1>3. CASE r.kind = "exact"
    <2>1. a = r.base /\ c = r.base
      BY <1>1, <1>3, CompareZeroIsEquality DEF Satisfies
    <2>2. Compare(b, c) = -Compare(c, b)
      BY CompareAntisymmetric
    <2>3. Compare(b, r.base) = 0
      BY <1>2, <2>1, <2>2 DEF Compare, CmpUint
    <2>4. QED
      BY <1>3, <2>3 DEF Satisfies
  <1>4. CASE r.kind = "caret"
    <2>1. a.major = r.base.major /\ c.major = r.base.major
      BY <1>4 DEF Satisfies
    <2>2. b.major = r.base.major
      BY <2>1, ComponentWidth DEF Compare, CmpUint, Version
    <2>3. QED
      BY <1>2, <1>4, <2>2 DEF Satisfies
  <1>5. CASE r.kind = "at-least"
    BY <1>2, <1>5 DEF Satisfies
  <1>6. QED
    BY <1>1, <1>3, <1>4, <1>5 DEF RangeKinds

-----------------------------------------------------------------------------
(***************************************************************************)
(* Policies.                                                               *)
(***************************************************************************)

MappingsOf(p) == {p.mappings[i] : i \in DOMAIN p.mappings}

\* The mapping a decided name was decided by is the one that covers it.
LEMMA TheMappingIsTheMatch ==
    ASSUME NEW p, NEW name, Verdict(p, name) = "decided"
    PROVE  /\ TheMapping(p, name) \in MappingsOf(p)
           /\ Matches(TheMapping(p, name).pattern, name)
           /\ \A i \in DOMAIN p.mappings :
                 Matches(p.mappings[i].pattern, name) => p.mappings[i] = TheMapping(p, name)
  <1>1. PICK k \in DOMAIN p.mappings : MatchedBy(p, name) = {k}
    BY DEF Verdict
  <1>2. TheMapping(p, name) = p.mappings[k]
    BY <1>1 DEF TheMapping
  <1>3. QED
    BY <1>1, <1>2 DEF MatchedBy, MappingsOf

\* A mapping added to a policy never sends a name that was decided somewhere
\* else: the larger policy decides it alike or refuses it.
THEOREM AddingMappingsNeverRebinds ==
    ASSUME NEW p, NEW q, NEW name,
           MappingsOf(p) \subseteq MappingsOf(q),
           Verdict(p, name) = "decided", Verdict(q, name) = "decided"
    PROVE  /\ Decision(q, name).mode = Decision(p, name).mode
           /\ Decision(q, name).bound = Decision(p, name).bound
           /\ Decision(q, name).pool = Decision(p, name).pool
  <1>1. TheMapping(p, name) \in MappingsOf(q) /\ Matches(TheMapping(p, name).pattern, name)
    BY TheMappingIsTheMatch
  <1>2. TheMapping(q, name) = TheMapping(p, name)
    BY <1>1, TheMappingIsTheMatch DEF MappingsOf
  <1>3. QED
    BY <1>2 DEF Decision

\* The verdict and the decision depend on the entries of the document alone:
\* "Sources is display order only.  It never decides trust."
THEOREM OrderIsIrrelevant ==
    ASSUME NEW p, NEW q, NEW name,
           Valid(p), Valid(q),
           MappingsOf(p) = MappingsOf(q), SourceIds(p) = SourceIds(q)
    PROVE  /\ Verdict(p, name) = Verdict(q, name)
           /\ Verdict(p, name) = "decided" => Decision(p, name) = Decision(q, name)
  <1>1. ASSUME NEW a, NEW b, Valid(a), Valid(b), MappingsOf(a) = MappingsOf(b)
        PROVE  /\ MatchedBy(a, name) = {} => MatchedBy(b, name) = {}
               /\ Verdict(a, name) = "decided" => Verdict(b, name) = "decided"
    <2>1. \A j \in DOMAIN b.mappings : \E i \in DOMAIN a.mappings : a.mappings[i] = b.mappings[j]
      BY <1>1 DEF MappingsOf
    <2>2. MatchedBy(a, name) = {} => MatchedBy(b, name) = {}
      BY <2>1 DEF MatchedBy
    <2>3. ASSUME Verdict(a, name) = "decided"
          PROVE  Verdict(b, name) = "decided"
      <3>1. TheMapping(a, name) \in MappingsOf(b) /\ Matches(TheMapping(a, name).pattern, name)
        BY <1>1, <2>3, TheMappingIsTheMatch
      <3>2. PICK k \in DOMAIN b.mappings : b.mappings[k] = TheMapping(a, name)
        BY <3>1 DEF MappingsOf
      <3>3. ASSUME NEW j \in MatchedBy(b, name)
            PROVE  j = k
        <4>1. j \in DOMAIN b.mappings /\ Matches(b.mappings[j].pattern, name)
          BY <3>3 DEF MatchedBy
        <4>2. b.mappings[j] = b.mappings[k]
          BY <2>1, <2>3, <3>2, <4>1, TheMappingIsTheMatch
        <4>3. QED
          BY <1>1, <4>1, <4>2 DEF Valid
      <3>4. MatchedBy(b, name) = {k}
        BY <3>1, <3>2, <3>3 DEF MatchedBy
      <3>5. QED
        BY <1>1, <3>4 DEF Verdict
    <2>4. QED
      BY <2>2, <2>3
  <1>2. Verdict(p, name) = Verdict(q, name)
    <2>1. MatchedBy(p, name) = {} <=> MatchedBy(q, name) = {}
      BY <1>1
    <2>2. Verdict(p, name) = "decided" <=> Verdict(q, name) = "decided"
      BY <1>1
    <2>3. Verdict(p, name) = "unresolved" <=> Verdict(q, name) = "unresolved"
      BY <2>1 DEF Verdict
    <2>4. QED
      BY <2>1, <2>2, <2>3 DEF Verdict
  <1>3. ASSUME Verdict(p, name) = "decided"
        PROVE  Decision(p, name) = Decision(q, name)
    <2>1. TheMapping(p, name) \in MappingsOf(q) /\ Matches(TheMapping(p, name).pattern, name)
      BY <1>3, TheMappingIsTheMatch
    <2>2. PICK k \in DOMAIN q.mappings : q.mappings[k] = TheMapping(p, name)
      BY <2>1 DEF MappingsOf
    <2>3. Verdict(q, name) = "decided"
      BY <1>2, <1>3
    <2>4. TheMapping(p, name) = TheMapping(q, name)
      BY <2>1, <2>2, <2>3, TheMappingIsTheMatch
    <2>5. QED
      BY <2>4 DEF Decision
  <1>4. QED
    BY <1>2, <1>3

\* The sources of a valid policy's mapping, as its decision lists them, are
\* declared ones and no two are the same.
LEMMA PoolIsDeclared ==
    ASSUME NEW p, NEW name, Verdict(p, name) = "decided"
    PROVE  LET m == TheMapping(p, name)
           IN  /\ ToSet(Pool(m)) \subseteq SourceIds(p)
               /\ Unique(Pool(m))
               /\ m.mode = Exclusive => Pool(m) = <<m.source>> /\ m.source \in SourceIds(p)
  <1> DEFINE m == TheMapping(p, name)
  <1>1. ValidMapping(p, m)
    BY TheMappingIsTheMatch DEF Verdict, Valid, MappingsOf
  <1>2. CASE m.mode = Combined
    BY <1>1, <1>2 DEF ValidMapping, Pool, ToSet, Exclusive, Combined
  <1>3. CASE m.mode = Exclusive
    <2>1. Pool(m) = <<m.source>> /\ m.source \in SourceIds(p)
      BY <1>1, <1>3 DEF ValidMapping, Pool, Exclusive, Combined
    <2>2. QED
      BY <1>3, <2>1 DEF ToSet, Unique
  <1>4. QED
    BY <1>1, <1>2, <1>3 DEF ValidMapping

\* A decision accounts for every declared source exactly once: it is in the
\* pool, in one place, or excluded (sourcepolicy.Resolve fills both lists); an
\* exclusive decision's pool is the source it binds, and no other decision binds.
THEOREM EverySourceIsPooledOrExcluded ==
    ASSUME NEW p, NEW name, Verdict(p, name) = "decided"
    PROVE  LET d == Decision(p, name)
           IN  /\ ToSet(d.pool) \cap d.excluded = {}
               /\ ToSet(d.pool) \cup d.excluded = SourceIds(p)
               /\ Unique(d.pool)
               /\ d.mode = Exclusive => d.pool = <<d.bound>>
               /\ d.mode # Exclusive => d.bound = NoId
  <1> DEFINE m == TheMapping(p, name)
             d == Decision(p, name)
  <1>1. /\ d.mode = m.mode
        /\ d.bound = IF m.mode = Combined THEN NoId ELSE m.source
        /\ d.pool = Pool(m)
        /\ d.excluded = SourceIds(p) \ ToSet(Pool(m))
    BY DEF Decision
  <1>2. /\ ToSet(Pool(m)) \subseteq SourceIds(p)
        /\ Unique(Pool(m))
        /\ m.mode = Exclusive => Pool(m) = <<m.source>>
    BY PoolIsDeclared
  <1>3. m.mode \in {Exclusive, Combined}
    BY TheMappingIsTheMatch DEF Verdict, Valid, MappingsOf, ValidMapping
  <1> HIDE DEF m, d
  <1>4. /\ ToSet(d.pool) \cap d.excluded = {}
        /\ ToSet(d.pool) \cup d.excluded = SourceIds(p)
        /\ Unique(d.pool)
        /\ d.mode = Exclusive => d.pool = <<d.bound>>
        /\ d.mode # Exclusive => d.bound = NoId
    BY <1>1, <1>2, <1>3 DEF Exclusive, Combined
  <1>5. QED
    BY <1>4 DEF d

-----------------------------------------------------------------------------
\* A policy document as the strict decoder gives it.
Document(S, M) == [formatKnown : BOOLEAN, sources : Seq(S), mappings : Seq(M)]

\* The list other has the entries of list, in places of its own.
Rearranged(list, other) ==
    /\ DOMAIN other = DOMAIN list
    /\ \E f \in [DOMAIN list -> DOMAIN list] :
          /\ \A j, k \in DOMAIN list : f[j] = f[k] => j = k
          /\ \A i \in DOMAIN list : \E k \in DOMAIN list : f[k] = i
          /\ \A k \in DOMAIN list : other[k] = list[f[k]]

LEMMA OrdersRearrange ==
    ASSUME NEW S, NEW list \in Seq(S), NEW f \in Orders(list)
    PROVE  /\ f \in [DOMAIN list -> DOMAIN list]
           /\ \A j, k \in DOMAIN list : f[j] = f[k] => j = k
           /\ \A i \in DOMAIN list : \E k \in DOMAIN list : f[k] = i
  <1> DEFINE D == DOMAIN list
  <1>1. Len(list) \in Nat /\ D = 1 .. Len(list)
    OBVIOUS
  <1>2. IsFiniteSet(D) /\ Cardinality(D) = Len(list)
    BY <1>1, FS_Interval
  <1>3. f \in [D -> D] /\ \A j, k \in D : j # k => f[j] # f[k]
    BY <1>1, <1>2 DEF Orders, SetToSeqs
  <1> HIDE DEF D
  <1>4. f \in Injection(D, D)
    BY <1>3 DEF Injection, IsInjective
  <1>5. f \in Surjection(D, D)
    BY <1>2, <1>4, FS_Injection
  <1>6. QED
    BY <1>3, <1>5 DEF Surjection, D

LEMMA PermutedIsRearranged ==
    ASSUME NEW S, NEW M, NEW p \in Document(S, M),
           NEW s \in Orders(p.sources), NEW m \in Orders(p.mappings)
    PROVE  LET other == Permuted(p, s, m)
           IN  /\ other \in Document(S, M)
               /\ other.formatKnown = p.formatKnown
               /\ Rearranged(p.sources, other.sources)
               /\ Rearranged(p.mappings, other.mappings)
  <1>1. p.sources \in Seq(S) /\ p.mappings \in Seq(M)
    BY DEF Document
  <1>2. s \in [DOMAIN p.sources -> DOMAIN p.sources] /\ m \in [DOMAIN p.mappings -> DOMAIN p.mappings]
    BY <1>1, OrdersRearrange
  <1>3. /\ Permuted(p, s, m).formatKnown = p.formatKnown
        /\ Permuted(p, s, m).sources = [k \in DOMAIN s |-> p.sources[s[k]]]
        /\ Permuted(p, s, m).mappings = [k \in DOMAIN m |-> p.mappings[m[k]]]
    BY DEF Permuted, Document
  <1>4. Rearranged(p.sources, Permuted(p, s, m).sources)
    BY <1>1, <1>2, <1>3, OrdersRearrange DEF Rearranged
  <1>5. Rearranged(p.mappings, Permuted(p, s, m).mappings)
    BY <1>1, <1>2, <1>3, OrdersRearrange DEF Rearranged
  <1>6. Permuted(p, s, m) \in Document(S, M)
    <2>1. \A X : \A t \in Seq(X) : \A f \in [DOMAIN t -> DOMAIN t] : [k \in DOMAIN f |-> t[f[k]]] \in Seq(X)
      OBVIOUS
    <2>2. /\ [k \in DOMAIN s |-> p.sources[s[k]]] \in Seq(S)
          /\ [k \in DOMAIN m |-> p.mappings[m[k]]] \in Seq(M)
      BY ONLY <1>1, <1>2, <2>1
    <2>3. QED
      BY <2>2 DEF Permuted, Document
  <1>7. QED
    BY <1>3, <1>4, <1>5, <1>6

\* A rearranged document has the same entries and is as valid.
LEMMA RearrangedIsAlike ==
    ASSUME NEW S, NEW M, NEW p \in Document(S, M), NEW q \in Document(S, M),
           q.formatKnown = p.formatKnown,
           Rearranged(p.sources, q.sources), Rearranged(p.mappings, q.mappings)
    PROVE  /\ SourceIds(p) = SourceIds(q)
           /\ MappingsOf(p) = MappingsOf(q)
           /\ Valid(p) <=> Valid(q)
  <1>1. /\ p.sources = <<>> <=> q.sources = <<>>
        /\ p.mappings = <<>> <=> q.mappings = <<>>
    <2>1. \A X : \A t \in Seq(X), u \in Seq(X) : DOMAIN t = DOMAIN u => (t = <<>> <=> u = <<>>)
      OBVIOUS
    <2>2. p.sources \in Seq(S) /\ q.sources \in Seq(S) /\ p.mappings \in Seq(M) /\ q.mappings \in Seq(M)
      BY DEF Document
    <2>3. DOMAIN p.sources = DOMAIN q.sources /\ DOMAIN p.mappings = DOMAIN q.mappings
      BY DEF Rearranged
    <2>4. QED
      BY ONLY <2>1, <2>2, <2>3
  <1>2. PICK f \in [DOMAIN p.sources -> DOMAIN p.sources] :
           /\ \A j, k \in DOMAIN p.sources : f[j] = f[k] => j = k
           /\ \A i \in DOMAIN p.sources : \E k \in DOMAIN p.sources : f[k] = i
           /\ \A k \in DOMAIN p.sources : q.sources[k] = p.sources[f[k]]
    BY DEF Rearranged
  <1>3. PICK g \in [DOMAIN p.mappings -> DOMAIN p.mappings] :
           /\ \A j, k \in DOMAIN p.mappings : g[j] = g[k] => j = k
           /\ \A i \in DOMAIN p.mappings : \E k \in DOMAIN p.mappings : g[k] = i
           /\ \A k \in DOMAIN p.mappings : q.mappings[k] = p.mappings[g[k]]
    BY DEF Rearranged
  <1>4. DOMAIN q.sources = DOMAIN p.sources /\ DOMAIN q.mappings = DOMAIN p.mappings
    BY DEF Rearranged
  <1>5. SourceIds(p) = SourceIds(q)
    BY <1>2, <1>4 DEF SourceIds
  <1>6. MappingsOf(p) = MappingsOf(q)
    BY <1>3, <1>4 DEF MappingsOf
  <1>7. ValidSources(p) <=> ValidSources(q)
    <2> DEFINE D == DOMAIN p.sources
               a == p.sources
               b == q.sources
    <2>1. (\A i \in D : a[i].id # NoId /\ a[i].url # NoId /\ a[i].role \in {"private", "public"})
          <=> (\A i \in D : b[i].id # NoId /\ b[i].url # NoId /\ b[i].role \in {"private", "public"})
      BY <1>2
    <2>2. (\A i, j \in D : a[i].id = a[j].id => i = j) <=> (\A i, j \in D : b[i].id = b[j].id => i = j)
      <3>1. ASSUME \A i, j \in D : a[i].id = a[j].id => i = j, NEW i \in D, NEW j \in D,
                   b[i].id = b[j].id
            PROVE  i = j
        BY <1>2, <3>1
      <3>2. ASSUME \A i, j \in D : b[i].id = b[j].id => i = j, NEW i \in D, NEW j \in D,
                   a[i].id = a[j].id
            PROVE  i = j
        BY <1>2, <3>2
      <3>3. QED
        BY <3>1, <3>2
    <2>3. QED
      BY <1>1, <1>4, <2>1, <2>2 DEF ValidSources
  <1>8. Valid(p) <=> Valid(q)
    <2> DEFINE D == DOMAIN p.mappings
               a == p.mappings
               b == q.mappings
    <2>1. \A m : ValidMapping(p, m) <=> ValidMapping(q, m)
      BY <1>5 DEF ValidMapping
    <2>2. (\A i \in D : ValidPattern(a[i].pattern) /\ ValidMapping(p, a[i]))
          <=> (\A i \in D : ValidPattern(b[i].pattern) /\ ValidMapping(q, b[i]))
      BY <1>3, <2>1
    <2>3. (\A i, j \in D : a[i].pattern = a[j].pattern => i = j)
          <=> (\A i, j \in D : b[i].pattern = b[j].pattern => i = j)
      <3>1. ASSUME \A i, j \in D : a[i].pattern = a[j].pattern => i = j, NEW i \in D, NEW j \in D,
                   b[i].pattern = b[j].pattern
            PROVE  i = j
        BY <1>3, <3>1
      <3>2. ASSUME \A i, j \in D : b[i].pattern = b[j].pattern => i = j, NEW i \in D, NEW j \in D,
                   a[i].pattern = a[j].pattern
            PROVE  i = j
        BY <1>3, <3>2
      <3>3. QED
        BY <3>1, <3>2
    <2>4. QED
      BY <1>1, <1>4, <1>7, <2>2, <2>3 DEF Valid
  <1>9. QED
    BY <1>5, <1>6, <1>8

\* Neither the order of a document's sources nor that of its mappings decides
\* anything, for documents of any length, valid or not, and any names.
THEOREM OrderDecidesNothing ==
    ASSUME NEW S, NEW M, policy \in Document(S, M)
    PROVE  OrderNeverDecides
  <1> SUFFICES ASSUME NEW s \in Orders(policy.sources), NEW m \in Orders(policy.mappings),
                      NEW name
               PROVE  /\ Verdict(policy, name) = Verdict(Permuted(policy, s, m), name)
                      /\ Decides(policy, name) =>
                            Decision(policy, name) = Decision(Permuted(policy, s, m), name)
    BY DEF OrderNeverDecides
  <1> DEFINE other == Permuted(policy, s, m)
  <1>1. /\ other \in Document(S, M)
        /\ other.formatKnown = policy.formatKnown
        /\ Rearranged(policy.sources, other.sources)
        /\ Rearranged(policy.mappings, other.mappings)
    BY PermutedIsRearranged
  <1> HIDE DEF other
  <1>2. /\ SourceIds(policy) = SourceIds(other)
        /\ MappingsOf(policy) = MappingsOf(other)
        /\ Valid(policy) <=> Valid(other)
    BY <1>1, RearrangedIsAlike
  <1>3. CASE Valid(policy)
    BY <1>2, <1>3, OrderIsIrrelevant DEF other, Decides
  <1>4. CASE ~Valid(policy)
    BY <1>2, <1>4 DEF other, Decides, Verdict
  <1>5. QED
    BY <1>3, <1>4

\* An edit of a policy that takes no mapping out of it.
MappingsStay == MappingsOf(policy) \subseteq MappingsOf(policy')

\* However a policy grows, no name it decides is sent elsewhere: documents of any
\* length, any number of additions, at any place.
THEOREM GrowingNeverRebinds == [][MappingsStay]_policy => AddingNeverRebinds
  <1> DEFINE Alike ==
         \A name \in DependencyNames :
            Decides(policy, name) /\ Decides(policy', name) =>
               /\ Decision(policy', name).bound = Decision(policy, name).bound
               /\ Decision(policy', name).pool = Decision(policy, name).pool
  <1>1. [MappingsStay]_policy => [Alike]_policy
    BY AddingMappingsNeverRebinds DEF MappingsStay, Decides
  <1> HIDE DEF Alike
  <1>2. [][MappingsStay]_policy => [][Alike]_policy
    BY <1>1, PTL
  <1>3. QED
    BY <1>2 DEF Alike, AddingNeverRebinds
=============================================================================
