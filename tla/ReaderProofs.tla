---------------------------- MODULE ReaderProofs ----------------------------
(***************************************************************************)
(* The readers of documents somebody else wrote, for documents of any      *)
(* size.                                                                   *)
(*                                                                         *)
(* Parse: an archive is accepted exactly when Build can have written it,   *)
(* and the first fault decides.  CheckDuplicateKeys: the walk refuses      *)
(* exactly the repeated names and the members that are too deep.           *)
(***************************************************************************)
EXTENDS CanonicalJson, PkgArchive, FiniteSetTheorems, WellFoundedInduction, TLAPS

\* A set of numbers has a least one.
LEMMA LeastOfSet ==
    ASSUME NEW T, T \subseteq Nat, T # {}
    PROVE  Min(T) \in T /\ \A y \in T : Min(T) <= y
  <1> DEFINE R == OpToRel(<, Nat)
  <1>1. IsWellFoundedOn(R, Nat)
    BY NatLessThanWellFounded
  <1>2. \A x, y \in Nat : y < x => <<y, x>> \in R
    BY DEF OpToRel
  <1> HIDE DEF R
  <1>3. PICK x \in T : \A y \in T : ~ (<<y, x>> \in R)
    BY <1>1, WFMin
  <1>4. ASSUME NEW y \in T PROVE x <= y
    <2>1. x \in Nat /\ y \in Nat
      OBVIOUS
    <2>2. ~ (y < x)
      BY <1>2, <1>3, <2>1
    <2>3. QED
      BY <2>1, <2>2
  <1>5. QED
    BY <1>4 DEF Min

-----------------------------------------------------------------------------
\* What an archive's entries are: a header, and a body of the kind its name has.
Manifests == [formatKnown : BOOLEAN, named : BOOLEAN]

Policies(K, V) ==
    [formatKnown : BOOLEAN, kind : K, entries : Seq([key : Nat, value : V])]

EntriesOf(N, M, B) ==
    Seq([name : N, regular : BOOLEAN, mode : M, plain : BOOLEAN, size : Nat, length : Nat,
         body : B])

\* The loop's result is the class of an element before which all were right.
LEMMA FirstFaultIsFirst ==
    ASSUME NEW classes, DOMAIN classes \subseteq Nat, FirstFault(classes) # "ok"
    PROVE  \E i \in DOMAIN classes :
              /\ FirstFault(classes) = classes[i]
              /\ classes[i] # "ok"
              /\ \A j \in DOMAIN classes : j < i => classes[j] = "ok"
  <1>1. Faults(classes) # {} /\ Faults(classes) \subseteq Nat
    BY DEF FirstFault, Faults
  <1> DEFINE i == Min(Faults(classes))
  <1>2. i \in Faults(classes) /\ \A j \in Faults(classes) : i <= j
    BY <1>1, LeastOfSet
  <1>3. FirstFault(classes) = classes[i]
    BY <1>1 DEF FirstFault
  <1> HIDE DEF i
  <1>4. i \in DOMAIN classes /\ classes[i] # "ok"
    BY <1>2 DEF Faults
  <1>5. ASSUME NEW j \in DOMAIN classes, j < i
        PROVE  classes[j] = "ok"
    <2>1. j \notin Faults(classes)
      BY <1>1, <1>2, <1>5
    <2>2. QED
      BY <2>1 DEF Faults
  <1>6. QED
    BY <1>3, <1>4, <1>5

\* It finds nothing exactly when there is nothing.
LEMMA NoFault ==
    ASSUME NEW classes, DOMAIN classes \subseteq Nat
    PROVE  FirstFault(classes) = "ok" <=> \A i \in DOMAIN classes : classes[i] = "ok"
  <1>1. CASE FirstFault(classes) = "ok"
    <2>1. ASSUME Faults(classes) # {}
          PROVE  FALSE
      <3>1. Min(Faults(classes)) \in Faults(classes)
        BY <2>1, LeastOfSet DEF Faults
      <3>2. classes[Min(Faults(classes))] # "ok"
        BY <3>1 DEF Faults
      <3>3. QED
        BY <1>1, <2>1, <3>2 DEF FirstFault
    <2>2. QED
      BY <1>1, <2>1 DEF Faults
  <1>2. CASE FirstFault(classes) # "ok"
    BY <1>2, FirstFaultIsFirst
  <1>3. QED
    BY <1>1, <1>2

-----------------------------------------------------------------------------
LEMMA ElementsOfSeq == \A S : \A t \in Seq(S) : \A i \in DOMAIN t : t[i] \in S
  OBVIOUS

LEMMA KeysAreNumbers ==
    ASSUME NEW V, NEW s \in Seq([key : Nat, value : V])
    PROVE  /\ Len(s) \in Nat
           /\ DOMAIN s = 1 .. Len(s)
           /\ DOMAIN s \subseteq Nat
           /\ \A i \in DOMAIN s : s[i].key \in Nat
  <1>1. /\ Len(s) \in Nat /\ DOMAIN s = 1 .. Len(s) /\ DOMAIN s \subseteq Nat
    OBVIOUS
  <1>2. ASSUME NEW i \in DOMAIN s
        PROVE  s[i].key \in Nat
    <2>1. s[i] \in [key : Nat, value : V]
      BY ElementsOfSeq
    <2>2. QED
      BY <2>1
  <1>3. QED
    BY <1>1, <1>2

\* Each key after the one before it: then they all ascend.
LEMMA StepwiseAscending ==
    ASSUME NEW V, NEW p, p.entries \in Seq([key : Nat, value : V]),
           \A i \in DOMAIN p.entries : i > 1 => p.entries[i - 1].key < p.entries[i].key
    PROVE  Ascending(p)
  <1> DEFINE key(i) == p.entries[i].key
             n == Len(p.entries)
             Bad == {j \in 1 .. n : \E i \in 1 .. n : i < j /\ ~ (key(i) < key(j))}
  <1>1. n \in Nat /\ DOMAIN p.entries = 1 .. n /\ \A i \in 1 .. n : key(i) \in Nat
    BY KeysAreNumbers
  <1>2. \A i \in 1 .. n : i > 1 => key(i - 1) < key(i)
    BY <1>1
  <1> HIDE DEF key, n
  <1>3. ASSUME Bad # {}
        PROVE  FALSE
    <2>1. Bad \subseteq Nat
      BY <1>1
    <2> DEFINE j == Min(Bad)
    <2>2. j \in Bad /\ \A k \in Bad : j <= k
      BY <1>3, <2>1, LeastOfSet
    <2> HIDE DEF j
    <2>3. PICK i \in 1 .. n : i < j /\ ~ (key(i) < key(j))
      BY <2>2
    <2>4. j \in 1 .. n
      BY <2>2
    <2> HIDE DEF Bad
    <2>5. j - 1 \in 1 .. n /\ key(j - 1) < key(j) /\ i <= j - 1
      BY <1>1, <1>2, <2>3, <2>4
    <2>6. j - 1 \notin Bad
      BY <1>1, <2>2, <2>4
    <2>7. i < j - 1 => key(i) < key(j - 1)
      BY <2>3, <2>5, <2>6 DEF Bad
    <2>8. QED
      BY <1>1, <2>3, <2>4, <2>5, <2>7
  <1>4. \A i, j \in 1 .. n : i < j => key(i) < key(j)
    BY <1>3
  <1>5. QED
    BY <1>1, <1>4 DEF Ascending, key

\* What Lookup takes of a key that stands there is what stands there.
LEMMA LookupFindsTheOnly ==
    ASSUME NEW V, NEW p, p.entries \in Seq([key : Nat, value : V]), Ascending(p),
           NEW i \in DOMAIN p.entries
    PROVE  Lookup(p, p.entries[i].key) = p.entries[i].value
  <1> DEFINE found == {j \in DOMAIN p.entries : p.entries[j].key = p.entries[i].key}
  <1>1. DOMAIN p.entries \subseteq Nat /\ \A j \in DOMAIN p.entries : p.entries[j].key \in Nat
    BY KeysAreNumbers
  <1>2. \A j \in DOMAIN p.entries : p.entries[j].key = p.entries[i].key => j = i
    BY <1>1 DEF Ascending
  <1>3. found = {i}
    BY <1>2
  <1>4. Min({i}) = i
    <2>1. {i} \subseteq Nat /\ {i} # {}
      BY <1>1
    <2>2. Min({i}) \in {i}
      BY <2>1, LeastOfSet
    <2>3. QED
      BY <2>2
  <1>5. QED
    BY <1>3, <1>4 DEF Lookup

\* validateManifest and validatePolicy accept exactly a well-formed package.
LEMMA BuildableIsWellFormed ==
    ASSUME NEW K, NEW V, NEW m \in Manifests, NEW p \in Policies(K, V)
    PROVE  Buildable(m, p) <=> WellFormed(m, p)
  <1> DEFINE classes == [i \in DOMAIN p.entries |-> PolicyEntryClass(p, i)]
  <1>1. p.entries \in Seq([key : Nat, value : V])
    BY DEF Policies
  <1>2. DOMAIN p.entries \subseteq Nat /\ \A i \in DOMAIN p.entries : p.entries[i].key \in Nat
    BY <1>1, KeysAreNumbers
  <1>3. FirstFault(classes) = "ok" <=> \A i \in DOMAIN p.entries : PolicyEntryClass(p, i) = "ok"
    BY <1>2, NoFault
  <1>4. ASSUME NEW i \in DOMAIN p.entries
        PROVE  PolicyEntryClass(p, i) = "ok" <=>
                  /\ p.entries[i].key \in DOMAIN Schema[p.kind]
                  /\ i > 1 => p.entries[i - 1].key < p.entries[i].key
                  /\ p.entries[i].value \in Schema[p.kind][p.entries[i].key]
    <2>1. i > 1 => i - 1 \in DOMAIN p.entries
      BY <1>1
    <2>2. i > 1 => (p.entries[i].key <= p.entries[i - 1].key <=>
                       ~ (p.entries[i - 1].key < p.entries[i].key))
      BY <1>2, <2>1
    <2>3. QED
      BY <2>2 DEF PolicyEntryClass
  <1>5. Ascending(p) <=> \A i \in DOMAIN p.entries : i > 1 => p.entries[i - 1].key < p.entries[i].key
    <2>1. ASSUME Ascending(p), NEW i \in DOMAIN p.entries, i > 1
          PROVE  p.entries[i - 1].key < p.entries[i].key
      <3>1. i - 1 \in DOMAIN p.entries /\ i - 1 < i
        BY <1>1, <2>1
      <3>2. QED
        BY <2>1, <3>1 DEF Ascending
    <2>2. QED
      BY <1>1, <2>1, StepwiseAscending
  <1>6. PolicyClass(p) = "ok" <=>
           /\ p.formatKnown /\ p.kind \in DOMAIN Schema /\ p.entries # <<>>
           /\ FirstFault(classes) = "ok"
    BY DEF PolicyClass
  <1> HIDE DEF classes
  <1>7. ManifestClass(m) = "ok" <=> m.formatKnown /\ m.named
    BY DEF ManifestClass
  <1>8. QED
    BY <1>3, <1>4, <1>5, <1>6, <1>7 DEF Buildable, WellFormed

-----------------------------------------------------------------------------
\* An entry is as Build writes it, at its place.
AsBuilt(entries, i) ==
    LET e == entries[i]
    IN  /\ e.name = Want[i] /\ e.regular /\ e.mode = EntryMode /\ e.plain
        /\ e.size <= MaxEntry /\ e.length = e.size

LEMMA AsBuiltIsBuilt ==
    ASSUME NEW N, NEW M, NEW B, NEW entries \in EntriesOf(N, M, B), NEW i \in DOMAIN entries
    PROVE  AsBuilt(entries, i) <=>
              /\ entries[i] = BuiltEntry(Want[i], entries[i].body, entries[i].size)
              /\ entries[i].size <= MaxEntry
  <1> DEFINE e == entries[i]
  <1>1. e \in [name : N, regular : BOOLEAN, mode : M, plain : BOOLEAN, size : Nat,
               length : Nat, body : B]
    BY ElementsOfSeq DEF EntriesOf
  <1> HIDE DEF e
  <1>2. e = [name |-> e.name, regular |-> e.regular, mode |-> e.mode, plain |-> e.plain,
             size |-> e.size, length |-> e.length, body |-> e.body]
    BY <1>1
  <1>3. e.regular \in BOOLEAN /\ e.plain \in BOOLEAN
    BY <1>1
  <1>4. ASSUME e.name = Want[i], e.regular, e.mode = EntryMode, e.plain, e.length = e.size
        PROVE  e = BuiltEntry(Want[i], e.body, e.size)
    <2>1. e.regular = TRUE /\ e.plain = TRUE
      BY <1>3, <1>4
    <2>2. QED
      BY <1>2, <1>4, <2>1 DEF BuiltEntry
  <1>5. ASSUME e = BuiltEntry(Want[i], e.body, e.size)
        PROVE  e.name = Want[i] /\ e.regular /\ e.mode = EntryMode /\ e.plain /\ e.length = e.size
    BY <1>5 DEF BuiltEntry
  <1>6. AsBuilt(entries, i) <=>
           /\ e.name = Want[i] /\ e.regular /\ e.mode = EntryMode /\ e.plain
           /\ e.size <= MaxEntry /\ e.length = e.size
    BY DEF AsBuilt, e
  <1>7. QED
    BY <1>4, <1>5, <1>6 DEF e

\* Nothing is said against an entry exactly when it is as Build writes it, those
\* before it being so.
LEMMA NothingAgainstEntries ==
    ASSUME NEW N, NEW M, NEW B, NEW entries \in EntriesOf(N, M, B), MaxEntry \in Nat
    PROVE  (\A i \in DOMAIN entries : EntryClass(entries, i) = "ok") <=>
              Len(entries) <= 2 /\ \A i \in DOMAIN entries : AsBuilt(entries, i)
  <1>1. Len(entries) \in Nat /\ DOMAIN entries = 1 .. Len(entries)
    BY DEF EntriesOf
  <1>2. Len(Want) = 2 /\ Want[1] # Want[2]
    BY DEF Want
  <1>3. ASSUME NEW i \in DOMAIN entries
        PROVE  entries[i].size \in Nat
    <2>1. entries[i] \in [name : N, regular : BOOLEAN, mode : M, plain : BOOLEAN, size : Nat,
                          length : Nat, body : B]
      BY ElementsOfSeq DEF EntriesOf
    <2>2. QED
      BY <2>1
  <1>4. ASSUME NEW i \in DOMAIN entries
        PROVE  EntryClass(entries, i) = "ok" <=>
                  /\ i <= 2 /\ AsBuilt(entries, i)
                  /\ \A j \in 1 .. i - 1 : entries[j].name # entries[i].name
    <2>1. i > Len(Want) <=> ~ (i <= 2)
      BY <1>1, <1>2
    <2>2. entries[i].size > MaxEntry <=> ~ (entries[i].size <= MaxEntry)
      BY <1>3
    <2>3. QED
      BY <2>1, <2>2 DEF EntryClass, AsBuilt
  <1>5. ASSUME \A i \in DOMAIN entries : EntryClass(entries, i) = "ok"
        PROVE  Len(entries) <= 2 /\ \A i \in DOMAIN entries : AsBuilt(entries, i)
    <2>1. \A i \in 1 .. Len(entries) : i <= 2
      BY <1>1, <1>4, <1>5
    <2>2. Len(entries) <= 2
      BY <1>1, <2>1
    <2>3. QED
      BY <1>4, <1>5, <2>2
  <1>6. ASSUME Len(entries) <= 2, \A i \in DOMAIN entries : AsBuilt(entries, i),
               NEW i \in DOMAIN entries
        PROVE  EntryClass(entries, i) = "ok"
    <2>1. i = 1 \/ i = 2
      BY <1>1, <1>6
    <2>2. ASSUME NEW j \in 1 .. i - 1
          PROVE  entries[j].name # entries[i].name
      <3>1. j = 1 /\ i = 2 /\ 1 \in DOMAIN entries
        BY <1>1, <2>1
      <3>2. entries[1].name = Want[1] /\ entries[2].name = Want[2]
        BY <1>6, <3>1 DEF AsBuilt
      <3>3. QED
        BY <1>2, <3>1, <3>2
    <2>3. QED
      BY <1>4, <1>6, <2>1, <2>2
  <1>7. QED
    BY <1>5, <1>6

\* An archive the reader lists the entries of, whose bodies are documents of the
\* kind their name has, or none.
ArchiveOf(N, M, K, V, data) ==
    /\ data.size \in Nat
    /\ data.entries \in EntriesOf(N, M, Manifests \cup Policies(K, V) \cup {Malformed})
    /\ \A i \in DOMAIN data.entries :
          LET e == data.entries[i]
          IN  /\ e.name = Want[1] => e.body \in Manifests \cup {Malformed}
              /\ e.name = Want[2] => e.body \in Policies(K, V) \cup {Malformed}

\* Archives of any number of entries, policies of any length: Parse accepts
\* exactly what Build can have written, and Lookup misreads none of it.
THEOREM OnlyTheBuiltIsAccepted ==
    ASSUME NEW N, NEW M, NEW K, NEW V, ArchiveOf(N, M, K, V, archive),
           MaxEntry \in Nat, MaxArchive \in Nat
    PROVE  AcceptsExactlyTheBuilt
  <1> DEFINE entries == archive.entries
             B == Manifests \cup Policies(K, V) \cup {Malformed}
             m == entries[1].body
             p == entries[2].body
             classes == [i \in DOMAIN entries |-> EntryClass(entries, i)]
             EntriesAsBuilt == Len(entries) = 2 /\ AsBuilt(entries, 1) /\ AsBuilt(entries, 2)
  <1>1. entries \in EntriesOf(N, M, B) /\ Len(entries) \in Nat /\ DOMAIN entries = 1 .. Len(entries)
        /\ DOMAIN entries \subseteq Nat
    BY DEF ArchiveOf, EntriesOf
  <1>2. FirstFault(classes) = "ok" <=>
           Len(entries) <= 2 /\ \A i \in DOMAIN entries : AsBuilt(entries, i)
    <2> HIDE DEF entries, B
    <2>1. DOMAIN classes \subseteq Nat
      BY <1>1
    <2>2. FirstFault(classes) = "ok" <=> \A i \in DOMAIN classes : classes[i] = "ok"
      BY <2>1, NoFault
    <2>3. QED
      BY <1>1, <2>2, NothingAgainstEntries
  <1>3. Parse(archive) = "ok" <=>
           /\ ~ (archive.size > MaxArchive)
           /\ FirstFault(classes) = "ok"
           /\ ~archive.broken
           /\ ~ (Len(entries) < Len(Want))
           /\ ContentClass(m, p) = "ok"
    BY DEF Parse
  <1>4. ContentClass(m, p) = "ok" <=> Malformed \notin {m, p} /\ Buildable(m, p)
    BY DEF ContentClass, Buildable
  <1>5. archive.size > MaxArchive <=> ~ (archive.size <= MaxArchive)
    BY DEF ArchiveOf
  <1>6. EntriesAsBuilt <=> FirstFault(classes) = "ok" /\ ~ (Len(entries) < Len(Want))
    <2>1. Len(Want) = 2
      BY DEF Want
    <2> HIDE DEF entries, classes
    <2>2. QED
      BY <1>1, <1>2, <2>1
  <1>7. ASSUME EntriesAsBuilt, Malformed \notin {m, p}
        PROVE  Buildable(m, p) <=> WellFormed(m, p)
    <2>1. m \in Manifests /\ p \in Policies(K, V)
      BY <1>1, <1>7 DEF ArchiveOf, AsBuilt
    <2>2. QED
      BY <2>1, BuildableIsWellFormed
  <1>8. CanBeBuilt(entries) <=> EntriesAsBuilt /\ Malformed \notin {m, p} /\ WellFormed(m, p)
    <2>1. ASSUME Len(entries) = 2
          PROVE  /\ \A i \in {1, 2} : AsBuilt(entries, i) <=>
                       /\ entries[i] = BuiltEntry(Want[i], entries[i].body, entries[i].size)
                       /\ entries[i].size <= MaxEntry
                 /\ entries = <<entries[1], entries[2]>>
      <3>1. 1 \in DOMAIN entries /\ 2 \in DOMAIN entries
        BY <1>1, <2>1
      <3>2. entries = <<entries[1], entries[2]>>
        BY <1>1, <2>1 DEF EntriesOf
      <3> HIDE DEF entries, B
      <3>3. QED
        BY <1>1, <3>1, <3>2, AsBuiltIsBuilt
    <2> HIDE DEF entries
    <2>2. ASSUME Len(entries) = 2
          PROVE  entries = Build(m, p, <<entries[1].size, entries[2].size>>) <=>
                    /\ entries[1] = BuiltEntry(Want[1], m, entries[1].size)
                    /\ entries[2] = BuiltEntry(Want[2], p, entries[2].size)
      BY <2>1, <2>2 DEF Build
    <2>3. QED
      BY <2>1, <2>2 DEF CanBeBuilt
  <1>9. Parse(archive) = "ok" <=>
           archive.size <= MaxArchive /\ ~archive.broken /\ CanBeBuilt(entries)
    <2> HIDE DEF entries, classes, m, p, EntriesAsBuilt
    <2>1. QED
      BY <1>3, <1>4, <1>5, <1>6, <1>7, <1>8
  <1>10. ASSUME Parse(archive) = "ok"
         PROVE  /\ Buildable(m, p)
                /\ \A i \in DOMAIN p.entries : Lookup(p, p.entries[i].key) = p.entries[i].value
    <2>1. Buildable(m, p) /\ EntriesAsBuilt /\ Malformed \notin {m, p} /\ WellFormed(m, p)
      <3> HIDE DEF entries, classes, m, p, EntriesAsBuilt
      <3>1. QED
        BY <1>3, <1>4, <1>6, <1>7, <1>10
    <2>2. p \in Policies(K, V)
      BY <1>1, <2>1 DEF ArchiveOf, AsBuilt
    <2> HIDE DEF p
    <2>3. p.entries \in Seq([key : Nat, value : V]) /\ Ascending(p)
      BY <2>1, <2>2 DEF Policies, WellFormed
    <2>4. QED
      BY <2>1, <2>3, LookupFindsTheOnly
  <1>11. QED
    BY <1>9, <1>10 DEF AcceptsExactlyTheBuilt

-----------------------------------------------------------------------------
\* The documents are looked at only if there are two, and each is then one of
\* its kind or none.
LEMMA DocumentsOfArchive ==
    ASSUME NEW N, NEW M, NEW K, NEW V, NEW data, ArchiveOf(N, M, K, V, data),
           MaxEntry \in Nat,
           FirstFault([i \in DOMAIN data.entries |-> EntryClass(data.entries, i)]) = "ok",
           ~ (Len(data.entries) < Len(Want))
    PROVE  /\ data.entries[1].body \in Manifests \cup {Malformed}
           /\ data.entries[2].body \in Policies(K, V) \cup {Malformed}
  <1> DEFINE entries == data.entries
             B == Manifests \cup Policies(K, V) \cup {Malformed}
             classes == [i \in DOMAIN entries |-> EntryClass(entries, i)]
  <1>1. entries \in EntriesOf(N, M, B) /\ Len(entries) \in Nat /\ DOMAIN entries = 1 .. Len(entries)
        /\ DOMAIN entries \subseteq Nat
    BY DEF ArchiveOf, EntriesOf
  <1>2. Len(entries) <= 2 /\ \A i \in DOMAIN entries : AsBuilt(entries, i)
    <2> HIDE DEF entries, B
    <2>1. DOMAIN classes \subseteq Nat /\ FirstFault(classes) = "ok"
      BY <1>1 DEF entries
    <2>2. \A i \in DOMAIN entries : EntryClass(entries, i) = "ok"
      BY <2>1, NoFault
    <2>3. QED
      BY <1>1, <2>2, NothingAgainstEntries
  <1>3. Len(Want) = 2
    BY DEF Want
  <1>4. 1 \in DOMAIN entries /\ 2 \in DOMAIN entries
    BY <1>1, <1>2, <1>3
  <1>5. entries[1].name = Want[1] /\ entries[2].name = Want[2]
    BY <1>2, <1>4 DEF AsBuilt
  <1>6. QED
    BY <1>4, <1>5 DEF ArchiveOf

\* What is said of two documents is said late.
LEMMA ContentIsLate ==
    ASSUME NEW K, NEW V, NEW m, NEW p \in Policies(K, V) \cup {Malformed}
    PROVE  ContentClass(m, p) \in LateClasses
  <1>1. ManifestClass(m) \in LateClasses
    BY DEF ManifestClass, LateClasses
  <1>2. ASSUME p \in Policies(K, V)
        PROVE  PolicyClass(p) \in LateClasses
    <2> DEFINE classes == [i \in DOMAIN p.entries |-> PolicyEntryClass(p, i)]
    <2>1. DOMAIN classes \subseteq Nat
      BY <1>2, KeysAreNumbers DEF Policies
    <2>2. \A i \in DOMAIN classes : classes[i] \in LateClasses
      BY DEF PolicyEntryClass, LateClasses
    <2> HIDE DEF classes
    <2>3. FirstFault(classes) \in LateClasses
      BY <2>1, <2>2, FirstFaultIsFirst DEF LateClasses
    <2>4. QED
      BY <2>3 DEF PolicyClass, LateClasses, classes
  <1>3. QED
    BY <1>1, <1>2 DEF ContentClass, LateClasses

\* What is refused for an entry is refused for the same reason whatever follows.
LEMMA FirstFaultStays ==
    ASSUME NEW N, NEW M, NEW K, NEW V, NEW data, NEW longer,
           ArchiveOf(N, M, K, V, data), ArchiveOf(N, M, K, V, longer),
           MaxEntry \in Nat, MaxArchive \in Nat,
           longer.size = data.size, IsPrefix(data.entries, longer.entries)
    PROVE  Parse(data) \notin LateClasses => Parse(longer) = Parse(data)
  <1> DEFINE B == Manifests \cup Policies(K, V) \cup {Malformed}
             Classes(a) == [i \in DOMAIN a.entries |-> EntryClass(a.entries, i)]
  <1> SUFFICES ASSUME Parse(data) \notin LateClasses
               PROVE  Parse(longer) = Parse(data)
    OBVIOUS
  <1>1. /\ Len(data.entries) \in Nat /\ DOMAIN data.entries = 1 .. Len(data.entries)
        /\ Len(longer.entries) \in Nat /\ DOMAIN longer.entries = 1 .. Len(longer.entries)
    BY DEF ArchiveOf, EntriesOf
  <1>2. /\ Len(data.entries) <= Len(longer.entries)
        /\ \A i \in 1 .. Len(data.entries) : longer.entries[i] = data.entries[i]
    <2>1. SubSeq(data.entries, 1, Len(data.entries)) =
             SubSeq(longer.entries, 1, Len(data.entries))
          /\ Len(data.entries) <= Len(longer.entries)
      BY DEF IsPrefix
    <2>2. \A i \in 1 .. Len(data.entries) :
             /\ SubSeq(data.entries, 1, Len(data.entries))[i] = data.entries[i]
             /\ SubSeq(longer.entries, 1, Len(data.entries))[i] = longer.entries[i]
      BY <1>1, <2>1 DEF ArchiveOf, EntriesOf
    <2>3. QED
      BY <2>1, <2>2
  <1>3. CASE data.size > MaxArchive
    BY <1>3 DEF Parse
  <1>4. CASE ~ (data.size > MaxArchive)
    <2>1. FirstFault(Classes(data)) # "ok" /\ Parse(data) = FirstFault(Classes(data))
      <3>1. ASSUME FirstFault(Classes(data)) = "ok"
            PROVE  FALSE
        <4>1. ~data.broken /\ ~ (Len(data.entries) < Len(Want))
          BY <1>4, <3>1 DEF Parse, LateClasses
        <4>2. Parse(data) = ContentClass(data.entries[1].body, data.entries[2].body)
          BY <1>4, <3>1, <4>1 DEF Parse
        <4>3. data.entries[2].body \in Policies(K, V) \cup {Malformed}
          BY <3>1, <4>1, DocumentsOfArchive
        <4>4. QED
          BY <4>2, <4>3, ContentIsLate
      <3>2. QED
        BY <1>4, <3>1 DEF Parse
    <2>2. DOMAIN Classes(data) \subseteq Nat /\ DOMAIN Classes(longer) \subseteq Nat
      BY <1>1
    <2>3. ASSUME NEW i \in 1 .. Len(data.entries)
          PROVE  Classes(longer)[i] = Classes(data)[i]
      <3>1. EntryClass(longer.entries, i) = EntryClass(data.entries, i)
        BY <1>1, <1>2 DEF EntryClass
      <3>2. QED
        BY <1>1, <1>2, <3>1
    <2>4. /\ DOMAIN Classes(data) = 1 .. Len(data.entries)
          /\ DOMAIN Classes(longer) = 1 .. Len(longer.entries)
      BY <1>1
    <2> HIDE DEF Classes
    <2>5. PICK i \in 1 .. Len(data.entries) :
             /\ FirstFault(Classes(data)) = Classes(data)[i]
             /\ Classes(data)[i] # "ok"
             /\ \A j \in 1 .. Len(data.entries) : j < i => Classes(data)[j] = "ok"
      BY <2>1, <2>2, <2>4, FirstFaultIsFirst
    <2>6. i \in 1 .. Len(longer.entries) /\ Classes(longer)[i] # "ok"
      BY <1>1, <1>2, <2>3, <2>5
    <2>7. FirstFault(Classes(longer)) # "ok"
      BY <2>2, <2>4, <2>6, NoFault
    <2>8. PICK k \in 1 .. Len(longer.entries) :
             /\ FirstFault(Classes(longer)) = Classes(longer)[k]
             /\ Classes(longer)[k] # "ok"
             /\ \A j \in 1 .. Len(longer.entries) : j < k => Classes(longer)[j] = "ok"
      BY <2>2, <2>4, <2>7, FirstFaultIsFirst
    <2>9. k = i
      <3>1. ~ (i < k)
        BY <2>6, <2>8
      <3>2. ~ (k < i)
        <4>1. k < i => k \in 1 .. Len(data.entries)
          BY <1>1
        <4>2. QED
          BY <2>3, <2>5, <2>8, <4>1
      <3>3. QED
        BY <1>1, <3>1, <3>2
    <2>10. FirstFault(Classes(longer)) = FirstFault(Classes(data))
      BY <2>3, <2>5, <2>8, <2>9
    <2>11. Parse(longer) = FirstFault(Classes(longer))
      BY <1>4, <2>7 DEF Parse, Classes
    <2>12. QED
      BY <2>1, <2>10, <2>11
  <1>5. QED
    BY <1>3, <1>4

\* The archive of the next step has more entries, if anything.
Growing == archive'.size = archive.size /\ IsPrefix(archive.entries, archive'.entries)

\* Archives of any number of entries: what is refused for an entry is refused
\* for the same reason whatever follows.
THEOREM TheFirstFaultDecides ==
    ASSUME NEW CONSTANT N, NEW CONSTANT M, NEW CONSTANT K, NEW CONSTANT V,
           MaxEntry \in Nat, MaxArchive \in Nat
    PROVE  []ArchiveOf(N, M, K, V, archive) /\ [][Growing]_archive => FirstFaultDecides
  <1> DEFINE Legal == ArchiveOf(N, M, K, V, archive)
             Decides == Parse(archive) \notin LateClasses => Parse(archive') = Parse(archive)
  <1>1. Legal /\ Legal' /\ [Growing]_archive => [Decides]_archive
    BY FirstFaultStays DEF Growing
  <1> HIDE DEF Legal, Decides
  <1>2. []Legal /\ [][Growing]_archive => [][Decides]_archive
    BY <1>1, PTL
  <1>3. QED
    BY <1>2 DEF Legal, Decides, FirstFaultDecides

-----------------------------------------------------------------------------
Kinds == {"object", "array"}

Tokens == {Open(kind) : kind \in Kinds} \cup {Close, Scalar} \cup {Key(k) : k \in Keys}

LEMMA AppendedText ==
    ASSUME NEW text \in Seq(Tokens), NEW t \in Tokens
    PROVE  /\ Append(text, t) \in Seq(Tokens)
           /\ Len(text) \in Nat
           /\ DOMAIN text = 1 .. Len(text)
           /\ Len(Append(text, t)) = Len(text) + 1
           /\ DOMAIN Append(text, t) = 1 .. Len(text) + 1
           /\ Append(text, t)[Len(text) + 1] = t
           /\ \A k \in 1 .. Len(text) : Append(text, t)[k] = text[k]
  <1>1. \A S : \A s \in Seq(S) : \A e \in S :
           /\ Append(s, e) \in Seq(S)
           /\ Len(s) \in Nat
           /\ DOMAIN s = 1 .. Len(s)
           /\ Len(Append(s, e)) = Len(s) + 1
           /\ DOMAIN Append(s, e) = 1 .. Len(s) + 1
           /\ Append(s, e)[Len(s) + 1] = e
           /\ \A k \in 1 .. Len(s) : Append(s, e)[k] = s[k]
    OBVIOUS
  <1>2. QED
    BY ONLY <1>1, text \in Seq(Tokens), t \in Tokens

\* Counting the tokens of one kind.
Count(text, i, j, what) == Cardinality({k \in i .. j : text[k].token = what})

LEMMA CountIsNumber ==
    ASSUME NEW text, NEW i \in Int, NEW j \in Int, NEW what
    PROVE  Count(text, i, j, what) \in Nat
  <1> DEFINE S == {k \in i .. j : text[k].token = what}
  <1>1. IsFiniteSet(i .. j)
    BY FS_Interval
  <1>2. S \subseteq i .. j
    OBVIOUS
  <1> HIDE DEF S
  <1>3. IsFiniteSet(S)
    BY <1>1, <1>2, FS_Subset
  <1>4. Cardinality(S) \in Nat
    BY <1>3, FS_CardinalityType
  <1>5. QED
    BY <1>4 DEF Count, S

\* What was counted up to a token does not change when the text goes on.
LEMMA CountStays ==
    ASSUME NEW text \in Seq(Tokens), NEW t \in Tokens, NEW what,
           NEW i \in Nat \ {0}, NEW j \in Int, j <= Len(text)
    PROVE  Count(Append(text, t), i, j, what) = Count(text, i, j, what)
  <1>1. \A k \in i .. j : Append(text, t)[k] = text[k]
    BY AppendedText
  <1>2. {k \in i .. j : Append(text, t)[k].token = what} = {k \in i .. j : text[k].token = what}
    BY <1>1
  <1>3. QED
    BY <1>2 DEF Count

\* The count to the end, when the text goes on.
LEMMA CountGrows ==
    ASSUME NEW text \in Seq(Tokens), NEW t \in Tokens, NEW what,
           NEW i \in 1 .. Len(text) + 1
    PROVE  Count(Append(text, t), i, Len(text) + 1, what) =
              Count(text, i, Len(text), what) + (IF t.token = what THEN 1 ELSE 0)
  <1> DEFINE n == Len(text)
             longer == Append(text, t)
             S == {k \in i .. n : text[k].token = what}
             T == {k \in i .. n + 1 : longer[k].token = what}
  <1>1. n \in Nat /\ longer[n + 1] = t /\ \A k \in i .. n : longer[k] = text[k]
    BY AppendedText
  <1>2. T = S \cup (IF t.token = what THEN {n + 1} ELSE {})
    <2> HIDE DEF longer, n
    <2>1. i .. n + 1 = (i .. n) \cup {n + 1}
      BY <1>1 DEF n
    <2>2. QED
      BY <1>1, <2>1
  <1>3. IsFiniteSet(S) /\ Cardinality(S) \in Nat
    <2>1. IsFiniteSet(i .. n)
      BY <1>1, FS_Interval
    <2>2. S \subseteq i .. n
      OBVIOUS
    <2> HIDE DEF S
    <2>3. QED
      BY <2>1, <2>2, FS_Subset, FS_CardinalityType
  <1>4. n + 1 \notin S
    BY <1>1
  <1>5. Cardinality(T) = Cardinality(S) + (IF t.token = what THEN 1 ELSE 0)
    <2> HIDE DEF S, T, n
    <2>1. CASE t.token = what
      <3>1. Cardinality(S \cup {n + 1}) = Cardinality(S) + 1
        BY <1>3, <1>4, FS_AddElement
      <3>2. QED
        BY <1>2, <2>1, <3>1
    <2>2. CASE t.token # what
      BY <1>2, <1>3, <2>2
    <2>3. QED
      BY <2>1, <2>2
  <1>6. QED
    BY <1>5 DEF Count

-----------------------------------------------------------------------------
\* Brackets opened from the i-th token on, less those closed.
Net(text, i) == Opens(text, i, Len(text)) - Closes(text, i, Len(text))

Weight(t) == IF t.token = "open" THEN 1 ELSE IF t.token = "close" THEN 0 - 1 ELSE 0

LEMMA NetGrows ==
    ASSUME NEW text \in Seq(Tokens), NEW t \in Tokens, NEW i \in 1 .. Len(text) + 1
    PROVE  /\ Net(text, i) \in Int
           /\ Net(Append(text, t), i) = Net(text, i) + Weight(t)
           /\ Net(text, Len(text) + 1) = 0
  <1> DEFINE n == Len(text)
  <1>1. n \in Nat /\ Len(Append(text, t)) = n + 1 /\ i \in Nat \ {0}
    BY AppendedText
  <1>2. \A w : Count(text, i, n, w) \in Nat
    BY <1>1, CountIsNumber
  <1>3. \A w : Count(Append(text, t), i, n + 1, w) =
                  Count(text, i, n, w) + (IF t.token = w THEN 1 ELSE 0)
    BY CountGrows
  <1>4. \A w : Count(text, n + 1, n, w) = 0
    <2>1. \A w : {k \in n + 1 .. n : text[k].token = w} = {}
      BY <1>1
    <2>2. QED
      BY <2>1, FS_EmptySet DEF Count
  <1> HIDE DEF n
  <1>5. \A x, a, b : Opens(x, a, b) = Count(x, a, b, "open")
                    /\ Closes(x, a, b) = Count(x, a, b, "close")
    BY DEF Opens, Closes, Count
  <1>6. Net(text, i) = Count(text, i, n, "open") - Count(text, i, n, "close")
    BY <1>5 DEF Net, n
  <1>7. Net(Append(text, t), i) =
           Count(Append(text, t), i, n + 1, "open") - Count(Append(text, t), i, n + 1, "close")
    BY <1>1, <1>5 DEF Net
  <1>8. Net(text, n + 1) = Count(text, n + 1, n, "open") - Count(text, n + 1, n, "close")
    BY <1>5 DEF Net, n
  <1>9. Net(text, n + 1) = 0
    BY <1>4, <1>8
  <1>10. Net(Append(text, t), i) = Net(text, i) + Weight(t)
    BY <1>2, <1>3, <1>6, <1>7 DEF Weight
  <1>11. QED
    BY <1>2, <1>6, <1>9, <1>10 DEF n

\* What a token stands within, and how deep, is settled when it is read.
LEMMA WithinStays ==
    ASSUME NEW text \in Seq(Tokens), NEW t \in Tokens, NEW i \in 1 .. Len(text) + 1
    PROVE  Within(Append(text, t), i) = Within(text, i)
  <1>1. Len(text) \in Nat /\ i - 1 \in Int /\ i - 1 <= Len(text)
    BY AppendedText
  <1>2. ASSUME NEW k \in 1 .. i - 1
        PROVE  /\ Opens(Append(text, t), k, i - 1) = Opens(text, k, i - 1)
               /\ Closes(Append(text, t), k, i - 1) = Closes(text, k, i - 1)
    <2>1. k \in Nat \ {0}
      BY <1>1
    <2>2. \A w : Count(Append(text, t), k, i - 1, w) = Count(text, k, i - 1, w)
      BY <1>1, <2>1, CountStays
    <2>3. \A x, a, b : Opens(x, a, b) = Count(x, a, b, "open")
                      /\ Closes(x, a, b) = Count(x, a, b, "close")
      BY DEF Opens, Closes, Count
    <2>4. QED
      BY <2>2, <2>3
  <1>3. ASSUME NEW j \in 1 .. i - 1
        PROVE  Encloses(Append(text, t), j, i) <=> Encloses(text, j, i)
    <2>1. Append(text, t)[j] = text[j]
      BY <1>1, AppendedText
    <2>2. \A k \in j + 1 .. i - 1 : k \in 1 .. i - 1
      BY <1>1
    <2>3. QED
      BY <1>2, <2>1, <2>2 DEF Encloses
  <1>4. QED
    BY <1>3 DEF Within

LEMMA DepthStays ==
    ASSUME NEW text \in Seq(Tokens), NEW t \in Tokens, NEW i \in 1 .. Len(text)
    PROVE  DepthAt(Append(text, t), i) = DepthAt(text, i)
  <1>1. \A w : Count(Append(text, t), 1, i, w) = Count(text, 1, i, w)
    BY AppendedText, CountStays
  <1>2. \A x, a, b : Opens(x, a, b) = Count(x, a, b, "open")
                    /\ Closes(x, a, b) = Count(x, a, b, "close")
    BY DEF Opens, Closes, Count
  <1>3. QED
    BY <1>1, <1>2 DEF DepthAt

LEMMA NamesGrow ==
    ASSUME NEW text \in Seq(Tokens), NEW t \in Tokens
    PROVE  /\ Names(text) \subseteq 1 .. Len(text)
           /\ Names(Append(text, t)) =
                 Names(text) \cup (IF t.token = "key" THEN {Len(text) + 1} ELSE {})
  <1> DEFINE n == Len(text)
             longer == Append(text, t)
  <1>1. /\ n \in Nat /\ DOMAIN text = 1 .. n /\ DOMAIN longer = 1 .. n + 1
        /\ longer[n + 1] = t /\ \A k \in 1 .. n : longer[k] = text[k]
    BY AppendedText
  <1> HIDE DEF n, longer
  <1>2. 1 .. n + 1 = (1 .. n) \cup {n + 1} /\ n + 1 \notin 1 .. n
    BY <1>1
  <1>3. Names(longer) = Names(text) \cup (IF t.token = "key" THEN {n + 1} ELSE {})
    BY <1>1, <1>2 DEF Names
  <1>4. QED
    BY <1>1, <1>3 DEF Names, n, longer

\* A token that names nothing repeats nothing; a name repeats one if it stands
\* where that stands.
LEMMA RepeatsGrow ==
    ASSUME NEW text \in Seq(Tokens), NEW t \in Tokens, Repeats(text) = {}
    PROVE  LET n == Len(text)
           IN  Repeats(Append(text, t)) =
                  IF /\ t.token = "key"
                     /\ \E j \in Names(text) :
                           Within(text, j) = Within(text, n + 1) /\ text[j].key = t.key
                  THEN {n + 1} ELSE {}
  <1> DEFINE n == Len(text)
             longer == Append(text, t)
  <1>1. /\ n \in Nat /\ longer[n + 1] = t /\ \A k \in 1 .. n : longer[k] = text[k]
    BY AppendedText
  <1>2. /\ Names(text) \subseteq 1 .. n
        /\ Names(longer) = Names(text) \cup (IF t.token = "key" THEN {n + 1} ELSE {})
    BY NamesGrow
  <1>3. \A k \in 1 .. n + 1 : Within(longer, k) = Within(text, k)
    BY WithinStays
  <1> HIDE DEF n, longer
  <1>4. ASSUME NEW i \in 1 .. n
        PROVE  i \notin Repeats(longer)
    <2>1. ASSUME i \in Repeats(longer)
          PROVE  i \in Repeats(text)
      <3>1. PICK j \in Names(longer) : /\ j < i /\ Within(longer, i) = Within(longer, j)
                                       /\ longer[i].key = longer[j].key
        BY <2>1 DEF Repeats
      <3>2. i \in Names(text) /\ j \in Names(text)
        BY <1>1, <1>2, <2>1, <3>1 DEF Repeats
      <3>3. QED
        BY <1>1, <1>2, <1>3, <3>1, <3>2 DEF Repeats
    <2>2. QED
      BY <2>1
  <1>5. n + 1 \in Repeats(longer) <=>
           /\ t.token = "key"
           /\ \E j \in Names(text) : Within(text, j) = Within(text, n + 1) /\ text[j].key = t.key
    <2>1. n + 1 \in Names(longer) <=> t.token = "key"
      BY <1>1, <1>2
    <2>2. \A j \in Names(longer) : j < n + 1 <=> j \in Names(text)
      BY <1>1, <1>2
    <2>3. \A j \in Names(text) : /\ j \in Names(longer) /\ j < n + 1 /\ longer[j] = text[j]
                                 /\ Within(longer, j) = Within(text, j)
      BY <1>1, <1>2, <1>3
    <2>4. Within(longer, n + 1) = Within(text, n + 1) /\ longer[n + 1].key = t.key
      BY <1>1, <1>3
    <2>5. QED
      BY <2>1, <2>2, <2>3, <2>4 DEF Repeats
  <1>6. Repeats(longer) \subseteq 1 .. n + 1
    BY <1>1, <1>2 DEF Repeats
  <1>7. Repeats(longer) \subseteq {n + 1}
    BY <1>1, <1>4, <1>6
  <1>8. QED
    BY <1>5, <1>7 DEF n, longer

-----------------------------------------------------------------------------
Containers == [kind : Kinds, seen : SUBSET Keys]

\* Of depth containers that are open, the d-th was opened by the p-th token.
OpenedBy(text, depth, d, p) ==
    /\ p \in 1 .. Len(text)
    /\ text[p].token = "open"
    /\ Net(text, p) = depth - d + 1
    /\ \A k \in p + 1 .. Len(text) : Net(text, k) <= depth - d

KeysWithin(text, p) == {text[i].key : i \in {j \in Names(text) : Within(text, j) = p}}

\* The stack is what is open in the text, each container with the names that
\* stand directly within it.
Nested(text, st, pos) ==
    /\ Net(text, 1) = Len(st)
    /\ \A i \in Names(text) : Within(text, i) \in 1 .. Len(text)
    /\ \A d \in 1 .. Len(st) :
          OpenedBy(text, Len(st), d, pos[d]) /\ st[d].seen = KeysWithin(text, pos[d])

LEMMA OpenedStays ==
    ASSUME NEW text \in Seq(Tokens), NEW t \in Tokens, NEW depth \in Nat, NEW d \in 1 .. depth,
           NEW p, OpenedBy(text, depth, d, p)
    PROVE  OpenedBy(Append(text, t), depth + Weight(t), d, p)
  <1> DEFINE n == Len(text)
             longer == Append(text, t)
  <1>1. n \in Nat /\ Len(longer) = n + 1 /\ p \in 1 .. n /\ longer[p] = text[p]
    BY AppendedText DEF OpenedBy
  <1>2. Weight(t) \in Int
    BY DEF Weight
  <1>3. \A k \in 1 .. n + 1 : /\ Net(text, k) \in Int
                              /\ Net(longer, k) = Net(text, k) + Weight(t)
    BY NetGrows
  <1>4. Net(text, n + 1) = 0
    BY NetGrows
  <1> DEFINE depth2 == depth + Weight(t)
  <1> HIDE DEF n, longer
  <1>5. Net(longer, p) = depth2 - d + 1
    BY <1>1, <1>2, <1>3 DEF OpenedBy
  <1>6. ASSUME NEW k \in p + 1 .. n + 1
        PROVE  Net(longer, k) <= depth2 - d
    <2>1. k \in 1 .. n + 1
      BY <1>1
    <2>2. Net(text, k) <= depth - d
      <3>1. CASE k = n + 1
        BY <1>4, <3>1
      <3>2. CASE k # n + 1
        <4>1. k \in p + 1 .. n
          BY <1>1, <3>2
        <4>2. QED
          BY <4>1 DEF OpenedBy, n
      <3>3. QED
        BY <3>1, <3>2
    <2>3. QED
      BY <1>2, <1>3, <2>1, <2>2
  <1>7. p \in 1 .. n + 1 /\ longer[p].token = "open"
    BY <1>1 DEF OpenedBy
  <1> HIDE DEF depth2
  <1>8. OpenedBy(longer, depth2, d, p)
    BY <1>1, <1>5, <1>6, <1>7 DEF OpenedBy
  <1>9. QED
    BY <1>8 DEF longer, depth2

\* The next token stands within the container opened last.
LEMMA InnermostEncloses ==
    ASSUME NEW text \in Seq(Tokens), NEW depth \in Nat \ {0}, NEW p,
           OpenedBy(text, depth, depth, p)
    PROVE  Within(text, Len(text) + 1) = p
  <1> DEFINE n == Len(text)
  <1>1. n \in Nat /\ p \in 1 .. n
    BY DEF OpenedBy
  <1>2. \A k \in 1 .. n : /\ Opens(text, k, n) \in Nat /\ Closes(text, k, n) \in Nat
                          /\ Net(text, k) = Opens(text, k, n) - Closes(text, k, n)
    <2>1. \A k \in 1 .. n : \A w : Count(text, k, n, w) \in Nat
      BY <1>1, CountIsNumber
    <2>2. \A x, a, b : Opens(x, a, b) = Count(x, a, b, "open")
                      /\ Closes(x, a, b) = Count(x, a, b, "close")
      BY DEF Opens, Closes, Count
    <2>3. QED
      BY <2>1, <2>2 DEF Net
  <1>3. Net(text, p) = 1 /\ \A k \in p + 1 .. n : Net(text, k) <= 0
    <2>1. depth - depth = 0
      OBVIOUS
    <2>2. QED
      BY <2>1 DEF OpenedBy
  <1>4. n + 1 - 1 = n
    BY <1>1
  <1>5. Encloses(text, p, n + 1)
    <2>1. \A k \in p + 1 .. n : k \in 1 .. n /\ Opens(text, k, n) <= Closes(text, k, n)
      BY <1>1, <1>2, <1>3
    <2>2. Opens(text, p, n) = Closes(text, p, n) + 1
      BY <1>1, <1>2, <1>3
    <2>3. text[p].token = "open"
      BY DEF OpenedBy
    <2> DEFINE m == n + 1
    <2>4. m - 1 = n
      BY <1>4
    <2> HIDE DEF n, m
    <2>5. Encloses(text, p, m)
      BY <2>1, <2>2, <2>3, <2>4 DEF Encloses
    <2>6. QED
      BY <2>5 DEF m
  <1>6. ASSUME NEW j \in 1 .. n, Encloses(text, j, n + 1)
        PROVE  j = p
    <2>1. /\ Opens(text, j, n) = Closes(text, j, n) + 1
          /\ \A k \in j + 1 .. n : Opens(text, k, n) <= Closes(text, k, n)
      BY <1>4, <1>6 DEF Encloses
    <2>2. ~ (p < j)
      <3>1. p < j => j \in p + 1 .. n
        BY <1>1
      <3>2. QED
        BY <1>2, <1>3, <2>1, <3>1
    <2>3. ~ (j < p)
      <3>1. j < p => p \in j + 1 .. n
        BY <1>1
      <3>2. QED
        BY <1>1, <1>2, <1>3, <2>1, <3>1
    <2>4. QED
      BY <1>1, <2>2, <2>3
  <1>7. QED
    BY <1>1, <1>4, <1>5, <1>6 DEF Within

\* What names stand within a bracket changes only by the name read next.
LEMMA KeysWithinGrow ==
    ASSUME NEW text \in Seq(Tokens), NEW t \in Tokens, NEW p
    PROVE  KeysWithin(Append(text, t), p) =
              KeysWithin(text, p) \cup
                 (IF t.token = "key" /\ Within(text, Len(text) + 1) = p THEN {t.key} ELSE {})
  <1> DEFINE n == Len(text)
             longer == Append(text, t)
  <1>1. /\ n \in Nat /\ longer[n + 1] = t /\ \A k \in 1 .. n : longer[k] = text[k]
    BY AppendedText
  <1>2. /\ Names(text) \subseteq 1 .. n
        /\ Names(longer) = Names(text) \cup (IF t.token = "key" THEN {n + 1} ELSE {})
    BY NamesGrow
  <1>3. \A k \in 1 .. n + 1 : Within(longer, k) = Within(text, k)
    BY WithinStays
  <1> HIDE DEF n, longer
  <1>4. \A i \in Names(text) : longer[i].key = text[i].key /\ Within(longer, i) = Within(text, i)
    BY <1>1, <1>2, <1>3
  <1>5. Within(longer, n + 1) = Within(text, n + 1)
    BY <1>1, <1>3
  <1>6. KeysWithin(longer, p) =
           KeysWithin(text, p) \cup
              (IF t.token = "key" /\ Within(text, n + 1) = p THEN {t.key} ELSE {})
    BY <1>1, <1>2, <1>4, <1>5 DEF KeysWithin
  <1>7. QED
    BY <1>6 DEF n, longer

LEMMA KeysWithinStay ==
    ASSUME NEW text \in Seq(Tokens), NEW t \in Tokens, t.token # "key", NEW p
    PROVE  KeysWithin(Append(text, t), p) = KeysWithin(text, p)
  <1>1. KeysWithin(Append(text, t), p) =
           KeysWithin(text, p) \cup
              (IF t.token = "key" /\ Within(text, Len(text) + 1) = p THEN {t.key} ELSE {})
    BY KeysWithinGrow
  <1>2. QED
    BY <1>1

\* Every name stands within something read before it.
LEMMA NamesStandWithin ==
    ASSUME NEW text \in Seq(Tokens), NEW t \in Tokens,
           \A i \in Names(text) : Within(text, i) \in 1 .. Len(text),
           t.token = "key" => Within(text, Len(text) + 1) \in 1 .. Len(text)
    PROVE  \A i \in Names(Append(text, t)) :
              Within(Append(text, t), i) \in 1 .. Len(Append(text, t))
  <1>1. Len(text) \in Nat /\ Len(Append(text, t)) = Len(text) + 1
    BY AppendedText
  <1>2. /\ Names(text) \subseteq 1 .. Len(text)
        /\ Names(Append(text, t)) =
              Names(text) \cup (IF t.token = "key" THEN {Len(text) + 1} ELSE {})
    BY NamesGrow
  <1>3. \A k \in 1 .. Len(text) + 1 : Within(Append(text, t), k) = Within(text, k)
    BY WithinStays
  <1>4. ASSUME NEW i \in Names(Append(text, t))
        PROVE  Within(Append(text, t), i) \in 1 .. Len(text) + 1
    <2>1. i \in 1 .. Len(text) + 1 /\ Within(text, i) \in 1 .. Len(text)
      BY <1>1, <1>2
    <2>2. QED
      BY <1>1, <1>3, <2>1
  <1>5. QED
    BY <1>1, <1>4

LEMMA NestedOpen ==
    ASSUME NEW text \in Seq(Tokens), NEW st \in Seq(Containers), NEW pos, Nested(text, st, pos),
           NEW kind \in Kinds
    PROVE  \E wider : Nested(Append(text, Open(kind)), Append(st, [kind |-> kind, seen |-> {}]), wider)
  <1> DEFINE n == Len(text)
             t == Open(kind)
             longer == Append(text, t)
             L == Len(st)
             inner == [kind |-> kind, seen |-> {}]
             deeper == Append(st, inner)
             wider == [d \in 1 .. L + 1 |-> IF d = L + 1 THEN n + 1 ELSE pos[d]]
  <1>1. t \in Tokens /\ t.token = "open" /\ t.token # "key" /\ Weight(t) = 1
    BY DEF Tokens, Open, Weight
  <1>2. n \in Nat /\ Len(longer) = n + 1 /\ longer[n + 1] = t
    BY <1>1, AppendedText
  <1>3. L \in Nat /\ Len(deeper) = L + 1 /\ deeper[L + 1] = inner /\ \A d \in 1 .. L : deeper[d] = st[d]
    OBVIOUS
  <1>4. /\ Net(text, 1) = L
        /\ \A i \in Names(text) : Within(text, i) \in 1 .. n
        /\ \A d \in 1 .. L : OpenedBy(text, L, d, pos[d]) /\ st[d].seen = KeysWithin(text, pos[d])
    BY DEF Nested
  <1>5. Net(longer, 1) = L + 1 /\ Net(longer, n + 1) = 1
    <2>1. 1 \in 1 .. n + 1 /\ n + 1 \in 1 .. n + 1
      BY <1>2
    <2>2. Net(longer, 1) = Net(text, 1) + Weight(t)
      BY <1>1, <2>1, NetGrows
    <2>3. Net(longer, n + 1) = Net(text, n + 1) + Weight(t) /\ Net(text, n + 1) = 0
      BY <1>1, <2>1, NetGrows
    <2>4. QED
      BY <1>1, <1>3, <1>4, <2>2, <2>3
  <1>6. \A i \in Names(longer) : Within(longer, i) \in 1 .. n + 1
    BY <1>1, <1>2, <1>4, NamesStandWithin
  <1>7. \A p : KeysWithin(longer, p) = KeysWithin(text, p)
    BY <1>1, KeysWithinStay
  <1>8. KeysWithin(text, n + 1) = {}
    BY <1>2, <1>4 DEF KeysWithin
  <1>9. ASSUME NEW d \in 1 .. L
        PROVE  OpenedBy(longer, L + 1, d, pos[d])
    BY <1>1, <1>3, <1>4, OpenedStays
  <1> HIDE DEF n, t, longer, L, inner, deeper
  <1>10. OpenedBy(longer, L + 1, L + 1, n + 1)
    <2>1. n + 1 \in 1 .. n + 1 /\ (L + 1) - (L + 1) + 1 = 1 /\ n + 1 + 1 .. n + 1 = {}
      BY <1>2, <1>3
    <2>2. QED
      BY <1>1, <1>2, <1>5, <2>1 DEF OpenedBy
  <1>11. ASSUME NEW d \in 1 .. L + 1
         PROVE  OpenedBy(longer, L + 1, d, wider[d]) /\ deeper[d].seen = KeysWithin(longer, wider[d])
    <2>1. CASE d = L + 1
      <3>1. wider[d] = n + 1 /\ deeper[d].seen = {}
        BY <1>3, <2>1 DEF inner
      <3>2. QED
        BY <1>7, <1>8, <1>10, <2>1, <3>1
    <2>2. CASE d # L + 1
      <3>1. d \in 1 .. L /\ wider[d] = pos[d]
        BY <1>3, <2>2
      <3>2. QED
        BY <1>3, <1>4, <1>7, <1>9, <3>1
    <2>3. QED
      BY <2>1, <2>2
  <1> HIDE DEF wider
  <1>12. Nested(longer, deeper, wider)
    BY <1>2, <1>3, <1>5, <1>6, <1>11 DEF Nested
  <1>13. QED
    BY <1>12 DEF longer, deeper, t, inner

LEMMA NestedScalar ==
    ASSUME NEW text \in Seq(Tokens), NEW st \in Seq(Containers), NEW pos, Nested(text, st, pos)
    PROVE  Nested(Append(text, Scalar), st, pos)
  <1> DEFINE n == Len(text)
             t == Scalar
             longer == Append(text, t)
             L == Len(st)
  <1>1. t \in Tokens /\ t.token # "key" /\ Weight(t) = 0
    BY DEF Tokens, Scalar, Weight
  <1>2. n \in Nat /\ Len(longer) = n + 1 /\ 1 \in 1 .. n + 1 /\ L \in Nat
    BY <1>1, AppendedText
  <1>3. /\ Net(text, 1) = L
        /\ \A i \in Names(text) : Within(text, i) \in 1 .. n
        /\ \A d \in 1 .. L : OpenedBy(text, L, d, pos[d]) /\ st[d].seen = KeysWithin(text, pos[d])
    BY DEF Nested
  <1>4. Net(longer, 1) = L
    <2>1. Net(longer, 1) = Net(text, 1) + Weight(t)
      BY <1>1, <1>2, NetGrows
    <2>2. QED
      BY <1>1, <1>2, <1>3, <2>1
  <1>5. \A i \in Names(longer) : Within(longer, i) \in 1 .. n + 1
    BY <1>1, <1>2, <1>3, NamesStandWithin
  <1>6. \A p : KeysWithin(longer, p) = KeysWithin(text, p)
    BY <1>1, KeysWithinStay
  <1>7. L + Weight(t) = L
    BY <1>1, <1>2
  <1>8. ASSUME NEW d \in 1 .. L
        PROVE  OpenedBy(longer, L, d, pos[d])
    <2>1. OpenedBy(longer, L + Weight(t), d, pos[d])
      BY <1>1, <1>2, <1>3, OpenedStays
    <2>2. QED
      BY <1>7, <2>1
  <1> HIDE DEF n, t, longer, L
  <1>9. Nested(longer, st, pos)
    BY <1>2, <1>3, <1>4, <1>5, <1>6, <1>8 DEF Nested, L
  <1>10. QED
    BY <1>9 DEF longer, t

LEMMA NestedClose ==
    ASSUME NEW text \in Seq(Tokens), NEW st \in Seq(Containers), NEW pos, Nested(text, st, pos),
           st # <<>>
    PROVE  Front(st) \in Seq(Containers) /\ Nested(Append(text, Close), Front(st), pos)
  <1> DEFINE n == Len(text)
             t == Close
             longer == Append(text, t)
             L == Len(st)
             outer == Front(st)
  <1>1. t \in Tokens /\ t.token # "key" /\ Weight(t) = 0 - 1
    BY DEF Tokens, Close, Weight
  <1>2. n \in Nat /\ Len(longer) = n + 1 /\ 1 \in 1 .. n + 1
    BY <1>1, AppendedText
  <1>3. /\ L \in Nat \ {0} /\ outer \in Seq(Containers) /\ Len(outer) = L - 1
        /\ \A d \in 1 .. L - 1 : outer[d] = st[d]
    <2>1. \A S : \A s \in Seq(S) : s # <<>> =>
             /\ Len(s) \in Nat \ {0} /\ Front(s) \in Seq(S) /\ Len(Front(s)) = Len(s) - 1
             /\ \A d \in 1 .. Len(s) - 1 : Front(s)[d] = s[d]
      <3> SUFFICES ASSUME NEW S, NEW s \in Seq(S), s # <<>>
                   PROVE  /\ Len(s) \in Nat \ {0} /\ Front(s) \in Seq(S)
                          /\ Len(Front(s)) = Len(s) - 1
                          /\ \A d \in 1 .. Len(s) - 1 : Front(s)[d] = s[d]
        OBVIOUS
      <3>1. Len(s) \in Nat \ {0}
        OBVIOUS
      <3>2. /\ Front(s) = [d \in 1 .. Len(s) - 1 |-> s[d]]
            /\ \A d \in 1 .. Len(s) - 1 : s[d] \in S
        BY <3>1 DEF Front
      <3>3. QED
        BY ONLY <3>1, <3>2
    <2>2. QED
      BY ONLY <2>1, st \in Seq(Containers), st # <<>>
  <1>4. /\ Net(text, 1) = L
        /\ \A i \in Names(text) : Within(text, i) \in 1 .. n
        /\ \A d \in 1 .. L : OpenedBy(text, L, d, pos[d]) /\ st[d].seen = KeysWithin(text, pos[d])
    BY DEF Nested
  <1>5. Net(longer, 1) = L - 1
    <2>1. Net(longer, 1) = Net(text, 1) + Weight(t)
      BY <1>1, <1>2, NetGrows
    <2>2. QED
      BY <1>1, <1>3, <1>4, <2>1
  <1>6. \A i \in Names(longer) : Within(longer, i) \in 1 .. n + 1
    BY <1>1, <1>2, <1>4, NamesStandWithin
  <1>7. \A p : KeysWithin(longer, p) = KeysWithin(text, p)
    BY <1>1, KeysWithinStay
  <1>8. L + Weight(t) = L - 1
    BY <1>1, <1>3
  <1>9. ASSUME NEW d \in 1 .. L - 1
        PROVE  OpenedBy(longer, L - 1, d, pos[d]) /\ outer[d].seen = KeysWithin(longer, pos[d])
    <2>1. d \in 1 .. L /\ L \in Nat
      BY <1>3
    <2>2. OpenedBy(longer, L + Weight(t), d, pos[d])
      BY <1>1, <1>4, <2>1, OpenedStays
    <2>3. QED
      BY <1>3, <1>4, <1>7, <1>8, <2>1, <2>2
  <1> HIDE DEF n, t, longer, L, outer
  <1>10. Nested(longer, outer, pos)
    BY <1>2, <1>3, <1>5, <1>6, <1>9 DEF Nested
  <1>11. QED
    BY <1>3, <1>10 DEF longer, t, outer

\* The name read next stands within the innermost container, and repeats a name
\* just when that container has seen it.
LEMMA NestedKey ==
    ASSUME NEW text \in Seq(Tokens), NEW st \in Seq(Containers), NEW pos, Nested(text, st, pos),
           st # <<>>, NEW k \in Keys
    PROVE  LET L == Len(st)
               named == [st EXCEPT ![L].seen = @ \cup {k}]
           IN  /\ named \in Seq(Containers) /\ Len(named) = L
               /\ Nested(Append(text, Key(k)), named, pos)
               /\ Within(text, Len(text) + 1) = pos[L]
               /\ Last(st).seen = KeysWithin(text, pos[L])
  <1> DEFINE n == Len(text)
             t == Key(k)
             longer == Append(text, t)
             L == Len(st)
             named == [st EXCEPT ![L].seen = @ \cup {k}]
  <1>1. t \in Tokens /\ t.token = "key" /\ t.key = k /\ Weight(t) = 0
    BY DEF Tokens, Key, Weight
  <1>2. n \in Nat /\ Len(longer) = n + 1 /\ 1 \in 1 .. n + 1
    BY <1>1, AppendedText
  <1>3. /\ L \in Nat \ {0} /\ named \in Seq(Containers) /\ Len(named) = L
        /\ named[L].seen = st[L].seen \cup {k}
        /\ \A d \in 1 .. L - 1 : named[d] = st[d]
    <2>1. L \in Nat \ {0} /\ st[L] \in Containers /\ DOMAIN st = 1 .. L
      OBVIOUS
    <2>2. [st[L] EXCEPT !.seen = @ \cup {k}] \in Containers
      BY <2>1 DEF Containers
    <2>3. named = [st EXCEPT ![L] = [st[L] EXCEPT !.seen = @ \cup {k}]]
      BY <2>1
    <2>4. [st[L] EXCEPT !.seen = @ \cup {k}].seen = st[L].seen \cup {k}
      BY <2>1 DEF Containers
    <2>5. QED
      BY <2>1, <2>2, <2>3, <2>4
  <1>4. /\ Net(text, 1) = L
        /\ \A i \in Names(text) : Within(text, i) \in 1 .. n
        /\ \A d \in 1 .. L : OpenedBy(text, L, d, pos[d]) /\ st[d].seen = KeysWithin(text, pos[d])
    BY DEF Nested
  <1>5. Net(longer, 1) = L
    <2>1. Net(longer, 1) = Net(text, 1) + Weight(t)
      BY <1>1, <1>2, NetGrows
    <2>2. QED
      BY <1>1, <1>3, <1>4, <2>1
  <1>6. L \in 1 .. L /\ OpenedBy(text, L, L, pos[L]) /\ pos[L] \in 1 .. n
    BY <1>3, <1>4 DEF OpenedBy
  <1>7. Within(text, n + 1) = pos[L]
    BY <1>3, <1>6, InnermostEncloses
  <1>8. \A i \in Names(longer) : Within(longer, i) \in 1 .. n + 1
    <2>1. Within(text, n + 1) \in 1 .. n
      BY <1>6, <1>7
    <2>2. QED
      BY <1>1, <1>2, <1>4, <2>1, NamesStandWithin
  <1>9. \A p : KeysWithin(longer, p) = KeysWithin(text, p) \cup (IF pos[L] = p THEN {k} ELSE {})
    <2>1. \A p : KeysWithin(longer, p) =
                    KeysWithin(text, p) \cup
                       (IF t.token = "key" /\ Within(text, n + 1) = p THEN {t.key} ELSE {})
      BY <1>1, KeysWithinGrow
    <2>2. QED
      BY <1>1, <1>7, <2>1
  <1>10. L + Weight(t) = L
    BY <1>1, <1>3
  <1>11. ASSUME NEW d \in 1 .. L
         PROVE  OpenedBy(longer, L, d, pos[d])
    <2>1. OpenedBy(longer, L + Weight(t), d, pos[d])
      BY <1>1, <1>3, <1>4, OpenedStays
    <2>2. QED
      BY <1>10, <2>1
  <1> HIDE DEF n, t, longer, L, named
  <1>12. ASSUME NEW d \in 1 .. L
         PROVE  named[d].seen = KeysWithin(longer, pos[d])
    <2>1. CASE d = L
      BY <1>3, <1>4, <1>6, <1>9, <2>1
    <2>2. CASE d # L
      <3>1. d \in 1 .. L - 1 /\ L - L + 1 = 1 /\ L - d + 1 # 1
        BY <1>3, <2>2
      <3>2. pos[d] # pos[L]
        BY <1>4, <1>6, <3>1 DEF OpenedBy
      <3>3. KeysWithin(longer, pos[d]) = KeysWithin(text, pos[d])
        BY <1>9, <3>2
      <3>4. QED
        BY <1>3, <1>4, <3>1, <3>3
    <2>3. QED
      BY <2>1, <2>2
  <1>13. Nested(longer, named, pos)
    BY <1>2, <1>3, <1>5, <1>8, <1>11, <1>12 DEF Nested
  <1>14. Last(st).seen = KeysWithin(text, pos[L])
    BY <1>4, <1>6 DEF Last, L
  <1>15. QED
    BY <1>3, <1>7, <1>13, <1>14 DEF longer, named, n, t, L

-----------------------------------------------------------------------------
(***************************************************************************)
(* The walk's invariant.                                                   *)
(***************************************************************************)
TypeOK ==
    /\ stack \in Seq(Containers)
    /\ mode \in Kinds \cup {"value"}
    /\ document \in Seq(Tokens)

\* While the walk reads, the stack is what the text has open; only a name just
\* read may stand too deep, and its value is what is read next.
Walking ==
    /\ \E pos : Nested(document, stack, pos)
    /\ Repeats(document) = {}
    /\ mode # "value" => stack # <<>>
    /\ mode = "value" => document = <<>> \/ Last(document).token = "key"
    /\ \A i \in Names(document) :
          DepthAt(document, i) > MaxDepth => i = Len(document) /\ mode = "value"

IInv ==
    /\ TypeOK
    /\ verdict = "reading" => Walking
    /\ RepeatsAreRefused
    /\ DeepMembersAreRefused

\* A token that is no name, read where no name stands too deep.
LEMMA ReadOther ==
    ASSUME TypeOK, Walking, \A i \in Names(document) : DepthAt(document, i) <= MaxDepth,
           NEW t \in Tokens, t.token # "key"
    PROVE  LET longer == Append(document, t)
           IN  /\ longer \in Seq(Tokens)
               /\ Repeats(longer) = {}
               /\ \A i \in Names(longer) : DepthAt(longer, i) <= MaxDepth
  <1> DEFINE longer == Append(document, t)
  <1>1. document \in Seq(Tokens) /\ Repeats(document) = {}
    BY DEF TypeOK, Walking
  <1>2. longer \in Seq(Tokens)
    BY <1>1, AppendedText
  <1>3. Repeats(longer) = {}
    BY <1>1, RepeatsGrow
  <1>4. Names(longer) = Names(document) /\ Names(document) \subseteq 1 .. Len(document)
    BY <1>1, NamesGrow
  <1>5. \A i \in Names(document) : DepthAt(longer, i) = DepthAt(document, i)
    BY <1>1, <1>4, DepthStays
  <1> HIDE DEF longer
  <1>6. \A i \in Names(longer) : DepthAt(longer, i) <= MaxDepth
    BY <1>4, <1>5
  <1>7. QED
    BY <1>2, <1>3, <1>6 DEF longer

\* The depth of the last token is the number of open containers.
LEMMA LastDepth ==
    ASSUME NEW text, NEW st, NEW pos, Nested(text, st, pos)
    PROVE  DepthAt(text, Len(text)) = Len(st)
  BY DEF DepthAt, Nested, Net

LEMMA DepthIsNumber ==
    ASSUME NEW text, NEW i \in Int
    PROVE  DepthAt(text, i) \in Int
  <1>1. \A w : Count(text, 1, i, w) \in Nat
    BY CountIsNumber
  <1>2. \A x, a, b : Opens(x, a, b) = Count(x, a, b, "open")
                    /\ Closes(x, a, b) = Count(x, a, b, "close")
    BY DEF Opens, Closes, Count
  <1>3. QED
    BY <1>1, <1>2 DEF DepthAt

\* What every step owes the invariant when nothing is refused by it.
LEMMA GoesOn ==
    ASSUME TypeOK', Repeats(document') = {}, verdict' \notin {"duplicate", "too deep"},
           \A i \in Names(document') : DepthAt(document', i) > MaxDepth => i = Len(document'),
           verdict' = "reading" => Walking'
    PROVE  IInv'
  BY DEF IInv, RepeatsAreRefused, DeepMembersAreRefused

\* A call that returns, and a token that is no name.
LEMMA ReturnStep ==
    ASSUME TypeOK, Walking, verdict = "reading",
           \A i \in Names(document) : DepthAt(document, i) <= MaxDepth,
           NEW t \in Tokens, t.token # "key", Read(t),
           NEW outer \in Seq(Containers), \E pos : Nested(Append(document, t), outer, pos),
           Return(outer)
    PROVE  IInv'
  <1>1. /\ document' \in Seq(Tokens) /\ Repeats(document') = {}
        /\ \A i \in Names(document') : DepthAt(document', i) <= MaxDepth
    BY ReadOther DEF Read
  <1>2. \A i \in Names(document') : ~(DepthAt(document', i) > MaxDepth)
    <2>1. \A i \in Names(document') : i \in Int
      BY <1>1 DEF Names
    <2>2. QED
      BY <1>1, <2>1, DepthIsNumber, DepthIsBounded
  <1>3. stack' = outer /\ \E pos : Nested(document', stack', pos)
    BY DEF Read, Return
  <1>4. CASE outer = <<>>
    <2>1. verdict' = "ok" /\ mode' = mode
      BY <1>4 DEF Return
    <2>2. TypeOK'
      BY <1>1, <1>3, <2>1 DEF TypeOK
    <2>3. QED
      BY <1>1, <1>2, <2>1, <2>2, GoesOn
  <1>5. CASE outer # <<>>
    <2>1. verdict' = "reading" /\ mode' = Last(outer).kind
      BY <1>5 DEF Return
    <2>2. Last(outer) \in Containers
      <3>1. \A S : \A s \in Seq(S) : s # <<>> => Last(s) \in S
        BY DEF Last
      <3>2. QED
        BY ONLY <3>1, <1>5, outer \in Seq(Containers)
    <2>3. mode' \in Kinds /\ mode' # "value"
      BY <2>1, <2>2 DEF Containers, Kinds
    <2>4. TypeOK'
      BY <1>1, <1>3, <2>3 DEF TypeOK
    <2>5. Walking'
      BY <1>1, <1>2, <1>3, <1>5, <2>3 DEF Walking
    <2>6. QED
      BY <1>1, <1>2, <2>1, <2>4, <2>5, GoesOn
  <1>6. QED
    BY <1>4, <1>5

LEMMA FromStep ==
    ASSUME TypeOK, Walking, verdict = "reading",
           \A i \in Names(document) : DepthAt(document, i) <= MaxDepth,
           NEW t \in Values, From(t)
    PROVE  IInv'
  <1>1. /\ document \in Seq(Tokens) /\ stack \in Seq(Containers)
        /\ Read(t) /\ document' = Append(document, t)
    BY DEF TypeOK, From, Read
  <1>2. PICK pos : Nested(document, stack, pos)
    BY DEF Walking
  <1>3. CASE t = Scalar
    <2>1. Return(stack)
      BY <1>3 DEF From
    <2>2. t \in Tokens /\ t.token # "key"
      BY <1>3 DEF Tokens, Scalar
    <2>3. Nested(Append(document, t), stack, pos)
      BY <1>1, <1>2, <1>3, NestedScalar
    <2>4. QED
      BY <1>1, <2>1, <2>2, <2>3, ReturnStep
  <1>4. CASE t # Scalar
    <2>1. PICK kind \in Kinds : t = Open(kind)
      BY <1>4 DEF Values, Kinds
    <2>2. t \in Tokens /\ t.token # "key" /\ t.kind = kind
      BY <2>1 DEF Tokens, Open
    <2>3. /\ stack' = Append(stack, [kind |-> kind, seen |-> {}])
          /\ mode' = kind
          /\ verdict' = "reading"
      BY <1>4, <2>2 DEF From
    <2>4. /\ document' \in Seq(Tokens) /\ Repeats(document') = {}
          /\ \A i \in Names(document') : DepthAt(document', i) <= MaxDepth
      BY <1>1, <2>2, ReadOther
    <2>5. \A i \in Names(document') : ~(DepthAt(document', i) > MaxDepth)
      <3>1. \A i \in Names(document') : i \in Int
        BY <2>4 DEF Names
      <3>2. QED
        BY <2>4, <3>1, DepthIsNumber, DepthIsBounded
    <2>6. stack' \in Seq(Containers) /\ stack' # <<>>
      <3>1. \A S : \A s \in Seq(S) : \A e \in S : Append(s, e) \in Seq(S) /\ Append(s, e) # <<>>
        OBVIOUS
      <3>2. [kind |-> kind, seen |-> {}] \in Containers
        BY DEF Containers
      <3>3. QED
        BY ONLY <1>1, <2>3, <3>1, <3>2
    <2>7. \E wider : Nested(document', stack', wider)
      BY <1>1, <1>2, <2>1, <2>3, NestedOpen
    <2>8. TypeOK'
      BY <2>3, <2>4, <2>6 DEF TypeOK
    <2>9. mode' # "value"
      BY <2>3 DEF Kinds
    <2>10. Walking'
      BY <2>4, <2>5, <2>6, <2>7, <2>9 DEF Walking
    <2>11. QED
      BY <2>3, <2>4, <2>5, <2>8, <2>10, GoesOn
  <1>5. QED
    BY <1>3, <1>4

LEMMA ClosingStep ==
    ASSUME TypeOK, Walking, verdict = "reading", mode # "value", Closing
    PROVE  IInv'
  <1>1. document \in Seq(Tokens) /\ stack \in Seq(Containers) /\ stack # <<>>
    BY DEF TypeOK, Walking
  <1>2. PICK pos : Nested(document, stack, pos)
    BY DEF Walking
  <1>3. Front(stack) \in Seq(Containers) /\ Nested(Append(document, Close), Front(stack), pos)
    BY <1>1, <1>2, NestedClose
  <1>4. Close \in Tokens /\ Close.token # "key"
    BY DEF Tokens, Close
  <1>5. \A i \in Names(document) : DepthAt(document, i) <= MaxDepth
    <2>1. \A i \in Names(document) : i \in Int
      BY <1>1 DEF Names
    <2>2. QED
      BY <2>1, DepthIsNumber, DepthIsBounded DEF Walking
  <1>6. QED
    BY <1>3, <1>4, <1>5, ReturnStep DEF Closing

\* What a name changes: it is the only one that may repeat another or stand too
\* deep, and it repeats another just when its object has seen it.
LEMMA KeyRead ==
    ASSUME TypeOK, Walking, mode # "value", NEW k \in Keys
    PROVE  LET longer == Append(document, Key(k))
               named == [stack EXCEPT ![Len(stack)].seen = @ \cup {k}]
           IN  /\ longer \in Seq(Tokens) /\ longer # <<>> /\ Last(longer).token = "key"
               /\ named \in Seq(Containers)
               /\ \E pos : Nested(longer, named, pos)
               /\ Repeats(longer) = IF k \in Last(stack).seen THEN {Len(longer)} ELSE {}
               /\ \A i \in Names(longer) : DepthAt(longer, i) > MaxDepth => i = Len(longer)
  <1> DEFINE n == Len(document)
             t == Key(k)
             longer == Append(document, t)
             named == [stack EXCEPT ![Len(stack)].seen = @ \cup {k}]
  <1>1. /\ document \in Seq(Tokens) /\ stack \in Seq(Containers) /\ stack # <<>>
        /\ Repeats(document) = {}
        /\ \A i \in Names(document) : ~(DepthAt(document, i) > MaxDepth)
    BY DEF TypeOK, Walking
  <1>2. t \in Tokens /\ t.token = "key" /\ t.key = k
    BY DEF Tokens, Key
  <1>3. /\ n \in Nat /\ longer \in Seq(Tokens) /\ Len(longer) = n + 1 /\ longer[n + 1] = t
    BY <1>1, <1>2, AppendedText
  <1>4. PICK pos : Nested(document, stack, pos)
    BY DEF Walking
  <1>5. /\ named \in Seq(Containers)
        /\ Nested(longer, named, pos)
        /\ Within(document, n + 1) = pos[Len(stack)]
        /\ Last(stack).seen = KeysWithin(document, pos[Len(stack)])
    BY <1>1, <1>4, NestedKey
  <1>6. Repeats(longer) =
           IF \E j \in Names(document) : Within(document, j) = Within(document, n + 1)
                                         /\ document[j].key = k
           THEN {n + 1} ELSE {}
    BY <1>1, <1>2, RepeatsGrow
  <1>7. k \in Last(stack).seen <=>
           \E j \in Names(document) : Within(document, j) = Within(document, n + 1)
                                      /\ document[j].key = k
    BY <1>5 DEF KeysWithin
  <1>8. /\ Names(document) \subseteq 1 .. n
        /\ Names(longer) = Names(document) \cup {n + 1}
    BY <1>1, <1>2, NamesGrow
  <1>9. \A i \in 1 .. n : DepthAt(longer, i) = DepthAt(document, i)
    BY <1>1, <1>2, DepthStays
  <1> HIDE DEF n, t, longer, named
  <1>10. \A i \in Names(longer) : DepthAt(longer, i) > MaxDepth => i = n + 1
    BY <1>1, <1>8, <1>9
  <1>11. longer # <<>> /\ Last(longer).token = "key"
    BY <1>2, <1>3 DEF Last
  <1>12. Repeats(longer) = IF k \in Last(stack).seen THEN {n + 1} ELSE {}
    BY <1>6, <1>7
  <1>13. QED
    BY <1>3, <1>5, <1>10, <1>11, <1>12 DEF longer, named, t

LEMMA InitStep == Init => IInv
  <1> SUFFICES ASSUME Init PROVE IInv
    OBVIOUS
  <1>1. TypeOK
    BY DEF Init, TypeOK, Kinds
  <1>2. /\ document = <<>> /\ stack = <<>> /\ mode = "value" /\ verdict = "reading"
        /\ Len(document) = 0
    BY DEF Init
  <1>3. Names(document) = {} /\ Repeats(document) = {}
    BY <1>2 DEF Names, Repeats
  <1>4. Nested(document, stack, stack)
    <2>1. 1 = Len(document) + 1 /\ 1 \in 1 .. Len(document) + 1
      BY <1>2
    <2>2. Close \in Tokens /\ document \in Seq(Tokens)
      BY <1>1 DEF TypeOK, Tokens
    <2>3. Net(document, 1) = 0
      BY <2>1, <2>2, NetGrows
    <2>4. QED
      BY <1>2, <1>3, <2>3 DEF Nested
  <1>5. Walking
    BY <1>2, <1>3, <1>4 DEF Walking
  <1>6. QED
    BY <1>1, <1>2, <1>3, <1>5 DEF IInv, RepeatsAreRefused, DeepMembersAreRefused

LEMMA ValueStep == IInv /\ Value => IInv'
  <1> SUFFICES ASSUME IInv, Value PROVE IInv'
    OBVIOUS
  <1>1. verdict = "reading" /\ mode = "value" /\ TypeOK /\ Walking
    BY DEF Value, Reading, IInv
  <1>2. PICK pos : Nested(document, stack, pos)
    BY <1>1 DEF Walking
  <1>3. DepthAt(document, Len(document)) = Len(stack)
    BY <1>2, LastDepth
  <1>4. document \in Seq(Tokens) /\ stack \in Seq(Containers) /\ Len(stack) \in Nat
    BY <1>1 DEF TypeOK
  <1>5. CASE Len(stack) > MaxDepth /\ End("too deep") /\ UNCHANGED document
    <2>1. TypeOK' /\ verdict' = "too deep" /\ document' = document
      BY <1>1, <1>5 DEF TypeOK, End
    <2>2. document # <<>>
      <3>1. ASSUME document = <<>>
            PROVE  FALSE
        <4>1. 1 = Len(document) + 1 /\ 1 \in 1 .. Len(document) + 1
          BY <3>1
        <4>2. Close \in Tokens
          BY DEF Tokens
        <4>3. Net(document, 1) = 0
          BY <1>4, <4>1, <4>2, NetGrows
        <4>4. Net(document, 1) = Len(stack)
          BY <1>2 DEF Nested
        <4>5. Len(stack) = 0
          BY <4>3, <4>4
        <4>6. 0 > MaxDepth
          BY <1>5, <4>5
        <4>7. QED
          BY <4>6, DepthIsBounded
      <3>2. QED
        BY <3>1
    <2>3. Last(document).token = "key"
      BY <1>1, <2>2 DEF Walking
    <2>4. DeepMembersAreRefused'
      BY <1>1, <1>3, <1>5, <2>1, <2>3 DEF DeepMembersAreRefused, Walking
    <2>5. RepeatsAreRefused'
      BY <1>1, <2>1 DEF RepeatsAreRefused, Walking
    <2>6. QED
      BY <2>1, <2>4, <2>5 DEF IInv
  <1>6. CASE Len(stack) <= MaxDepth /\ \E token \in Values : From(token)
    <2>1. PICK token \in Values : From(token)
      BY <1>6
    <2>2. \A i \in Names(document) : DepthAt(document, i) <= MaxDepth
      <3>1. ASSUME NEW i \in Names(document)
            PROVE  DepthAt(document, i) <= MaxDepth
        <4>1. i \in Int
          BY <1>4 DEF Names
        <4>2. DepthAt(document, i) \in Int
          BY <4>1, DepthIsNumber
        <4>3. DepthAt(document, i) > MaxDepth => i = Len(document)
          BY <1>1 DEF Walking
        <4>4. QED
          BY <1>3, <1>4, <1>6, <4>2, <4>3, DepthIsBounded
      <3>2. QED
        BY <3>1
    <2>3. QED
      BY <1>1, <2>1, <2>2, FromStep
  <1>7. QED
    BY <1>5, <1>6 DEF Value

LEMMA MemberStep == IInv /\ Member => IInv'
  <1> SUFFICES ASSUME IInv, Member PROVE IInv'
    OBVIOUS
  <1>1. verdict = "reading" /\ mode = "object" /\ mode # "value" /\ TypeOK /\ Walking
    BY DEF Member, Reading, IInv
  <1>2. CASE Closing
    BY <1>1, <1>2, ClosingStep
  <1>3. ASSUME NEW k \in Keys, Read(Key(k)), k \in Last(stack).seen, End("duplicate")
        PROVE  IInv'
    <2>1. /\ document' = Append(document, Key(k)) /\ verdict' = "duplicate"
          /\ stack' = stack /\ mode' = mode
      BY <1>3 DEF Read, End
    <2>2. /\ document' \in Seq(Tokens)
          /\ Repeats(document') = {Len(document')}
          /\ \A i \in Names(document') : DepthAt(document', i) > MaxDepth => i = Len(document')
      BY <1>1, <1>3, <2>1, KeyRead
    <2>3. TypeOK'
      BY <1>1, <2>1, <2>2 DEF TypeOK
    <2>4. QED
      BY <2>1, <2>2, <2>3 DEF IInv, RepeatsAreRefused, DeepMembersAreRefused
  <1>4. ASSUME NEW k \in Keys, Read(Key(k)), k \notin Last(stack).seen,
               stack' = [stack EXCEPT ![Len(stack)].seen = @ \cup {k}],
               mode' = "value", UNCHANGED verdict
        PROVE  IInv'
    <2>1. document' = Append(document, Key(k)) /\ verdict' = "reading"
      BY <1>1, <1>4 DEF Read
    <2>2. /\ document' \in Seq(Tokens) /\ Last(document').token = "key"
          /\ stack' \in Seq(Containers)
          /\ \E pos : Nested(document', stack', pos)
          /\ Repeats(document') = {}
          /\ \A i \in Names(document') : DepthAt(document', i) > MaxDepth => i = Len(document')
      BY <1>1, <1>4, <2>1, KeyRead
    <2>3. TypeOK'
      BY <1>4, <2>2 DEF TypeOK
    <2>4. Walking'
      BY <1>4, <2>2 DEF Walking
    <2>5. QED
      BY <2>1, <2>2, <2>3, <2>4, GoesOn
  <1>5. QED
    BY <1>2, <1>3, <1>4 DEF Member

LEMMA ElementStep == IInv /\ Element => IInv'
  <1> SUFFICES ASSUME IInv, Element PROVE IInv'
    OBVIOUS
  <1>1. verdict = "reading" /\ mode # "value" /\ TypeOK /\ Walking
    BY DEF Element, Reading, IInv
  <1>2. \A i \in Names(document) : DepthAt(document, i) <= MaxDepth
    <2>1. \A i \in Names(document) : i \in Int
      BY <1>1 DEF Names, TypeOK
    <2>2. QED
      BY <1>1, <2>1, DepthIsNumber, DepthIsBounded DEF Walking
  <1>3. CASE Closing
    BY <1>1, <1>3, ClosingStep
  <1>4. ASSUME NEW token \in Values, From(token)
        PROVE  IInv'
    BY <1>1, <1>2, <1>4, FromStep
  <1>5. QED
    BY <1>3, <1>4 DEF Element

LEMMA NoTokenStep == IInv /\ NoToken => IInv'
  <1> SUFFICES ASSUME IInv, NoToken PROVE IInv'
    OBVIOUS
  <1>1. /\ verdict = "reading" /\ TypeOK /\ Walking
        /\ verdict' = "error" /\ UNCHANGED <<stack, mode, document>>
    BY DEF NoToken, Reading, End, IInv
  <1>2. TypeOK'
    BY <1>1 DEF TypeOK
  <1>3. /\ Repeats(document') = {}
        /\ \A i \in Names(document') : DepthAt(document', i) > MaxDepth => i = Len(document')
    BY <1>1 DEF Walking
  <1>4. QED
    BY <1>1, <1>2, <1>3, GoesOn

LEMMA UnchangedStep == IInv /\ UNCHANGED vars => IInv'
  BY DEF IInv, vars, TypeOK, Walking, RepeatsAreRefused, DeepMembersAreRefused

LEMMA NextKeepsIInv == IInv /\ [Next]_vars => IInv'
  BY ValueStep, MemberStep, ElementStep, NoTokenStep, UnchangedStep DEF Next

\* The walk's stack is the nesting of the text it has read, and what a container
\* has seen are the names that stand directly within it.
THEOREM IInvIsInvariant == Spec => []IInv
  <1>1. Init => IInv
    BY InitStep
  <1>2. IInv /\ [Next]_vars => IInv'
    BY NextKeepsIInv
  <1>3. QED
    BY <1>1, <1>2, PTL DEF Spec

\* checkValue refuses a document for a repeated name exactly when one object of
\* it has the same member name twice, and at the first name that repeats one,
\* whatever stands between the two and however deep.
THEOREM RepetitionsAreFound == Spec => []RepeatsAreRefused
  <1>1. IInv => RepeatsAreRefused
    BY DEF IInv
  <1>2. QED
    BY <1>1, IInvIsInvariant, PTL

\* No value of a member deeper than the limit is ever read, through whatever
\* containers it is reached, and only such a member is refused for its depth.
THEOREM DepthIsLimited == Spec => []DeepMembersAreRefused
  <1>1. IInv => DeepMembersAreRefused
    BY DEF IInv
  <1>2. QED
    BY <1>1, IInvIsInvariant, PTL
=============================================================================
