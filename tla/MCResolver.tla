----------------------------- MODULE MCResolver -----------------------------
(***************************************************************************)
(* Documents and answers for Resolver, Trace, Fixtures and Registries: a   *)
(* protected name bound to its private source, everything that can be      *)
(* wrong with one document at a time, in every combination, and what its   *)
(* registry may carry, when it is one of the repository's.                 *)
(***************************************************************************)
EXTENDS Trace, Registries

Protected == <<"g", "p">>
Other == <<"c">>

V(n) == [major |-> 1, minor |-> n, patch |-> 0]

Private == [id |-> "private", role |-> "private", url |-> "private.example"]
Public == [id |-> "public", role |-> "public", url |-> "public.example"]

MCRegistrySets ==
    <<[url |-> "private.example", role |-> "private", vulnerable |-> FALSE],
      [url |-> "public.example", role |-> "public", vulnerable |-> FALSE]>>

Bind(pattern, source) ==
    [pattern |-> pattern, mode |-> Exclusive, source |-> source, sources |-> <<>>]

MCPolicy(mappings) ==
    [formatKnown |-> TRUE, sources |-> <<Public, Private>>, mappings |-> mappings]

ToPrivate == Bind(<<"g", "*">>, "private")

MCPolicies ==
    {MCPolicy(<<ToPrivate, Bind(<<"c">>, "public")>>),
     MCPolicy(<<ToPrivate, Bind(<<"*">>, "public")>>),
     MCPolicy(<<Bind(<<"c">>, "public")>>),
     MCPolicy(<<[ToPrivate EXCEPT !.mode = Combined, !.source = NoId,
                                  !.sources = <<"private", "public">>]>>),
     MCPolicy(<<ToPrivate, Bind(<<"g">>, "nowhere")>>)}

Size == 2

Pin == [alias |-> "policy", name |-> Protected, version |-> V(1), source |-> "private",
        size |-> Size, digest |-> "d1", archiveFormat |-> TRUE]

MCLock(records) == [formatKnown |-> TRUE, records |-> records]

MCLocks ==
    {MCLock(<<[Pin EXCEPT !.alias = "format"], [Pin EXCEPT !.digest = digest]>>) :
        digest \in {"d1", "d2", "d4"}}
    \cup
    {MCLock(<<>>),
     MCLock(<<Pin, [Pin EXCEPT !.digest = "d2"]>>),
     MCLock(<<[Pin EXCEPT !.alias = "format"]>>),
     MCLock(<<[Pin EXCEPT !.source = "public"]>>),
     MCLock(<<[Pin EXCEPT !.name = Other]>>),
     MCLock(<<[Pin EXCEPT !.name = Other, !.source = "public"]>>),
     MCLock(<<[Pin EXCEPT !.version = Unparsable]>>)}

MCDependencies ==
    {[alias |-> "policy", name |-> name, range |-> range] :
        name \in {Protected, Other},
        range \in {[kind |-> "caret", base |-> V(1)], [kind |-> "exact", base |-> V(2)], Unparsable}}

MCInputs == [policy : MCPolicies, lock : MCLocks, dep : MCDependencies]

Offers ==
    {[version |-> V(1), size |-> Size, digest |-> "d1"],
     [version |-> V(2), size |-> Size, digest |-> "d2"],
     [version |-> V(1), size |-> Size, digest |-> "d5"],
     [version |-> Unparsable, size |-> Size, digest |-> "d1"]}

MCListings == UNION {[1..n -> Offers] : n \in 0..2}

Package(name, version) == [name |-> name, version |-> version]

Bytes(size, digest, content) == [size |-> size, digest |-> digest, content |-> content]

\* What a source may send: what the lock meant, another length, another
\* version's package, other bytes for the same, and something that is no package.
MCBlobs ==
    {Bytes(Size, "d1", Package(Protected, V(1))),
     Bytes(Size, "d2", Package(Protected, V(2))),
     Bytes(Size, "d5", Package(Protected, V(1))),
     Bytes(Size + 1, "d3", Package(Protected, V(1))),
     Bytes(Size, "d4", Malformed)}

\* The package sources build the first three.
MCBuilt == {b \in MCBlobs : b.digest \in {"d1", "d2", "d5"}}

Build(digest) == CHOOSE b \in MCBuilt : b.digest = digest

Ref(n, digest) == [version |-> V(n), bytes |-> Build(digest)]

Entry(versions) == [name |-> Protected, versions |-> versions]

\* The private registry's document: nothing; the locked version, another one,
\* or both, in either order; other bytes as the same version, alone, before or
\* after the locked ones; the name twice; an artifact under another label.
PrivateDocuments ==
    {<<>>, <<Entry(<<>>)>>,
     <<Entry(<<Ref(2, "d2")>>)>>,
     <<Entry(<<Ref(1, "d1"), Ref(2, "d2")>>)>>,
     <<Entry(<<Ref(2, "d2"), Ref(1, "d1")>>)>>,
     <<Entry(<<Ref(1, "d5")>>)>>,
     <<Entry(<<Ref(1, "d5"), Ref(1, "d1")>>)>>,
     <<Entry(<<Ref(1, "d1"), Ref(1, "d5")>>)>>,
     <<Entry(<<Ref(2, "d2")>>), Entry(<<Ref(1, "d1")>>)>>,
     <<Entry(<<Ref(2, "d1")>>)>>}

\* The public one carries nothing of that name.
MCCatalogues ==
    {<<d, <<>>>> : d \in PrivateDocuments} \cup {<<Anybody, Anybody>>}
=============================================================================
