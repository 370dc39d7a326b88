--------------------------- MODULE MCCombinedIndex --------------------------
(***************************************************************************)
(* Documents and answers for CombinedIndex: a protected name pooled over a *)
(* private and a public source, in both orders, or bound to one of them.   *)
(***************************************************************************)
EXTENDS CombinedIndex

Protected == <<"g", "p">>

V(n) == [major |-> 1, minor |-> n, patch |-> 0]

Source(id, role) == [id |-> id, role |-> role, url |-> id]

MCPolicy(mappings) ==
    [formatKnown |-> TRUE,
     sources |-> <<Source("public", "public"), Source("private", "private"),
                   Source("spare", "public")>>,
     mappings |-> mappings]

Pooled(pattern, sources) ==
    [pattern |-> pattern, mode |-> Combined, source |-> NoId, sources |-> sources]

Bound(pattern, source) ==
    [pattern |-> pattern, mode |-> Exclusive, source |-> source, sources |-> <<>>]

MCPolicies ==
    {MCPolicy(<<Pooled(<<"g", "*">>, <<"private", "public">>)>>),
     MCPolicy(<<Pooled(<<"g", "*">>, <<"public", "private">>)>>),
     MCPolicy(<<Bound(Protected, "public")>>),
     MCPolicy(<<Bound(Protected, "public"), Bound(<<"g", "*">>, "private")>>),
     MCPolicy(<<Bound(<<"c">>, "public")>>),
     MCPolicy(<<Bound(<<"c">>, "nowhere")>>)}

MCDependencies ==
    {[alias |-> "policy", name |-> Protected, range |-> range] :
        range \in {[kind |-> "caret", base |-> V(1)], [kind |-> "exact", base |-> V(2)], Unparsable}}

MCInputs == [policy : MCPolicies, dep : MCDependencies, acknowledged : BOOLEAN]

Offers ==
    {[version |-> V(1), size |-> 2, digest |-> "d1"],
     [version |-> V(1), size |-> 2, digest |-> "d2"],
     [version |-> V(2), size |-> 2, digest |-> "d3"],
     [version |-> Unparsable, size |-> 2, digest |-> "d1"]}

MCListings == UNION {[1..n -> Offers] : n \in 0..2}

Bytes(digest, content) == [size |-> 2, digest |-> digest, content |-> content]

MCBlobs ==
    {Bytes("d1", [name |-> Protected, version |-> V(1)]), Bytes("d4", Malformed)}
=============================================================================
