--------------------------- MODULE MCSourcePolicy ---------------------------
(***************************************************************************)
(* Policy documents drawn up one entry at a time, each entry inserted at   *)
(* any place, right or wrong; every name is resolved against every one.    *)
(***************************************************************************)
EXTENDS PolicyDocument

CONSTANTS MaxSources, MaxMappings

Patterns == {<<>>, <<"*">>, <<"g">>, <<"g", "*">>, <<"*", "g">>}

Ids == {"a", "b", "c"}

Mapping(pattern, mode, source, sources) ==
    [pattern |-> pattern, mode |-> mode, source |-> source, sources |-> sources]

Bindings ==
    {<<Exclusive, source, <<>>>> : source \in Ids \cup {NoId}}
    \cup {<<Combined, NoId, sources>> : sources \in {<<"a", "b">>, <<"b", "a">>, <<"a", "a">>, <<"a">>}}

Mappings == {Mapping(p, b[1], b[2], b[3]) : p \in Patterns, b \in Bindings}

Sources ==
    [id : Ids \cup {NoId}, role : {"private"}, url : {"u"}]
    \cup {[id |-> "a", role |-> "private", url |-> NoId]}

Init == policy = [formatKnown |-> TRUE, sources |-> <<>>, mappings |-> <<>>]

AddSource ==
    /\ Len(policy.sources) < MaxSources
    /\ \E s \in Sources, k \in 1..Len(policy.sources) + 1 :
          policy' = [policy EXCEPT !.sources = InsertAt(@, k, s)]

AddMapping ==
    /\ Len(policy.mappings) < MaxMappings
    /\ Len(policy.sources) = MaxSources
    /\ \E m \in Mappings, k \in 1..Len(policy.mappings) + 1 :
          policy' = [policy EXCEPT !.mappings = InsertAt(@, k, m)]

Next == AddSource \/ AddMapping

Spec == Init /\ [][Next]_policy

=============================================================================
