---------------------------- MODULE MCPkgArchive ----------------------------
(***************************************************************************)
(* Archives drawn up one entry at a time: the entries Build writes, every  *)
(* single thing that can be wrong with a header, and documents that are    *)
(* right and wrong.                                                        *)
(***************************************************************************)
EXTENDS PkgArchive

Manifest(formatKnown, named) == [formatKnown |-> formatKnown, named |-> named]

Manifests ==
    {Manifest(TRUE, TRUE), Manifest(FALSE, TRUE), Manifest(TRUE, FALSE), Malformed}

E(key, value) == [key |-> key, value |-> value]

Policy(entries) == [formatKnown |-> TRUE, kind |-> "release-policy", entries |-> entries]

Good == Policy(<<E(1, "APPROVE"), E(2, "REJECT")>>)

Policies ==
    {Good,
     Policy(<<E(2, "APPROVE")>>),
     Policy(<<E(2, "APPROVE"), E(1, "REJECT")>>),
     Policy(<<E(1, "APPROVE"), E(1, "REJECT")>>),
     Policy(<<E(1, "APPROVE"), E(3, "REJECT")>>),
     Policy(<<E(1, "MAYBE"), E(3, "REJECT")>>),
     Policy(<<>>),
     [Good EXCEPT !.formatKnown = FALSE],
     [Good EXCEPT !.kind = "install-script"],
     Malformed}

Written ==
    {BuiltEntry(Want[1], m, 1) : m \in Manifests}
    \cup {BuiltEntry(Want[2], p, 2) : p \in Policies}

Spoiled(e) ==
    {[e EXCEPT !.regular = FALSE], [e EXCEPT !.mode = "0555"], [e EXCEPT !.plain = FALSE],
     [e EXCEPT !.size = MaxEntry + 1, !.length = MaxEntry + 1], [e EXCEPT !.length = 0],
     [e EXCEPT !.name = "install.sh"]}

EntrySet ==
    Written \cup Spoiled(BuiltEntry(Want[1], Manifest(TRUE, TRUE), 1))
            \cup Spoiled(BuiltEntry(Want[2], Good, 2))

Blank == [size |-> 1, entries |-> <<>>, broken |-> FALSE]

Init == archive \in {Blank, [Blank EXCEPT !.size = MaxArchive + 1]}

AddEntry ==
    /\ Len(archive.entries) < 3
    /\ ~archive.broken
    /\ \E e \in EntrySet : archive' = [archive EXCEPT !.entries = Append(@, e)]

Break == ~archive.broken /\ archive' = [archive EXCEPT !.broken = TRUE]

Next == AddEntry \/ Break

Spec == Init /\ [][Next]_archive
=============================================================================
