---------------------------- MODULE MCDocuments -----------------------------
(***************************************************************************)
(* The readers of documents somebody else wrote, one document at a time: a *)
(* source policy or an archive drawn up entry by entry, or a JSON text     *)
(* read token by token.                                                    *)
(***************************************************************************)
EXTENDS CanonicalJson, PkgArchive, PolicyDocument

CONSTANTS MaxSources, MaxMappings

documents == <<policy, archive, vars>>

MCNames == {<<"g">>, <<"g", "p">>, <<"c">>}

MCSchema == [k \in {"release-policy"} |-> [key \in 1..2 |-> {"APPROVE", "REJECT"}]]

Policies == INSTANCE MCSourcePolicy
Archives == INSTANCE MCPkgArchive

InitDocuments == Init /\ Policies!Init /\ Archives!Init

\* A document of one kind is under way while none of another is.
DrawPolicy == Init /\ archive = Archives!Blank /\ Policies!Next /\ UNCHANGED <<vars, archive>>

DrawArchive == Init /\ Policies!Init /\ Archives!Next /\ UNCHANGED <<vars, policy>>

ReadJson ==
    /\ Policies!Init /\ archive = Archives!Blank
    /\ Next
    /\ UNCHANGED <<policy, archive>>

NextDocuments == DrawPolicy \/ DrawArchive \/ ReadJson

SpecDocuments == InitDocuments /\ [][NextDocuments]_documents
=============================================================================
