------------------------------- MODULE Pinned -------------------------------
(***************************************************************************)
(* What the secure resolver promises its caller, with no stage of it in    *)
(* sight: a resolution ends by refusing, or by delivering an artifact that *)
(* the documents it was given make acceptable.  Resolver implements it.    *)
(***************************************************************************)
CONSTANTS
    Blobs,                  \* every byte sequence a source may answer with
    Acceptable(_, _),       \* Acceptable(i, b): the documents i allow b
    Undelivered             \* not a blob

VARIABLES
    input,                  \* the documents of this resolution
    outcome,                \* "pending", "delivered" or "refused"
    artifact                \* the delivered blob

promised == <<input, outcome, artifact>>

Init == outcome = "pending" /\ artifact = Undelivered

Deliver ==
    /\ outcome = "pending"
    /\ \E b \in Blobs : Acceptable(input, b) /\ artifact' = b
    /\ outcome' = "delivered"
    /\ UNCHANGED input

Refuse ==
    /\ outcome = "pending"
    /\ outcome' = "refused"
    /\ UNCHANGED <<input, artifact>>

Next == Deliver \/ Refuse

Spec == Init /\ [][Next]_promised

FairSpec == Spec /\ WF_promised(Next)
=============================================================================
