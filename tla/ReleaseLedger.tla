---------------------------- MODULE ReleaseLedger ---------------------------
(***************************************************************************)
(* What the release ledger promises: it starts empty, it only grows, one   *)
(* entry at a time, and no candidate is entered twice.  ReleaseGate        *)
(* implements it for runs that do not overlap.                             *)
(***************************************************************************)
EXTENDS Naturals, Sequences, SequencesExt

CONSTANT Entries            \* [candidate, policy, source]

VARIABLE released

Init == released = <<>>

Released(candidate) == \E i \in DOMAIN released : released[i].candidate = candidate

Release ==
    \E e \in Entries :
       ~Released(e.candidate) /\ released' = Append(released, e)

Spec == Init /\ [][Release]_released
=============================================================================
