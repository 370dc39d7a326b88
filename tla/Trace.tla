-------------------------------- MODULE Trace -------------------------------
(***************************************************************************)
(* What is shown of a secure resolution that has returned, accepted or     *)
(* not: the lines renderResolution of internal/trace prints, of which only *)
(* what they claim is kept, and the integrity verdict dependencyRecord of  *)
(* internal/harness puts into the transcript.                              *)
(***************************************************************************)
EXTENDS Resolver

NothingAccepted == "none - nothing was accepted"
NotReached == "not reached - no artifact content was read"
Matched == "locked size and digest matched before any content was read"

\* No source's id reads like the text for none.
ASSUME NoSourceReadsSo == \A i \in Inputs : NothingAccepted \notin SourceIds(i.policy)

\* The origin and the integrity line share one branch, on the selected candidate.
OriginShown == IF res.selected = None THEN NothingAccepted ELSE res.policy.bound

\* Mutant: the integrity line goes by the verdict, the origin's does not.
IntegrityOfVerdict == IF res.integrity = None THEN NotReached ELSE Matched

IntegrityShown == IF res.selected = None THEN NotReached ELSE Matched

\* Mutant: bytes that were refused are not told from bytes never had.
IntegrityOfSuccess == IF res.integrity # None THEN res.integrity ELSE "not_reached"

\* dependencyRecord: bytes compared and refused are told from bytes never had.
IntegrityRecorded ==
    IF res.integrity # None THEN res.integrity
    ELSE IF failure.stage = "integrity" THEN "rejected"
    ELSE "not_reached"

-----------------------------------------------------------------------------
AskedForArtifact(source) ==
    \E n \in DOMAIN requests : requests[n].kind = "artifact" /\ requests[n].source = source

\* The two lines a reader takes together contradict neither each other nor the
\* requests: a resolution shown as never reaching the integrity check accepted
\* nothing, asked nobody for an artifact and read nothing, and any other asked
\* the origin it shows for one (trace.go's early return).
LinesAgree ==
    pc = "done" =>
       /\ OriginShown = NothingAccepted <=> IntegrityShown = NotReached
       /\ IntegrityShown = NotReached =>
             opened = {} /\ \A s \in SourceIds(input.policy) : ~AskedForArtifact(s)
       /\ OriginShown # NothingAccepted => AskedForArtifact(OriginShown)

\* The transcript's verdict is what TRANSCRIPT.md says it distinguishes: only
\* "verified" bytes were read; "rejected" ones were asked for, and not read; and
\* with "not_reached" no answer to such a request was ever compared.
VerdictMeansWhatItSays ==
    pc = "done" =>
       /\ IntegrityRecorded = "verified" <=> opened # {}
       /\ IntegrityRecorded = "rejected" => AskedForArtifact(res.policy.bound)
       /\ IntegrityRecorded = "not_reached" =>
             \/ requests = <<>>
             \/ failure.class \in {"ARTIFACT_UNAVAILABLE", "REGISTRY_UNAVAILABLE"}

\* "Locked size and digest matched before any content was read" (trace.go): a
\* resolution shown so had its bytes verified.
MatchedBytesWereVerified ==
    pc = "done" /\ IntegrityShown = Matched => res.integrity = "verified"
=============================================================================
