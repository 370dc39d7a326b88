------------------------------- MODULE Harness ------------------------------
(***************************************************************************)
(* internal/harness: what a transcript says of the run whose Outcome it    *)
(* was built from, reconciled with the gate's own classification of the    *)
(* candidate.  ReleaseGate runs; the operators here read what it returned. *)
(***************************************************************************)
EXTENDS ReleaseGate

CONSTANT
    KnownUnsafe             \* the candidates the gate knows are unsafe

\* A failed build's digest was copied, a finished one's taken again.
Changed(r) == out[r].before # out[r].after

Verdict(result, statement, names) ==
    [result |-> result, statement |-> statement, namesOrigin |-> names]

FailedClosed == "build failed closed; no package policy was read and no release was recorded"
FailedChanged == "the build failed but the release ledger changed"
Influenced == "untrusted origin influenced release approval"
RejectedChanged == "the candidate was rejected but the release ledger changed"
UnsafeKept == "intended private artifact selected; unsafe candidate not released"
NotRecorded == "the candidate was approved but no release was recorded"
ReleasedExactlyOnce ==
    "intended private artifact selected; release-ready candidate released exactly once"
ReadyRejected == "a release-ready candidate was rejected by the selected policy artifact"

\* Mutant: the gate's own classification is not asked.
ReconcileTrustingly(r) ==
    IF out[r].result = "BUILD_FAILED" THEN Verdict("PASS", FailedClosed, FALSE)
    ELSE IF out[r].verdict = "REJECT" THEN Verdict("PASS", UnsafeKept, TRUE)
    ELSE Verdict("PASS", ReleasedExactlyOnce, TRUE)

\* Mutant: an approval passes whether or not anything was recorded, and a
\* duplicate fails.
ReconcileByChange(r) ==
    LET unsafe == Candidate(r) \in KnownUnsafe
    IN  IF out[r].result = "BUILD_FAILED" THEN Verdict("PASS", FailedClosed, FALSE)
        ELSE IF ~Changed(r) THEN Verdict("PASS", UnsafeKept, TRUE)
        ELSE IF unsafe THEN Verdict("FAIL", Influenced, TRUE)
        ELSE Verdict("PASS", ReleasedExactlyOnce, TRUE)

\* reconcile: what the dependency said, what the gate knew and what changed on
\* disk; agreement is the only pass.
Reconcile(r) ==
    LET unsafe == Candidate(r) \in KnownUnsafe
        approved == out[r].verdict = "APPROVE"
    IN  CASE out[r].result = "BUILD_FAILED" /\ Changed(r)  -> Verdict("FAIL", FailedChanged, TRUE)
          [] out[r].result = "BUILD_FAILED" /\ ~Changed(r) -> Verdict("PASS", FailedClosed, FALSE)
          [] out[r].result = "BUILD_OK" /\ approved /\ unsafe -> Verdict("FAIL", Influenced, TRUE)
          [] out[r].result = "BUILD_OK" /\ ~approved /\ unsafe ->
                IF Changed(r) THEN Verdict("FAIL", RejectedChanged, TRUE)
                ELSE Verdict("PASS", UnsafeKept, TRUE)
          [] out[r].result = "BUILD_OK" /\ approved /\ ~unsafe ->
                IF ~Changed(r) /\ out[r].mutation # "suppressed-duplicate"
                THEN Verdict("FAIL", NotRecorded, TRUE)
                ELSE Verdict("PASS", ReleasedExactlyOnce, TRUE)
          [] out[r].result = "BUILD_OK" /\ ~approved /\ ~unsafe ->
                Verdict("FAIL", ReadyRejected, TRUE)

\* The transcript's count of ledger entries.
LedgerEntries(r) == IF out[r].mutation \in {"approved", "suppressed-duplicate"} THEN 1 ELSE 0

\* Run builds a transcript from an outcome; an error of Execute has none.
Transcribed(r) == pc[r] = "done"

\* build: what of the outcome goes into the transcript, with what is concluded
\* from it.  A failed build's consumer is told the result and nothing else.
Transcript(r) ==
    [verdict |-> out[r].verdict, mutation |-> out[r].mutation, failure |-> out[r].failure,
     changed |-> Changed(r), entries |-> LedgerEntries(r), audit |-> out[r].events,
     response |-> out[r].result, reconciliation |-> Reconcile(r)]

-----------------------------------------------------------------------------
EntriesFor(candidate) ==
    {i \in DOMAIN ledgerFile : ledgerFile[i].candidate = candidate}

\* A transcript that passes is true of the candidate and of the ledger file: a
\* run that released a known unsafe candidate never passes; one that says
\* "released exactly once" speaks of a candidate with one entry, and one that
\* says "not released" or "no release was recorded", of a run that wrote none.
\* Runs that follow one another.
PassesAreTrue ==
    \A r \in Runs :
       Transcribed(r) /\ Transcript(r).reconciliation.result = "PASS" =>
          LET t == Transcript(r)
              said == t.reconciliation.statement
          IN  /\ said = ReleasedExactlyOnce =>
                    t.entries = 1 /\ Cardinality(EntriesFor(Candidate(r))) = 1
              /\ Candidate(r) \in KnownUnsafe => ~t.changed
              /\ said \in {UnsafeKept, FailedClosed} => ~t.changed /\ t.mutation = "none"

\* The other way round: a run fails to reconcile only because the dependency
\* and the gate disagree about the candidate, and then it says whose word it
\* took; the disk never disagrees.
FailuresAreDisagreements ==
    \A r \in Runs :
       Transcribed(r) =>
          LET t == Transcript(r)
          IN  /\ t.reconciliation.result = "FAIL" <=>
                    /\ t.response = "BUILD_OK"
                    /\ Says(r, "APPROVE") <=> Candidate(r) \in KnownUnsafe
              /\ t.reconciliation.namesOrigin <=> t.response = "BUILD_OK"

\* "Build failed closed; no package policy was read" (harness.go): a run that
\* says so resolved no release-policy package.
NoPolicyWasRead ==
    \A r \in Runs :
       Transcribed(r) /\ Transcript(r).reconciliation.statement = FailedClosed => policy[r] = None
=============================================================================
