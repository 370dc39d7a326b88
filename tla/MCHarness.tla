------------------------------ MODULE MCHarness ------------------------------
(***************************************************************************)
(* Scenarios and packages for ReleaseGate and Harness: one candidate the   *)
(* gate knows is unsafe and one that is ready, and packages that agree     *)
(* with the gate, disagree, have nothing to say, or are for another use.   *)
(***************************************************************************)
EXTENDS Harness

CONSTANTS c1, c2

Both == <<"release-policy", "report-format">>

Scenario(candidate, deps, vulnerable) ==
    [candidate |-> candidate, deps |-> deps, vulnerable |-> vulnerable]

\* For a history of runs: both candidates; one scenario is a vulnerable one.
MCHistory == {Scenario(c1, Both, FALSE), Scenario(c2, Both, TRUE)}

\* For runs that overlap: a manifest without a release policy besides.
MCScenarios == MCHistory \cup {Scenario(c2, <<"report-format">>, FALSE)}

Verdicts(v1, v2) == [c \in {c1, c2} |-> IF c = c1 THEN v1 ELSE v2]

Package(kind, verdicts, source) ==
    [kind |-> kind, verdicts |-> verdicts, source |-> source, digest |-> verdicts]

MCPackages ==
    {Package("release-policy", Verdicts("APPROVE", "REJECT"), "private"),
     Package("release-policy", Verdicts("absent", "APPROVE"), "public"),
     Package("report-format", Verdicts("absent", "absent"), "public")}

MCFailures == {[class |-> "ARTIFACT_DIGEST_MISMATCH", stage |-> "integrity"]}
=============================================================================
