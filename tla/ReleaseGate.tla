----------------------------- MODULE ReleaseGate ----------------------------
(***************************************************************************)
(* internal/releasegate with internal/ledger and internal/audit: processes *)
(* that run one scenario each against a state directory.                   *)
(*                                                                         *)
(* A run loads the ledger (creating it), resolves its dependencies in      *)
(* order, asks the release-policy package about one candidate, and saves   *)
(* the ledger only when that package says APPROVE.  Every read, write and  *)
(* rename of the two files is a step of its own: a process may crash or an *)
(* operation fail between any two.  What a resolution delivers is left to  *)
(* Resolver: any package of Packages, or a failure.                        *)
(*                                                                         *)
(* A ledger file's content is the sequence of its entries and its digest   *)
(* is its content (SHA-256 identifies bytes, Bytes is canonical).          *)
(***************************************************************************)
EXTENDS Naturals, FiniteSets, Sequences, SequencesExt

CONSTANTS
    Runs,                   \* processes, numbered in the order they begin
    Scenarios,              \* [candidate, deps, vulnerable]
    Packages,               \* [kind, verdicts, source, digest]
    Failures,               \* resolution failures: [class, stage]
    Overlap,                \* may two runs use the directory at once?
    NoFile,                 \* a file that does not exist
    Partial,                \* a file whose content is still being written
    None                    \* a field not filled in

ASSUME OverlapIsAChoice == Overlap \in BOOLEAN

ASSUME RunsAreNumbered == Runs \subseteq Nat

ASSUME FilesAreDistinct == NoFile # Partial

ASSUME ScenariosHaveDependencies ==
    \A s \in Scenarios : Len(s.deps) \in Nat /\ s.vulnerable \in BOOLEAN

VARIABLES
    pc,                     \* what each run does next
    scenario,               \* its scenario
    current,                \* the ledger it holds in memory
    policy,                 \* the release-policy package it resolved
    resolved,               \* how many dependencies it has resolved
    out,                    \* its Outcome
    ledgerFile,             \* ledger.json
    temp,                   \* each run's temporary ledger file
    auditFile               \* audit.jsonl: what each append put there

vars == <<pc, scenario, current, policy, resolved, out, ledgerFile, temp, auditFile>>

files == <<ledgerFile, temp, auditFile>>

NoOutcome ==
    [before |-> NoFile, after |-> NoFile, result |-> None, verdict |-> None,
     mutation |-> "none", failure |-> None, events |-> <<>>]

Init ==
    /\ pc = [r \in Runs |-> "idle"]
    /\ scenario = [r \in Runs |-> None]
    /\ current = [r \in Runs |-> <<>>]
    /\ policy = [r \in Runs |-> None]
    /\ resolved = [r \in Runs |-> 0]
    /\ out = [r \in Runs |-> NoOutcome]
    /\ ledgerFile = NoFile
    /\ temp = [r \in Runs |-> NoFile]
    /\ auditFile = NoFile

\* A run returns an outcome; or it returns an error or its process dies, which
\* other runs cannot tell apart.
Ended == {"done", "stopped"}

Active(r) == pc[r] \notin {"idle"} \cup Ended

Goto(r, step) == pc' = [pc EXCEPT ![r] = step]

Candidate(r) == scenario[r].candidate

\* A vulnerable scenario needs both opt-in controls before anything happens.
Begin(r, s, acknowledged) ==
    /\ pc[r] = "idle"
    /\ \A q \in Runs : q < r => pc[q] # "idle"
    /\ Overlap \/ \A q \in Runs : ~Active(q)
    /\ scenario' = [scenario EXCEPT ![r] = s]
    /\ Goto(r, IF s.vulnerable /\ ~acknowledged THEN "stopped" ELSE "load")
    /\ UNCHANGED <<current, policy, resolved, out, files>>

\* ledger.Load: a missing file is created, empty, through Save.
Load(r) ==
    /\ pc[r] = "load"
    /\ IF ledgerFile = NoFile
       THEN Goto(r, "create") /\ UNCHANGED current
       ELSE Goto(r, "before") /\ current' = [current EXCEPT ![r] = ledgerFile]
    /\ UNCHANGED <<scenario, policy, resolved, out, files>>

\* Mutant: Save truncates and writes the ledger file itself.
CreateInPlace(r) ==
    /\ pc[r] = "create"
    /\ ledgerFile' = Partial
    /\ temp' = [temp EXCEPT ![r] = Partial]
    /\ Goto(r, "write")
    /\ UNCHANGED <<scenario, current, policy, resolved, out, auditFile>>

\* ledger.Save: a temporary file is created, filled and renamed over the target.
CreateTemp(r) ==
    /\ pc[r] = "create"
    /\ temp' = [temp EXCEPT ![r] = Partial]
    /\ Goto(r, "write")
    /\ UNCHANGED <<scenario, current, policy, resolved, out, ledgerFile, auditFile>>

WriteTemp(r) ==
    /\ pc[r] = "write"
    /\ temp' = [temp EXCEPT ![r] = current[r]]
    /\ Goto(r, "rename")
    /\ UNCHANGED <<scenario, current, policy, resolved, out, ledgerFile, auditFile>>

\* Execute saves an approval after the digest of the ledger it started from.
Approving(r) == out[r].before # NoFile

RenameTemp(r) ==
    /\ pc[r] = "rename"
    /\ ledgerFile' = temp[r]
    /\ temp' = [temp EXCEPT ![r] = NoFile]
    /\ IF Approving(r)
       THEN Goto(r, "emit") /\ out' = [out EXCEPT ![r].mutation = "approved"]
       ELSE Goto(r, "before") /\ UNCHANGED out
    /\ UNCHANGED <<scenario, current, policy, resolved, auditFile>>

\* The ledger file is read again for its digest; then the fixtures are loaded.
DigestBefore(r) ==
    /\ pc[r] = "before"
    /\ out' = [out EXCEPT ![r].before = ledgerFile, ![r].after = ledgerFile]
    /\ Goto(r, "resolve")
    /\ UNCHANGED <<scenario, current, policy, resolved, files>>

\* Mutant: the failed build returns before its event is emitted.
FailSilently(r, failure) ==
    /\ out' = [out EXCEPT ![r].result = "BUILD_FAILED", ![r].failure = failure]
    /\ Goto(r, "done")

\* Every failed build has its class and stage, and is emitted.
FailBuild(r, failure) ==
    /\ out' = [out EXCEPT ![r].result = "BUILD_FAILED", ![r].failure = failure]
    /\ Goto(r, "emit")

Accept(r, p) ==
    policy' = IF scenario[r].deps[resolved[r] + 1] = "release-policy"
              THEN [policy EXCEPT ![r] = p] ELSE policy

\* Mutant: the loop goes on after a dependency that failed.
ResolveWithoutStopping(r) ==
    /\ pc[r] = "resolve"
    /\ resolved[r] < Len(scenario[r].deps)
    /\ resolved' = [resolved EXCEPT ![r] = @ + 1]
    /\ \/ \E p \in Packages : Accept(r, p) /\ UNCHANGED out
       \/ /\ \E f \in Failures : out' = [out EXCEPT ![r].failure = f]
          /\ UNCHANGED policy
    /\ UNCHANGED <<pc, scenario, current, files>>

\* Mutant: what a failed resolution returned is kept as the dependency.
ResolveKeepingFailure(r) ==
    /\ pc[r] = "resolve"
    /\ resolved[r] < Len(scenario[r].deps)
    /\ \/ /\ \E p \in Packages : Accept(r, p)
          /\ resolved' = [resolved EXCEPT ![r] = @ + 1]
          /\ UNCHANGED <<pc, out>>
       \/ \E f \in Failures : FailBuild(r, f) /\ Accept(r, f) /\ UNCHANGED resolved
    /\ UNCHANGED <<scenario, current, files>>

\* The next dependency is resolved; the build stops at the first failure.
Resolve(r) ==
    /\ pc[r] = "resolve"
    /\ resolved[r] < Len(scenario[r].deps)
    /\ \/ /\ \E p \in Packages : Accept(r, p)
          /\ resolved' = [resolved EXCEPT ![r] = @ + 1]
          /\ UNCHANGED <<pc, out>>
       \/ /\ \E f \in Failures : FailBuild(r, f)
          /\ UNCHANGED <<policy, resolved>>
    /\ UNCHANGED <<scenario, current, files>>

\* Mutant: the first entry is not looked at.
ApprovedLater(ledger, candidate) ==
    \E i \in DOMAIN ledger : i > 1 /\ ledger[i].candidate = candidate

Approved(ledger, candidate) == \E i \in DOMAIN ledger : ledger[i].candidate = candidate

Entry(r) ==
    [candidate |-> Candidate(r), policy |-> policy[r].digest, source |-> policy[r].source]

GateFailure(class) == [class |-> class, stage |-> "policy_evaluation"]

\* The package is for this gate and says v of the candidate.
Says(r, v) ==
    /\ policy[r] # None
    /\ policy[r].kind = "release-policy"
    /\ policy[r].verdicts[Candidate(r)] = v

\* The four ways a completely resolved build can fail or be refused.
Unanswered(r) ==
    /\ UNCHANGED current
    /\ \/ policy[r] = None /\ Goto(r, "stopped") /\ UNCHANGED out
       \/ /\ policy[r] # None
          /\ policy[r].kind # "release-policy"
          /\ FailBuild(r, GateFailure("POLICY_KIND_UNEXPECTED"))
       \/ /\ Says(r, "absent")
          /\ FailBuild(r, GateFailure("POLICY_CANDIDATE_UNKNOWN"))

\* A verdict; an approval is saved unless the ledger in memory has it already.
Answered(r) ==
    \/ /\ Says(r, "REJECT")
       /\ out' = [out EXCEPT ![r].result = "BUILD_OK", ![r].verdict = "REJECT"]
       /\ Goto(r, "emit")
       /\ UNCHANGED current
    \/ /\ Says(r, "APPROVE")
       /\ Approved(current[r], Candidate(r))
       /\ out' = [out EXCEPT ![r].result = "BUILD_OK", ![r].verdict = "APPROVE",
                             ![r].mutation = "suppressed-duplicate"]
       /\ Goto(r, "emit")
       /\ UNCHANGED current
    \/ /\ Says(r, "APPROVE")
       /\ ~Approved(current[r], Candidate(r))
       /\ out' = [out EXCEPT ![r].result = "BUILD_OK", ![r].verdict = "APPROVE"]
       /\ current' = [current EXCEPT ![r] = Append(@, Entry(r))]
       /\ Goto(r, "create")

\* The release-policy package decides; the gate's own classification does not.
Evaluate(r) ==
    /\ pc[r] = "resolve"
    /\ resolved[r] = Len(scenario[r].deps)
    /\ Unanswered(r) \/ Answered(r)
    /\ UNCHANGED <<scenario, policy, resolved, files>>

\* Only a failure after the package was asked about the candidate names it.
EventNamed(r, event) ==
    [event |-> event, failure |-> out[r].failure,
     candidate |-> IF out[r].failure \in {None, GateFailure("POLICY_CANDIDATE_UNKNOWN")}
                   THEN Candidate(r) ELSE None]

\* Mutant: the event is chosen by the verdict alone.
EventOfVerdict(r) ==
    EventNamed(r, CASE out[r].result = "BUILD_FAILED" -> "BUILD_FAILED"
                    [] out[r].verdict = "APPROVE"     -> "RELEASE_APPROVED"
                    [] OTHER                          -> "RELEASE_REJECTED")

\* The event a result is announced with.
EventOf(r) ==
    EventNamed(r, CASE out[r].result = "BUILD_FAILED"           -> "BUILD_FAILED"
                    [] out[r].mutation = "approved"             -> "RELEASE_APPROVED"
                    [] out[r].mutation = "suppressed-duplicate" -> "RELEASE_DUPLICATE"
                    [] OTHER                                    -> "RELEASE_REJECTED")

\* The file is opened for appending, or created.
Opened == IF auditFile = NoFile THEN <<>> ELSE auditFile

\* Of a record the file got all, all but the line's end, or less.
Piece(record, part) == [record |-> record, part |-> part]

\* audit.Emit: one line is appended to the file, then to the run's own list.
Emit(r) ==
    /\ pc[r] = "emit"
    /\ auditFile' = Append(Opened, Piece(EventOf(r), "whole"))
    /\ out' = [out EXCEPT ![r].events = Append(@, EventOf(r))]
    /\ Goto(r, IF out[r].result = "BUILD_FAILED" THEN "done" ELSE "after")
    /\ UNCHANGED <<scenario, current, policy, resolved, ledgerFile, temp>>

\* The mirror's error comes when the record is already in the file.
EmitUnmirrored(r) ==
    /\ pc[r] = "emit"
    /\ auditFile' = Append(Opened, Piece(EventOf(r), "whole"))
    /\ out' = [out EXCEPT ![r].events = Append(@, EventOf(r))]
    /\ Goto(r, "stopped")
    /\ UNCHANGED <<scenario, current, policy, resolved, ledgerFile, temp>>

\* The append ends early, with the process or in an error (the device is full):
\* the file is there and has none of the line, or a part of it.  After all of
\* the line, Close's error still keeps it from the run's own list.
EmitTorn(r) ==
    /\ pc[r] = "emit"
    /\ \/ auditFile' = Opened
       \/ \E part \in {"torn", "unended", "whole"} :
             auditFile' = Append(Opened, Piece(EventOf(r), part))
    /\ Goto(r, "stopped")
    /\ UNCHANGED <<scenario, current, policy, resolved, out, ledgerFile, temp>>

\* Line i of the file: a piece that no line's end precedes joins another one's
\* line, and no such line is a record.
OwnLine(i) == i = 1 \/ auditFile[i - 1].part = "whole"

Readable(i) ==
    /\ OwnLine(i)
    /\ auditFile[i].part = "whole" \/ (auditFile[i].part = "unended" /\ i = Len(auditFile))

\* Mutant: a line that is no record is passed over.
ReadSkipping ==
    LET lines == SelectSeq([i \in DOMAIN Opened |-> i], Readable)
    IN  [ok |-> auditFile # NoFile, records |-> [k \in DOMAIN lines |-> auditFile[lines[k]].record]]

\* audit.Read: every line's record, or none of them when one cannot be read.
Read ==
    [ok      |-> auditFile # NoFile /\ \A i \in DOMAIN auditFile : Readable(i),
     records |-> [i \in DOMAIN Opened |-> auditFile[i].record]]

\* Mutant: the digest taken at the start is reported.
DigestNotRetaken(r) ==
    /\ pc[r] = "after"
    /\ Goto(r, "done")
    /\ UNCHANGED <<scenario, current, policy, resolved, out, files>>

\* A build that was not failed measures the ledger again.
DigestAfter(r) ==
    /\ pc[r] = "after"
    /\ out' = [out EXCEPT ![r].after = ledgerFile]
    /\ Goto(r, "done")
    /\ UNCHANGED <<scenario, current, policy, resolved, files>>

\* A file operation, the loading of a fixture or a resolution may end in an
\* error that is no Failure: Execute returns it, and Save's deferred Remove
\* takes its temporary file away.
Abort(r) ==
    /\ Active(r)
    /\ temp' = [temp EXCEPT ![r] = NoFile]
    /\ Goto(r, "stopped")
    /\ UNCHANGED <<scenario, current, policy, resolved, out, ledgerFile, auditFile>>

\* The process dies where it is; its temporary file stays.
Crash(r) ==
    /\ Active(r)
    /\ Goto(r, "stopped")
    /\ UNCHANGED <<scenario, current, policy, resolved, out, files>>

Step(r) ==
    \/ Load(r)
    \/ CreateTemp(r) \/ WriteTemp(r) \/ RenameTemp(r)
    \/ DigestBefore(r)
    \/ Resolve(r)
    \/ Evaluate(r)
    \/ Emit(r) \/ EmitUnmirrored(r)
    \/ DigestAfter(r)

Next ==
    \E r \in Runs :
       \/ \E s \in Scenarios, acknowledged \in BOOLEAN : Begin(r, s, acknowledged)
       \/ Step(r)
       \/ EmitTorn(r)
       \/ Abort(r)
       \/ Crash(r)

Spec == Init /\ [][Next]_vars

-----------------------------------------------------------------------------
Candidates == {s.candidate : s \in Scenarios}

EntrySet ==
    [candidate : Candidates, policy : {p.digest : p \in Packages},
     source : {p.source : p \in Packages}]

LedgerContent == Seq(EntrySet)

ASSUME MarkersAreNoLedgers == NoFile \notin LedgerContent /\ Partial \notin LedgerContent

Released(candidate) == ledgerFile # NoFile /\ Approved(ledgerFile, candidate)

Steps ==
    {"idle", "load", "create", "write", "rename", "before", "resolve", "emit", "after"} \cup Ended

GateFailures ==
    {GateFailure(class) : class \in {"POLICY_KIND_UNEXPECTED", "POLICY_CANDIDATE_UNKNOWN"}}

GivenFailures == Failures \cup {None} \cup GateFailures

\* A field not filled in reads like no failure and no result.
ASSUME NoneIsNothing ==
    None \notin Failures \cup GateFailures /\ None \notin {"BUILD_OK", "BUILD_FAILED"}

Events ==
    [event : {"BUILD_FAILED", "RELEASE_APPROVED", "RELEASE_DUPLICATE", "RELEASE_REJECTED"},
     failure : GivenFailures, candidate : Candidates \cup {None}]

Outcomes ==
    [before : LedgerContent \cup {NoFile}, after : LedgerContent \cup {NoFile},
     result : {None, "BUILD_OK", "BUILD_FAILED"}, verdict : {None, "APPROVE", "REJECT"},
     mutation : {"none", "approved", "suppressed-duplicate"}, failure : GivenFailures,
     events : Seq(Events)]

Pieces == [record : Events, part : {"torn", "unended", "whole"}]

ASSUME MarkersAreNoRecords == NoFile \notin Seq(Pieces)

\* Type correctness of the processes and of the two files.
TypeOK ==
    /\ pc \in [Runs -> Steps]
    /\ scenario \in [Runs -> Scenarios \cup {None}]
    /\ current \in [Runs -> LedgerContent]
    /\ policy \in [Runs -> Packages \cup {None}]
    /\ resolved \in [Runs -> Nat]
    /\ out \in [Runs -> Outcomes]
    /\ temp \in [Runs -> LedgerContent \cup {NoFile, Partial}]
    /\ ledgerFile \in LedgerContent \cup {NoFile, Partial}
    /\ auditFile \in Seq(Pieces) \cup {NoFile}
    /\ \A r \in Runs :
          /\ pc[r] = "idle" => resolved[r] = 0
          /\ pc[r] # "idle" =>
                scenario[r] \in Scenarios /\ resolved[r] <= Len(scenario[r].deps)
          /\ pc[r] = "rename" => temp[r] = current[r]

\* "A reader never observes a partial ledger": whenever any process looks, or
\* a crash or an error leaves it, the ledger file is absent or complete.
LedgerIsWhole == ledgerFile # Partial

\* A candidate has at most one entry, whatever runs came before, crashed, or
\* are under way ("released exactly once").
ReleasedOnce ==
    ledgerFile \notin {NoFile, Partial} =>
       \A i, j \in DOMAIN ledgerFile :
          ledgerFile[i].candidate = ledgerFile[j].candidate => i = j

\* The ledger changes only when a run with no failure in any dependency has a
\* release-policy package that approves its candidate, and then by that run's
\* entry, naming that package ("change the release ledger only when that
\* artifact says APPROVE").
OnlyApprovalsChangeTheLedger ==
    [][ledgerFile # NoFile /\ ledgerFile' # ledgerFile =>
          \E r \in Runs :
             /\ Says(r, "APPROVE")
             /\ resolved[r] = Len(scenario[r].deps)
             /\ out[r].failure = None
             /\ ledgerFile' = Append(ledgerFile, Entry(r))]_vars

Announced(candidate) ==
    {i \in DOMAIN Read.records :
       Read.records[i].event = "RELEASE_APPROVED" /\ Read.records[i].candidate = candidate}

\* The two files agree, whenever the audit file can be read: a candidate is
\* announced as approved at most once, only when it is in the ledger, and a
\* released candidate nobody announced is that of a run that is about to, or
\* that ended between the save and the event.
AuditMatchesLedger ==
    Read.ok =>
       \A c \in Candidates :
          /\ \A i, j \in Announced(c) : i = j
          /\ Announced(c) # {} => Released(c)
          /\ Released(c) /\ Announced(c) = {} =>
                \E r \in Runs : /\ out[r].mutation = "approved"
                                /\ Candidate(r) = c
                                /\ pc[r] \in {"emit", "stopped"}

Recorded(e) == {i \in DOMAIN Read.records : Read.records[i] = e}

Reported(e) == {r \in Runs : e \in ToSet(out[r].events)}

\* Reading the audit file is all or nothing (audit.Read): what it returns lacks
\* no event any run has reported, and when it fails on a file that is there,
\* some run ended in the middle of its append and reported nothing.
ReadIsCompleteOrFails ==
    IF Read.ok
    THEN \A r \in Runs : \A e \in ToSet(out[r].events) :
            Cardinality(Recorded(e)) >= Cardinality(Reported(e))
    ELSE auditFile # NoFile =>
            \E r \in Runs : /\ pc[r] = "stopped"
                            /\ out[r].result # None
                            /\ out[r].events = <<>>

\* What a returned Outcome says of the ledger is true: its two digests are the
\* file's at the start and at the end, they differ exactly when the run says it
\* approved, and a failed build changed nothing ("a byte comparison, not a
\* claim").  For a failed build the second digest is the first one's copy.
OutcomeIsTrue ==
    \A r \in Runs :
       pc[r] = "done" =>
          /\ out[r].before # out[r].after <=> out[r].mutation = "approved"
          /\ out[r].mutation = "approved" => out[r].after = current[r]
          /\ out[r].result = "BUILD_FAILED" => out[r].mutation = "none"
          /\ (\A q \in Runs \ {r} : pc[q] = "idle") => out[r].after = ledgerFile

\* Every outcome returned has exactly one event, in the run's own list and in
\* the file when it can be read, and that event says the result, the failure and the mutation.
EveryOutcomeIsAudited ==
    \A r \in Runs :
       pc[r] = "done" =>
          /\ out[r].result # None
          /\ out[r].events = <<EventOf(r)>>
          /\ Read.ok => EventOf(r) \in ToSet(Read.records)
          /\ out[r].result = "BUILD_FAILED" <=> out[r].failure # None

Ledger == INSTANCE ReleaseLedger
              WITH Entries <- EntrySet,
                   released <- IF ledgerFile = NoFile THEN <<>> ELSE ledgerFile

\* Runs that follow one another implement the ledger's promise, crashes and
\* errors included.
KeepsLedger == Ledger!Spec
=============================================================================
