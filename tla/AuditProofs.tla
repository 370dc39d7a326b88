---------------------------- MODULE AuditProofs ----------------------------
(***************************************************************************)
(* What the release gate's outcomes and its audit file say, for any number *)
(* of runs, any scenarios and packages, with crashes and errors anywhere.  *)
(*                                                                         *)
(* With runs that overlap: an outcome returned has one event, which says   *)
(* what the outcome says and is in the file.  With runs that follow one    *)
(* another: what an outcome says of the ledger is true.                    *)
(***************************************************************************)
EXTENDS Harness, ReleaseGateProofs, FiniteSetTheorems

\* A run has not gone past its event, respectively has what it will announce.
Unannounced == {"idle", "load", "before", "resolve", "emit"} \cup Saving

Resulting == {"emit", "after", "done"}

\* The event has a line of its own in the file, which may not be readable.
Written(e) == auditFile # NoFile /\ \E i \in DOMAIN auditFile : auditFile[i].record = e

\* What a run has told so far: a result is there before its event is, no failure
\* is held without one, and an approval has its result before it is saved.
Told(r) ==
    /\ pc[r] \in Unannounced => out[r].events = <<>>
    /\ pc[r] \in {"idle", "load", "before"} => ~Approving(r)
    /\ pc[r] = "before" => ledgerFile # NoFile
    /\ pc[r] = "resolve" => Approving(r)
    /\ pc[r] \in Unannounced \ {"emit"} => out[r].failure = None
    /\ pc[r] \in Saving /\ Approving(r) => out[r].result = "BUILD_OK"
    /\ pc[r] \in Resulting =>
          /\ out[r].result \in {"BUILD_OK", "BUILD_FAILED"}
          /\ out[r].result = "BUILD_FAILED" <=> out[r].failure # None
    /\ pc[r] \in {"after", "done"} => out[r].events = <<EventOf(r)>> /\ Written(EventOf(r))

AllTold == \A r \in Runs : Told(r)

-----------------------------------------------------------------------------
\* The audit file is left alone, opened, or a piece is appended to it.
AuditGrows ==
    auditFile' \in {auditFile, Opened} \cup {Append(Opened, x) : x \in Pieces}

\* Nothing that was put in the audit file leaves it.
LEMMA WritingStays ==
    ASSUME TypeOK, NEW e, Written(e), AuditGrows
    PROVE  Written(e)'
  <1>1. auditFile \in Seq(Pieces) /\ Opened = auditFile
    BY DEF TypeOK, Written, Opened
  <1>2. PICK i \in DOMAIN auditFile : auditFile[i].record = e
    BY DEF Written
  <1>3. /\ auditFile' \in Seq(Pieces)
        /\ i \in DOMAIN auditFile'
        /\ auditFile'[i] = auditFile[i]
    BY <1>1 DEF AuditGrows
  <1>4. auditFile' # NoFile
    BY <1>3, MarkersAreNoRecords
  <1>5. QED
    BY <1>2, <1>3, <1>4 DEF Written

\* The other runs are left as they were.
Elsewhere(r) ==
    \A q \in Runs \ {r} :
       pc'[q] = pc[q] /\ out'[q] = out[q] /\ scenario'[q] = scenario[q]

\* What one run does takes back nothing another one has told.
LEMMA OthersHaveTold ==
    ASSUME Inv, AllTold, NEW r \in Runs, Elsewhere(r),
           ledgerFile' = ledgerFile \/ ledgerFile' # NoFile, AuditGrows
    PROVE  \A q \in Runs \ {r} : Told(q)'
  <1> SUFFICES ASSUME NEW q \in Runs \ {r} PROVE Told(q)'
    OBVIOUS
  <1>1. pc'[q] = pc[q] /\ out'[q] = out[q] /\ scenario'[q] = scenario[q] /\ Told(q)
    BY DEF Elsewhere, AllTold
  <1>2. EventOf(q)' = EventOf(q) /\ (Approving(q)' <=> Approving(q))
    BY <1>1 DEF EventOf, EventNamed, Candidate, Approving
  <1>3. Written(EventOf(q)) => Written(EventOf(q))'
    <2>1. SUFFICES ASSUME Written(EventOf(q)) PROVE Written(EventOf(q))'
      OBVIOUS
    <2> DEFINE e == EventOf(q)
    <2>2. e' = e
      BY <1>2
    <2> HIDE DEF e
    <2>3. Written(e)
      BY <2>1 DEF e
    <2>4. \A f : f = e /\ Written(f) => Written(f)'
      BY WritingStays DEF Inv
    <2>5. QED
      BY <2>2, <2>3, <2>4 DEF e, Written
  <1>4. QED
    BY <1>1, <1>2, <1>3 DEF Told

-----------------------------------------------------------------------------
\* u says the same result as o.
SameResult(o, u) ==
    u.result = o.result /\ u.failure = o.failure /\ u.mutation = o.mutation

\* The event follows from the result.
LEMMA EventFollows ==
    ASSUME NEW r \in Runs, scenario'[r] = scenario[r], SameResult(out[r], out'[r])
    PROVE  EventOf(r)' = EventOf(r)
  BY DEF EventOf, EventNamed, Candidate, SameResult

-----------------------------------------------------------------------------
LEMMA InitTold == Init => AllTold
  BY DEF Init, AllTold, Told, Approving, NoOutcome, Unannounced, Resulting, Saving

LEMMA BeginTold ==
    ASSUME Inv, AllTold, NEW r \in Runs, NEW s \in Scenarios,
           NEW acknowledged \in BOOLEAN, Begin(r, s, acknowledged)
    PROVE  AllTold'
  <1>1. /\ pc[r] = "idle" /\ pc'[r] \in {"stopped", "load"}
        /\ UNCHANGED <<out, ledgerFile, auditFile>>
        /\ Elsewhere(r)
    BY DEF Begin, Inv, TypeOK, Goto, files, Elsewhere
  <1>2. Told(r)'
    BY <1>1 DEF AllTold, Told, Unannounced, Resulting, Saving, Approving
  <1>3. QED
    BY <1>1, <1>2, OthersHaveTold DEF AllTold, AuditGrows

LEMMA LoadTold ==
    ASSUME Inv, AllTold, NEW r \in Runs, Load(r)
    PROVE  AllTold'
  <1>1. /\ pc[r] = "load"
        /\ pc'[r] = "create" \/ (pc'[r] = "before" /\ ledgerFile # NoFile)
        /\ UNCHANGED <<out, ledgerFile, auditFile>>
        /\ Elsewhere(r)
    BY DEF Load, Inv, TypeOK, Goto, files, Elsewhere
  <1>2. Told(r)'
    BY <1>1 DEF AllTold, Told, Unannounced, Resulting, Saving, Approving
  <1>3. QED
    BY <1>1, <1>2, OthersHaveTold DEF AllTold, AuditGrows

LEMMA SaveTold ==
    ASSUME Inv, AllTold, NEW r \in Runs, CreateTemp(r) \/ WriteTemp(r)
    PROVE  AllTold'
  <1>1. /\ pc[r] \in Saving /\ pc'[r] \in Saving
        /\ UNCHANGED <<out, ledgerFile, auditFile>>
        /\ Elsewhere(r)
    BY DEF CreateTemp, WriteTemp, Inv, TypeOK, Goto, Saving, Elsewhere
  <1>2. Told(r)'
    BY <1>1 DEF AllTold, Told, Unannounced, Resulting, Saving, Approving
  <1>3. QED
    BY <1>1, <1>2, OthersHaveTold DEF AllTold, AuditGrows

LEMMA RenameTold ==
    ASSUME Inv, AllTold, NEW r \in Runs, RenameTemp(r)
    PROVE  AllTold'
  <1>1. /\ pc[r] = "rename" /\ out[r] \in Outcomes
        /\ ledgerFile' # NoFile
        /\ UNCHANGED <<scenario, auditFile>>
    BY MarkersAreNoLedgers DEF RenameTemp, Inv, TypeOK
  <1>2. CASE Approving(r)
    <2> DEFINE u == [out[r] EXCEPT !.mutation = "approved"]
    <2>1. out' = [out EXCEPT ![r] = u] /\ pc' = [pc EXCEPT ![r] = "emit"]
      BY <1>2 DEF RenameTemp, Goto
    <2>2. u \in Outcomes
      BY <1>1, OutcomeUpdates DEF Keeps
    <2>3. u.result = out[r].result /\ u.failure = out[r].failure /\ u.events = out[r].events
      BY <1>1, Zenon DEF Outcomes
    <2> HIDE DEF u
    <2>4. pc'[r] = "emit" /\ out'[r] = u /\ Elsewhere(r)
      BY <1>1, <2>1, <2>2, UpdateAt DEF Inv, TypeOK, Elsewhere
    <2>5. Told(r)
      BY DEF AllTold
    <2>6. Told(r)'
      BY <1>1, <1>2, <2>3, <2>4, <2>5 DEF Told, Unannounced, Resulting, Saving
    <2>7. QED
      BY <1>1, <2>4, <2>6, OthersHaveTold DEF AllTold, AuditGrows
  <1>3. CASE ~Approving(r)
    <2>1. pc'[r] = "before" /\ UNCHANGED out /\ Elsewhere(r)
      BY <1>1, <1>3 DEF RenameTemp, Goto, Inv, TypeOK, Elsewhere
    <2>2. Told(r)'
      BY <1>1, <1>3, <2>1 DEF AllTold, Told, Unannounced, Resulting, Saving, Approving
    <2>3. QED
      BY <1>1, <2>1, <2>2, OthersHaveTold DEF AllTold, AuditGrows
  <1>4. QED
    BY <1>2, <1>3

LEMMA DigestBeforeTold ==
    ASSUME Inv, AllTold, NEW r \in Runs, DigestBefore(r)
    PROVE  AllTold'
  <1> DEFINE u == [out[r] EXCEPT !.before = ledgerFile, !.after = ledgerFile]
  <1>1. /\ pc[r] = "before" /\ out[r] \in Outcomes
        /\ ledgerFile \in LedgerContent \cup {NoFile}
        /\ UNCHANGED <<scenario, ledgerFile, auditFile>>
    BY DEF DigestBefore, Inv, TypeOK, LedgersAreSound, files
  <1>2. out' = [out EXCEPT ![r] = u] /\ pc' = [pc EXCEPT ![r] = "resolve"]
    BY DEF DigestBefore, Goto
  <1>3. /\ u \in Outcomes
        /\ SameResult(out[r], u) /\ u.events = out[r].events /\ u.before = ledgerFile
    <2>1. u \in Outcomes
      BY <1>1, OutcomeUpdates
    <2>2. SameResult(out[r], u) /\ u.events = out[r].events /\ u.before = ledgerFile
      BY <1>1, Zenon DEF Outcomes, SameResult
    <2>3. QED
      BY <2>1, <2>2
  <1> HIDE DEF u
  <1>4. pc'[r] = "resolve" /\ out'[r] = u /\ Elsewhere(r)
    BY <1>1, <1>2, <1>3, UpdateAt DEF Inv, TypeOK, Elsewhere
  <1>5. Told(r)
    BY DEF AllTold
  <1>6. Told(r)'
    BY <1>1, <1>3, <1>4, <1>5 DEF Told, Unannounced, Resulting, Saving, Approving, SameResult
  <1>7. QED
    BY <1>1, <1>4, <1>6, OthersHaveTold DEF AllTold, AuditGrows

\* A build that has failed tells so, once it is emitted.
LEMMA FailureTold ==
    ASSUME Inv, AllTold, NEW r \in Runs, NEW f \in Failures \cup GateFailures,
           pc[r] = "resolve", FailBuild(r, f), UNCHANGED <<scenario, ledgerFile, auditFile>>
    PROVE  AllTold'
  <1> DEFINE u == [out[r] EXCEPT !.result = "BUILD_FAILED", !.failure = f]
  <1>1. out[r] \in Outcomes /\ f \in GivenFailures
    BY DEF Inv, TypeOK, GivenFailures
  <1>2. out' = [out EXCEPT ![r] = u] /\ pc' = [pc EXCEPT ![r] = "emit"]
    BY DEF FailBuild, Goto
  <1>3. u \in Outcomes
    BY <1>1, OutcomeUpdates
  <1>4. u.result = "BUILD_FAILED" /\ u.failure = f /\ u.events = out[r].events
    BY <1>1, Zenon DEF Outcomes, SameResult
  <1> HIDE DEF u
  <1>5. pc'[r] = "emit" /\ out'[r] = u /\ Elsewhere(r)
    BY <1>2, <1>3, UpdateAt DEF Inv, TypeOK, Elsewhere
  <1>6. Told(r) /\ f # None
    BY NoneIsNothing DEF AllTold
  <1>7. Told(r)'
    BY <1>4, <1>5, <1>6 DEF Told, Unannounced, Resulting, Saving
  <1>8. QED
    BY <1>5, <1>7, OthersHaveTold DEF AllTold, AuditGrows

LEMMA ResolveTold ==
    ASSUME Inv, AllTold, NEW r \in Runs, Resolve(r)
    PROVE  AllTold'
  <1>1. pc[r] = "resolve" /\ UNCHANGED <<scenario, ledgerFile, auditFile>>
    BY DEF Resolve, files
  <1>2. CASE UNCHANGED <<pc, out>>
    <2>1. Elsewhere(r) /\ Told(r)'
      BY <1>1, <1>2 DEF AllTold, Told, Unannounced, Resulting, Saving, Approving, Elsewhere
    <2>2. QED
      BY <1>1, <2>1, OthersHaveTold DEF AllTold, AuditGrows
  <1>3. CASE \E f \in Failures : FailBuild(r, f)
    BY <1>1, <1>3, FailureTold
  <1>4. QED
    BY <1>2, <1>3 DEF Resolve

LEMMA EvaluateTold ==
    ASSUME Inv, AllTold, NEW r \in Runs, Evaluate(r)
    PROVE  AllTold'
  <1>1. /\ pc[r] = "resolve" /\ out[r] \in Outcomes /\ Told(r)
        /\ UNCHANGED <<scenario, ledgerFile, auditFile>>
    BY DEF Evaluate, files, AllTold, Inv, TypeOK
  <1>2. CASE Unanswered(r)
    <2>1. CASE Goto(r, "stopped") /\ UNCHANGED out
      <3>1. pc'[r] = "stopped" /\ Elsewhere(r)
        BY <1>1, <2>1 DEF Goto, Inv, TypeOK, Elsewhere
      <3>2. Told(r)'
        BY <3>1 DEF Told, Unannounced, Resulting, Saving
      <3>3. QED
        BY <1>1, <3>1, <3>2, OthersHaveTold DEF AllTold, AuditGrows
    <2>2. ASSUME NEW class \in {"POLICY_KIND_UNEXPECTED", "POLICY_CANDIDATE_UNKNOWN"},
                 FailBuild(r, GateFailure(class))
          PROVE  AllTold'
      BY <1>1, <2>2, FailureTold DEF GateFailures
    <2>3. QED
      BY <1>2, <2>1, <2>2 DEF Unanswered
  <1>3. CASE Answered(r)
    <2> DEFINE rejected == [out[r] EXCEPT !.result = "BUILD_OK", !.verdict = "REJECT"]
               approved == [out[r] EXCEPT !.result = "BUILD_OK", !.verdict = "APPROVE"]
               duplicate == [out[r] EXCEPT !.result = "BUILD_OK", !.verdict = "APPROVE",
                                           !.mutation = "suppressed-duplicate"]
    <2>1. Keeps(out[r], rejected) /\ Keeps(out[r], approved) /\ Keeps(out[r], duplicate)
      BY <1>1, OutcomeUpdates
    <2>2. \A u \in {rejected, approved, duplicate} :
             u.result = "BUILD_OK" /\ u.failure = out[r].failure /\ u.events = out[r].events
      BY <1>1, Zenon DEF Outcomes, SameResult
    <2>3. /\ \E u \in {rejected, approved, duplicate} : out' = [out EXCEPT ![r] = u]
          /\ \E step \in {"emit", "create"} : pc' = [pc EXCEPT ![r] = step]
      BY <1>3 DEF Answered, Goto
    <2> HIDE DEF rejected, approved, duplicate
    <2>4. PICK u \in {rejected, approved, duplicate} : out' = [out EXCEPT ![r] = u]
      BY <2>3
    <2>5. u \in Outcomes /\ u.before = out[r].before
      BY <2>1, <2>4 DEF Keeps
    <2>6. out'[r] = u /\ pc'[r] \in {"emit", "create"} /\ Elsewhere(r)
      BY <1>1, <2>3, <2>4, <2>5, UpdateAt DEF Inv, TypeOK, Elsewhere
    <2>7. out'[r].failure = None /\ out'[r].result = "BUILD_OK" /\ out'[r].events = <<>>
      BY <1>1, <2>2, <2>4, <2>6 DEF Told, Unannounced
    <2>8. Told(r)'
      BY <2>6, <2>7 DEF Told, Unannounced, Resulting, Saving
    <2>9. QED
      BY <1>1, <2>6, <2>8, OthersHaveTold DEF AllTold, AuditGrows
  <1>4. QED
    BY <1>2, <1>3 DEF Evaluate

\* The event is told once, and it is in the file.
LEMMA EmitTold ==
    ASSUME Inv, AllTold, NEW r \in Runs, Emit(r) \/ EmitUnmirrored(r)
    PROVE  AllTold'
  <1> DEFINE e == EventOf(r)
             u == [out[r] EXCEPT !.events = Append(@, e)]
             x == Piece(e, "whole")
  <1>1. /\ pc[r] = "emit" /\ out[r] \in Outcomes /\ Told(r)
        /\ UNCHANGED <<scenario, ledgerFile>>
    BY DEF Emit, EmitUnmirrored, AllTold, Inv, TypeOK
  <1>2. /\ auditFile' = Append(Opened, x)
        /\ out' = [out EXCEPT ![r] = u]
        /\ \E step \in {"done", "after", "stopped"} : pc' = [pc EXCEPT ![r] = step]
    BY DEF Emit, EmitUnmirrored, Goto
  <1>3. e \in Events /\ x \in Pieces /\ x.record = e /\ Opened \in Seq(Pieces)
    BY <1>1, EventIsTyped, AppendIsTyped DEF Inv, Piece, Pieces
  <1>4. u \in Outcomes
    BY <1>1, <1>3, OutcomeUpdates DEF Keeps
  <1>5. SameResult(out[r], u) /\ u.events = Append(out[r].events, e)
    BY <1>1, Zenon DEF Outcomes, SameResult
  <1> HIDE DEF e, u, x
  <1>6. /\ out'[r] = u /\ pc'[r] \in {"done", "after", "stopped"}
        /\ Elsewhere(r)
    BY <1>1, <1>2, <1>4, UpdateAt DEF Inv, TypeOK, Elsewhere
  <1>7. EventOf(r)' = e
    BY <1>1, <1>5, <1>6, EventFollows DEF e
  <1>8. u.events = <<e>>
    <2>1. out[r].events = <<>>
      BY <1>1 DEF Told, Unannounced
    <2>2. \A y : Append(<<>>, y) = <<y>>
      OBVIOUS
    <2>3. QED
      BY <1>5, <2>1, <2>2
  <1>9. auditFile' # NoFile /\ \E i \in DOMAIN auditFile' : auditFile'[i].record = e
    <2>1. auditFile' \in Seq(Pieces)
      BY <1>2, <1>3
    <2>2. /\ Len(Opened) + 1 \in DOMAIN auditFile'
          /\ auditFile'[Len(Opened) + 1] = x
      BY <1>2, <1>3
    <2>3. QED
      BY <1>3, <2>1, <2>2, MarkersAreNoRecords
  <1>10. Told(r)'
    BY <1>1, <1>5, <1>6, <1>7, <1>8, <1>9
    DEF Told, Unannounced, Resulting, Saving, SameResult, Written
  <1>11. QED
    BY <1>1, <1>2, <1>3, <1>6, <1>10, OthersHaveTold DEF AllTold, AuditGrows

LEMMA DigestAfterTold ==
    ASSUME Inv, AllTold, NEW r \in Runs, DigestAfter(r)
    PROVE  AllTold'
  <1> DEFINE u == [out[r] EXCEPT !.after = ledgerFile]
  <1>1. /\ pc[r] = "after" /\ out[r] \in Outcomes /\ Told(r)
        /\ ledgerFile \in LedgerContent \cup {NoFile}
        /\ UNCHANGED <<scenario, ledgerFile, auditFile>>
    BY DEF DigestAfter, AllTold, Inv, TypeOK, LedgersAreSound, files
  <1>2. out' = [out EXCEPT ![r] = u] /\ pc' = [pc EXCEPT ![r] = "done"]
    BY DEF DigestAfter, Goto
  <1>3. u \in Outcomes
    BY <1>1, OutcomeUpdates DEF Keeps
  <1>4. SameResult(out[r], u) /\ u.events = out[r].events
    BY <1>1, Zenon DEF Outcomes, SameResult
  <1> HIDE DEF u
  <1>5. pc'[r] = "done" /\ out'[r] = u /\ Elsewhere(r)
    BY <1>1, <1>2, <1>3, UpdateAt DEF Inv, TypeOK, Elsewhere
  <1>6. EventOf(r)' = EventOf(r)
    BY <1>1, <1>4, <1>5, EventFollows
  <1>7. Told(r)'
    BY <1>1, <1>4, <1>5, <1>6
    DEF Told, Unannounced, Resulting, Saving, SameResult, Written
  <1>8. QED
    BY <1>1, <1>5, <1>7, OthersHaveTold DEF AllTold, AuditGrows

\* A run that ends in between has told nothing it need account for.
LEMMA StopTold ==
    ASSUME Inv, AllTold, NEW r \in Runs, EmitTorn(r) \/ Abort(r) \/ Crash(r)
    PROVE  AllTold'
  <1>1. pc'[r] = "stopped" /\ Elsewhere(r) /\ UNCHANGED ledgerFile
    BY DEF EmitTorn, Abort, Crash, Goto, files, Inv, TypeOK, Elsewhere
  <1>2. AuditGrows
    BY AppendIsTyped, EventIsTyped DEF EmitTorn, Abort, Crash, files, AuditGrows, Inv, Piece, Pieces
  <1>3. Told(r)'
    BY <1>1 DEF Told, Unannounced, Resulting, Saving
  <1>4. QED
    BY <1>1, <1>2, <1>3, OthersHaveTold DEF AllTold

LEMMA NextTold == Inv /\ AllTold /\ [Next]_vars => AllTold'
  <1> SUFFICES ASSUME Inv, AllTold, [Next]_vars PROVE AllTold'
    OBVIOUS
  <1>1. CASE UNCHANGED vars
    BY <1>1 DEF vars, AllTold, Told, Approving, EventOf, EventNamed, Candidate, Written
  <1>2. CASE Next
    <2>1. PICK r \in Runs :
             \/ \E s \in Scenarios, acknowledged \in BOOLEAN : Begin(r, s, acknowledged)
             \/ Step(r)
             \/ EmitTorn(r)
             \/ Abort(r) \/ Crash(r)
      BY <1>2 DEF Next
    <2>2. CASE Step(r)
      BY <2>2, LoadTold, SaveTold, RenameTold, DigestBeforeTold, ResolveTold, EvaluateTold,
         EmitTold, DigestAfterTold
      DEF Step
    <2>3. QED
      BY <2>1, <2>2, BeginTold, StopTold
  <1>3. QED
    BY <1>1, <1>2

THEOREM AllToldIsInvariant == Spec => []AllTold
  <1>1. Inv /\ AllTold /\ [Next]_vars => AllTold'
    BY NextTold
  <1>2. QED
    BY <1>1, InitTold, InvIsInvariant, PTL DEF Spec

\* Outcome.Events with audit.Emit: every outcome returned, of any number of runs
\* at once, has exactly one event, which says its result and is in the file.
THEOREM OutcomesAreAudited == Spec => []EveryOutcomeIsAudited
  <1>1. Inv /\ AllTold => EveryOutcomeIsAudited
    <2> SUFFICES ASSUME Inv, AllTold, NEW r \in Runs, pc[r] = "done"
                 PROVE  /\ out[r].result # None
                        /\ out[r].events = <<EventOf(r)>>
                        /\ Read.ok => EventOf(r) \in ToSet(Read.records)
                        /\ out[r].result = "BUILD_FAILED" <=> out[r].failure # None
      BY DEF EveryOutcomeIsAudited
    <2>1. Told(r)
      BY DEF AllTold
    <2>2. EventOf(r) \in ToSet(Read.records)
      <3>1. auditFile # NoFile /\ \E i \in DOMAIN auditFile : auditFile[i].record = EventOf(r)
        BY <2>1 DEF Told, Written
      <3>2. QED
        BY <3>1 DEF Read, Opened, ToSet
    <2>3. QED
      BY <2>1, <2>2, NoneIsNothing DEF Told, Resulting
  <1>2. QED
    BY <1>1, InvIsInvariant, AllToldIsInvariant, PTL

-----------------------------------------------------------------------------
(***************************************************************************)
(* Runs that follow one another.                                           *)
(***************************************************************************)
\* What the run under way holds of the ledger, in its outcome: both digests are
\* the file's until an approval is saved, and only an approval changes the file.
Honest(r) ==
    /\ pc[r] \in {"idle", "load", "before", "resolve"} \cup Saving => out[r].mutation = "none"
    /\ pc[r] = "resolve" \/ (pc[r] \in Saving /\ Approving(r)) =>
          out[r].before = ledgerFile /\ out[r].after = ledgerFile
    /\ pc[r] \in {"emit", "after"} =>
          IF out[r].mutation = "approved"
          THEN ledgerFile = current[r] /\ ledgerFile # out[r].before
          ELSE ledgerFile = out[r].before /\ out[r].after = out[r].before
    /\ pc[r] \in Resulting /\ out[r].result = "BUILD_FAILED" => out[r].mutation = "none"
    /\ pc[r] = "after" => out[r].result # "BUILD_FAILED"
    /\ pc[r] = "done" =>
          /\ out[r].before # out[r].after <=> out[r].mutation = "approved"
          /\ out[r].mutation = "approved" => out[r].after = current[r]
          /\ (\A q \in Runs \ {r} : pc[q] = "idle") => out[r].after = ledgerFile

AllHonest == \A r \in Runs : Honest(r)

\* When it is r's turn, what it does leaves the others as they were.
LEMMA OthersHonest ==
    ASSUME AllHonest, NEW r \in Runs, Elsewhere(r), pc'[r] # "idle",
           \A q \in Runs \ {r} : current'[q] = current[q] /\ pc[q] \in {"idle"} \cup Ended
    PROVE  \A q \in Runs \ {r} : Honest(q)'
  BY DEF AllHonest, Honest, Elsewhere, Ended, Saving, Approving, Resulting

LEMMA OthersRest ==
    ASSUME InTurn, NEW r \in Runs, Active(r)
    PROVE  \A q \in Runs \ {r} : pc[q] \in {"idle"} \cup Ended
  BY DEF InTurn, OneAtATime, Active

LEMMA InitHonest == Init => AllHonest
  BY DEF Init, AllHonest, Honest, NoOutcome, Resulting, Saving

LEMMA BeginHonest ==
    ASSUME ~Overlap, Inv, AllHonest, NEW r \in Runs, NEW s \in Scenarios,
           NEW acknowledged \in BOOLEAN, Begin(r, s, acknowledged)
    PROVE  AllHonest'
  <1>1. /\ pc[r] = "idle" /\ pc'[r] \in {"stopped", "load"}
        /\ \A q \in Runs \ {r} : pc[q] \in {"idle"} \cup Ended
        /\ UNCHANGED <<current, out, ledgerFile>>
        /\ Elsewhere(r)
    BY DEF Begin, Inv, TypeOK, Goto, files, Elsewhere, Active
  <1>2. Honest(r)'
    BY <1>1 DEF AllHonest, Honest, Resulting, Saving
  <1>3. QED
    BY <1>1, <1>2, OthersHonest DEF AllHonest

LEMMA LoadHonest ==
    ASSUME Inv, InTurn, AllHonest, NEW r \in Runs, Load(r)
    PROVE  AllHonest'
  <1>1. /\ pc[r] = "load" /\ pc'[r] \in {"create", "before"} /\ Active(r)
        /\ UNCHANGED <<out, ledgerFile>>
        /\ \A q \in Runs \ {r} : current'[q] = current[q]
        /\ Elsewhere(r)
    BY DEF Load, Inv, TypeOK, Goto, files, Elsewhere, Active, Ended
  <1>2. Honest(r)'
    BY <1>1 DEF InTurn, InHand, AllHonest, Honest, Resulting, Saving, Approving
  <1>3. QED
    BY <1>1, <1>2, OthersRest, OthersHonest DEF AllHonest

LEMMA SaveHonest ==
    ASSUME Inv, InTurn, AllHonest, NEW r \in Runs, CreateTemp(r) \/ WriteTemp(r)
    PROVE  AllHonest'
  <1>1. /\ pc[r] \in Saving /\ pc'[r] \in Saving /\ Active(r)
        /\ UNCHANGED <<current, out, ledgerFile>>
        /\ Elsewhere(r)
    BY DEF CreateTemp, WriteTemp, Inv, TypeOK, Goto, Saving, Elsewhere, Active, Ended
  <1>2. Honest(r)' /\ pc'[r] # "idle"
    BY <1>1 DEF AllHonest, Honest, Resulting, Saving, Approving
  <1>3. QED
    BY <1>1, <1>2, OthersRest, OthersHonest DEF AllHonest

\* One entry more makes another ledger.
LEMMA AppendDiffers ==
    ASSUME NEW ledger \in LedgerContent, NEW e \in EntrySet
    PROVE  Append(ledger, e) # ledger
  <1>1. Len(Append(ledger, e)) = Len(ledger) + 1 /\ Len(ledger) \in Nat
    BY DEF LedgerContent
  <1>2. QED
    BY <1>1

LEMMA RenameHonest ==
    ASSUME Inv, InTurn, AllTold, AllHonest, NEW r \in Runs, RenameTemp(r)
    PROVE  AllHonest'
  <1>1. /\ pc[r] = "rename" /\ out[r] \in Outcomes /\ Active(r)
        /\ ledgerFile' = current[r]
        /\ UNCHANGED <<scenario, current>>
    BY DEF RenameTemp, Inv, TypeOK, Active, Ended
  <1>2. Honest(r) /\ Told(r) /\ InHand(r)
    BY DEF AllHonest, AllTold, InTurn
  <1>3. CASE Approving(r)
    <2> DEFINE u == [out[r] EXCEPT !.mutation = "approved"]
    <2>1. out' = [out EXCEPT ![r] = u] /\ pc' = [pc EXCEPT ![r] = "emit"]
      BY <1>3 DEF RenameTemp, Goto
    <2>2. u \in Outcomes
      BY <1>1, OutcomeUpdates DEF Keeps
    <2>3. /\ u.result = out[r].result /\ u.before = out[r].before /\ u.after = out[r].after
          /\ u.mutation = "approved"
      BY <1>1, Zenon DEF Outcomes
    <2> HIDE DEF u
    <2>4. pc'[r] = "emit" /\ out'[r] = u /\ Elsewhere(r)
      BY <1>1, <2>1, <2>2, UpdateAt DEF Inv, TypeOK, Elsewhere
    <2>5. out[r].result = "BUILD_OK"
      BY <1>1, <1>2, <1>3 DEF Told, Saving
    <2>6. ledgerFile = out[r].before /\ current[r] # ledgerFile
      BY <1>1, <1>2, <1>3, AppendDiffers DEF Honest, InHand, Saving
    <2>7. Honest(r)'
      BY <1>1, <2>3, <2>4, <2>5, <2>6 DEF Honest, Resulting, Saving
    <2>8. QED
      BY <1>1, <2>4, <2>7, OthersRest, OthersHonest DEF AllHonest
  <1>4. CASE ~Approving(r)
    <2>1. pc'[r] = "before" /\ UNCHANGED out /\ Elsewhere(r)
      BY <1>1, <1>4 DEF RenameTemp, Goto, Inv, TypeOK, Elsewhere
    <2>2. Honest(r)'
      BY <1>1, <1>2, <2>1 DEF Honest, Resulting, Saving
    <2>3. QED
      BY <1>1, <2>1, <2>2, OthersRest, OthersHonest DEF AllHonest
  <1>5. QED
    BY <1>3, <1>4

LEMMA DigestBeforeHonest ==
    ASSUME Inv, InTurn, AllHonest, NEW r \in Runs, DigestBefore(r)
    PROVE  AllHonest'
  <1> DEFINE u == [out[r] EXCEPT !.before = ledgerFile, !.after = ledgerFile]
  <1>1. /\ pc[r] = "before" /\ out[r] \in Outcomes /\ Active(r)
        /\ ledgerFile \in LedgerContent \cup {NoFile}
        /\ UNCHANGED <<scenario, current, ledgerFile>>
    BY DEF DigestBefore, Inv, TypeOK, LedgersAreSound, files, Active, Ended
  <1>2. out' = [out EXCEPT ![r] = u] /\ pc' = [pc EXCEPT ![r] = "resolve"]
    BY DEF DigestBefore, Goto
  <1>3. u \in Outcomes
    BY <1>1, OutcomeUpdates
  <1>4. u.mutation = out[r].mutation /\ u.before = ledgerFile /\ u.after = ledgerFile
    BY <1>1, Zenon DEF Outcomes
  <1> HIDE DEF u
  <1>5. pc'[r] = "resolve" /\ out'[r] = u /\ Elsewhere(r)
    BY <1>1, <1>2, <1>3, UpdateAt DEF Inv, TypeOK, Elsewhere
  <1>6. Honest(r)
    BY DEF AllHonest
  <1>7. Honest(r)'
    BY <1>1, <1>4, <1>5, <1>6 DEF Honest, Resulting, Saving
  <1>8. QED
    BY <1>1, <1>5, <1>7, OthersRest, OthersHonest DEF AllHonest

LEMMA FailureHonest ==
    ASSUME Inv, InTurn, AllHonest, NEW r \in Runs, NEW f \in Failures \cup GateFailures,
           pc[r] = "resolve", FailBuild(r, f), UNCHANGED <<scenario, current, ledgerFile>>
    PROVE  AllHonest'
  <1> DEFINE u == [out[r] EXCEPT !.result = "BUILD_FAILED", !.failure = f]
  <1>1. out[r] \in Outcomes /\ f \in GivenFailures /\ Honest(r) /\ Active(r)
    BY DEF Inv, TypeOK, GivenFailures, AllHonest, Active, Ended
  <1>2. out' = [out EXCEPT ![r] = u] /\ pc' = [pc EXCEPT ![r] = "emit"]
    BY DEF FailBuild, Goto
  <1>3. u \in Outcomes
    BY <1>1, OutcomeUpdates
  <1>4. u.mutation = out[r].mutation /\ u.before = out[r].before /\ u.after = out[r].after
    BY <1>1, Zenon DEF Outcomes
  <1> HIDE DEF u
  <1>5. pc'[r] = "emit" /\ out'[r] = u /\ Elsewhere(r)
    BY <1>2, <1>3, UpdateAt DEF Inv, TypeOK, Elsewhere
  <1>6. Honest(r)'
    BY <1>1, <1>4, <1>5 DEF Honest, Resulting, Saving
  <1>7. QED
    BY <1>1, <1>5, <1>6, OthersRest, OthersHonest DEF AllHonest

LEMMA ResolveHonest ==
    ASSUME Inv, InTurn, AllHonest, NEW r \in Runs, Resolve(r)
    PROVE  AllHonest'
  <1>1. pc[r] = "resolve" /\ Active(r) /\ UNCHANGED <<scenario, current, ledgerFile>>
    BY DEF Resolve, files, Active, Ended
  <1>2. CASE UNCHANGED <<pc, out>>
    <2>1. Elsewhere(r) /\ Honest(r)'
      BY <1>1, <1>2 DEF AllHonest, Honest, Resulting, Saving, Elsewhere
    <2>2. QED
      BY <1>1, <1>2, <2>1, OthersRest, OthersHonest DEF AllHonest
  <1>3. CASE \E f \in Failures : FailBuild(r, f)
    BY <1>1, <1>3, FailureHonest
  <1>4. QED
    BY <1>2, <1>3 DEF Resolve

LEMMA EvaluateHonest ==
    ASSUME Inv, InTurn, AllHonest, NEW r \in Runs, Evaluate(r)
    PROVE  AllHonest'
  <1>1. /\ pc[r] = "resolve" /\ out[r] \in Outcomes /\ Honest(r) /\ Active(r) /\ Approving(r)
        /\ UNCHANGED <<scenario, ledgerFile>>
    BY DEF Evaluate, files, AllHonest, Inv, TypeOK, Active, Ended, InTurn, InHand
  <1>2. CASE Unanswered(r)
    <2>1. UNCHANGED current
      BY <1>2 DEF Unanswered
    <2>2. CASE Goto(r, "stopped") /\ UNCHANGED out
      <3>1. pc'[r] = "stopped" /\ Elsewhere(r)
        BY <1>1, <2>2 DEF Goto, Inv, TypeOK, Elsewhere
      <3>2. Honest(r)'
        BY <3>1 DEF Honest, Resulting, Saving
      <3>3. QED
        BY <1>1, <2>1, <3>1, <3>2, OthersRest, OthersHonest DEF AllHonest
    <2>3. ASSUME NEW class \in {"POLICY_KIND_UNEXPECTED", "POLICY_CANDIDATE_UNKNOWN"},
                 FailBuild(r, GateFailure(class))
          PROVE  AllHonest'
      BY <1>1, <2>1, <2>3, FailureHonest DEF GateFailures
    <2>4. QED
      BY <1>2, <2>2, <2>3 DEF Unanswered
  <1>3. CASE Answered(r)
    <2> DEFINE rejected == [out[r] EXCEPT !.result = "BUILD_OK", !.verdict = "REJECT"]
               approved == [out[r] EXCEPT !.result = "BUILD_OK", !.verdict = "APPROVE"]
               duplicate == [out[r] EXCEPT !.result = "BUILD_OK", !.verdict = "APPROVE",
                                           !.mutation = "suppressed-duplicate"]
    <2>1. Keeps(out[r], rejected) /\ Keeps(out[r], approved) /\ Keeps(out[r], duplicate)
      BY <1>1, OutcomeUpdates
    <2>2. \A u \in {rejected, approved, duplicate} :
             /\ u.result = "BUILD_OK" /\ u.before = out[r].before /\ u.after = out[r].after
             /\ u.mutation = "none" \/ u.mutation = out[r].mutation
                \/ u.mutation = "suppressed-duplicate"
      BY <1>1, Zenon DEF Outcomes
    <2>3. approved.mutation = out[r].mutation
      BY <1>1, Zenon DEF Outcomes
    <2>4. \E u \in {rejected, approved, duplicate} :
             /\ out' = [out EXCEPT ![r] = u]
             /\ \/ pc' = [pc EXCEPT ![r] = "emit"]
                \/ pc' = [pc EXCEPT ![r] = "create"] /\ u = approved
             /\ \/ UNCHANGED current
                \/ current' = [current EXCEPT ![r] = Append(@, Entry(r))]
      BY <1>3 DEF Answered, Goto
    <2> HIDE DEF rejected, approved, duplicate
    <2>5. PICK u \in {rejected, approved, duplicate} :
             /\ out' = [out EXCEPT ![r] = u]
             /\ \/ pc' = [pc EXCEPT ![r] = "emit"]
                \/ pc' = [pc EXCEPT ![r] = "create"] /\ u = approved
             /\ \/ UNCHANGED current
                \/ current' = [current EXCEPT ![r] = Append(@, Entry(r))]
      BY <2>4
    <2>6. u \in Outcomes
      BY <2>1 DEF Keeps
    <2>7. /\ out'[r] = u /\ Elsewhere(r)
          /\ pc'[r] = "emit" \/ (pc'[r] = "create" /\ u = approved)
          /\ \A q \in Runs \ {r} : current'[q] = current[q]
      BY <1>1, <2>5, <2>6, UpdateAt DEF Inv, TypeOK, Elsewhere
    <2>8. /\ out[r].mutation = "none" /\ out[r].before = ledgerFile
          /\ out[r].after = ledgerFile
      BY <1>1 DEF Honest
    <2>9. Honest(r)'
      BY <1>1, <2>2, <2>3, <2>7, <2>8 DEF Honest, Resulting, Saving
    <2>10. QED
      BY <1>1, <2>7, <2>9, OthersRest, OthersHonest DEF AllHonest
  <1>4. QED
    BY <1>2, <1>3 DEF Evaluate

\* A failed build returns with its event, its second digest being the first's copy.
LEMMA EmitHonest ==
    ASSUME Inv, InTurn, AllHonest, NEW r \in Runs, Emit(r) \/ EmitUnmirrored(r)
    PROVE  AllHonest'
  <1> DEFINE e == EventOf(r)
             u == [out[r] EXCEPT !.events = Append(@, e)]
  <1>1. /\ pc[r] = "emit" /\ out[r] \in Outcomes /\ Honest(r) /\ Active(r)
        /\ UNCHANGED <<scenario, current, ledgerFile>>
    BY DEF Emit, EmitUnmirrored, AllHonest, Inv, TypeOK, Active, Ended
  <1>2. /\ out' = [out EXCEPT ![r] = u]
        /\ \/ pc' = [pc EXCEPT ![r] = "done"] /\ out[r].result = "BUILD_FAILED"
           \/ pc' = [pc EXCEPT ![r] = "after"] /\ out[r].result # "BUILD_FAILED"
           \/ pc' = [pc EXCEPT ![r] = "stopped"]
    BY DEF Emit, EmitUnmirrored, Goto
  <1>3. u \in Outcomes
    BY <1>1, EventIsTyped, OutcomeUpdates DEF Keeps, Inv
  <1>4. SameResult(out[r], u) /\ u.before = out[r].before /\ u.after = out[r].after
    BY <1>1, Zenon DEF Outcomes, SameResult
  <1> HIDE DEF e, u
  <1>5. /\ out'[r] = u /\ Elsewhere(r)
        /\ \/ pc'[r] = "done" /\ out[r].result = "BUILD_FAILED"
           \/ pc'[r] = "after" /\ out[r].result # "BUILD_FAILED"
           \/ pc'[r] = "stopped"
    BY <1>1, <1>2, <1>3, UpdateAt DEF Inv, TypeOK, Elsewhere
  <1>6. Honest(r)'
    BY <1>1, <1>4, <1>5 DEF Honest, Resulting, Saving, SameResult
  <1>7. QED
    BY <1>1, <1>5, <1>6, OthersRest, OthersHonest DEF AllHonest

LEMMA DigestAfterHonest ==
    ASSUME Inv, InTurn, AllHonest, NEW r \in Runs, DigestAfter(r)
    PROVE  AllHonest'
  <1> DEFINE u == [out[r] EXCEPT !.after = ledgerFile]
  <1>1. /\ pc[r] = "after" /\ out[r] \in Outcomes /\ Honest(r) /\ Active(r)
        /\ ledgerFile \in LedgerContent \cup {NoFile}
        /\ UNCHANGED <<scenario, current, ledgerFile>>
    BY DEF DigestAfter, AllHonest, Inv, TypeOK, LedgersAreSound, files, Active, Ended
  <1>2. out' = [out EXCEPT ![r] = u] /\ pc' = [pc EXCEPT ![r] = "done"]
    BY DEF DigestAfter, Goto
  <1>3. u \in Outcomes
    BY <1>1, OutcomeUpdates DEF Keeps
  <1>4. SameResult(out[r], u) /\ u.before = out[r].before /\ u.after = ledgerFile
    BY <1>1, Zenon DEF Outcomes, SameResult
  <1> HIDE DEF u
  <1>5. pc'[r] = "done" /\ out'[r] = u /\ Elsewhere(r)
    BY <1>1, <1>2, <1>3, UpdateAt DEF Inv, TypeOK, Elsewhere
  <1>6. Honest(r)'
    BY <1>1, <1>4, <1>5 DEF Honest, Resulting, Saving, SameResult
  <1>7. QED
    BY <1>1, <1>5, <1>6, OthersRest, OthersHonest DEF AllHonest

LEMMA StopHonest ==
    ASSUME Inv, InTurn, AllHonest, NEW r \in Runs, EmitTorn(r) \/ Abort(r) \/ Crash(r)
    PROVE  AllHonest'
  <1>1. pc'[r] = "stopped" /\ Elsewhere(r) /\ Active(r) /\ UNCHANGED current
    BY DEF EmitTorn, Abort, Crash, Goto, Inv, TypeOK, Elsewhere, Active, Ended
  <1>2. Honest(r)'
    BY <1>1 DEF Honest, Resulting, Saving
  <1>3. QED
    BY <1>1, <1>2, OthersRest, OthersHonest DEF AllHonest

LEMMA NextHonest ==
    ~Overlap /\ Inv /\ InTurn /\ AllTold /\ AllHonest /\ [Next]_vars => AllHonest'
  <1> SUFFICES ASSUME ~Overlap, Inv, InTurn, AllTold, AllHonest, [Next]_vars PROVE AllHonest'
    OBVIOUS
  <1>1. CASE UNCHANGED vars
    BY <1>1 DEF vars, AllHonest, Honest, Approving
  <1>2. CASE Next
    <2>1. PICK r \in Runs :
             \/ \E s \in Scenarios, acknowledged \in BOOLEAN : Begin(r, s, acknowledged)
             \/ Step(r)
             \/ EmitTorn(r)
             \/ Abort(r) \/ Crash(r)
      BY <1>2 DEF Next
    <2>2. CASE Step(r)
      BY <2>2, LoadHonest, SaveHonest, RenameHonest, DigestBeforeHonest, ResolveHonest,
         EvaluateHonest, EmitHonest, DigestAfterHonest
      DEF Step
    <2>3. QED
      BY <2>1, <2>2, BeginHonest, StopHonest
  <1>3. QED
    BY <1>1, <1>2

\* Outcome.LedgerBefore and LedgerAfter, for runs that follow one another: the
\* digests are the file's at the start and at the end, and they differ exactly
\* when the run says that it approved.
THEOREM OutcomesAreTrue ==
    ASSUME ~Overlap
    PROVE  Spec => []OutcomeIsTrue
  <1>1. Inv /\ InTurn /\ AllTold /\ AllHonest /\ [Next]_vars => AllHonest'
    BY NextHonest
  <1>2. AllHonest => OutcomeIsTrue
    BY DEF AllHonest, Honest, OutcomeIsTrue, Resulting
  <1>3. QED
    BY <1>1, <1>2, InitHonest, InvIsInvariant, InTurnIsInvariant, AllToldIsInvariant, PTL
    DEF Spec

-----------------------------------------------------------------------------
(***************************************************************************)
(* The audit file and the ledger, of runs that follow one another.         *)
(***************************************************************************)
Approves(record, c) == record.event = "RELEASE_APPROVED" /\ record.candidate = c

Approvals(c) == {i \in DOMAIN Opened : Approves(Opened[i].record, c)}

\* The run has approved the candidate and has not said so, or never will.
Unsaid(r, c) ==
    out[r].mutation = "approved" /\ Candidate(r) = c /\ pc[r] \in {"emit", "stopped"}

\* The two files agree, in lines that can be read and in lines that cannot.
Agrees ==
    /\ \A c \in Candidates :
          /\ \A i, j \in Approvals(c) : i = j
          /\ Approvals(c) # {} => Released(c)
          /\ Released(c) /\ Approvals(c) = {} => \E r \in Runs : Unsaid(r, c)
    /\ \A r \in Runs :
          pc[r] = "emit" /\ out[r].mutation = "approved" =>
             Released(Candidate(r)) /\ Approvals(Candidate(r)) = {}

LEMMA InitAgrees == Init => Agrees
  BY DEF Init, Agrees, Approvals, Opened, Released

\* A step that changes neither file's lines, and makes no approval or forgets none.
LEMMA QuietStep ==
    ASSUME Agrees, NEW r \in Runs, Elsewhere(r), Opened' = Opened, UNCHANGED ledgerFile,
           pc'[r] = "emit" => out'[r].mutation # "approved",
           pc[r] \in {"emit", "stopped"} /\ out[r].mutation = "approved" =>
              /\ pc'[r] = "stopped"
              /\ out'[r].mutation = "approved"
              /\ scenario'[r] = scenario[r]
    PROVE  Agrees'
  <1>1. \A c : Approvals(c)' = Approvals(c) /\ (Released(c)' <=> Released(c))
    BY DEF Approvals, Approves, Released, Approved
  <1>2. \A q \in Runs, c \in Candidates : Unsaid(q, c) => Unsaid(q, c)'
    BY DEF Unsaid, Elsewhere, Candidate
  <1>3. \A q \in Runs :
           pc'[q] = "emit" /\ out'[q].mutation = "approved" =>
              /\ pc[q] = "emit" /\ out[q].mutation = "approved"
              /\ Candidate(q)' = Candidate(q)
    BY DEF Elsewhere, Candidate
  <1>4. QED
    BY <1>1, <1>2, <1>3 DEF Agrees

\* What an append adds to the approvals in the file.
LEMMA AppendedApprovals ==
    ASSUME TypeOK, NEW x \in Pieces, auditFile' = Append(Opened, x), NEW c
    PROVE  Approvals(c)' = Approvals(c) \cup
                              (IF Approves(x.record, c) THEN {Len(Opened) + 1} ELSE {})
  <1>1. Opened \in Seq(Pieces)
    BY DEF TypeOK, Opened
  <1>2. auditFile' \in Seq(Pieces) /\ Opened' = auditFile'
    BY <1>1, MarkersAreNoRecords DEF Opened
  <1>3. /\ DOMAIN Opened' = 1..(Len(Opened) + 1)
        /\ DOMAIN Opened = 1..Len(Opened)
        /\ Len(Opened) \in Nat
        /\ Opened'[Len(Opened) + 1] = x
        /\ \A i \in 1..Len(Opened) : Opened'[i] = Opened[i]
    BY <1>1, <1>2
  <1>4. QED
    BY <1>3 DEF Approvals, Approves

LEMMA LineAdded ==
    ASSUME Inv, InTurn, AllTold, AllHonest, Agrees, NEW r \in Runs, pc[r] = "emit",
           Elsewhere(r), UNCHANGED <<scenario, ledgerFile>>, pc'[r] # "emit",
           SameResult(out[r], out'[r]),
           NEW part \in {"torn", "unended", "whole"},
           auditFile' = Append(Opened, Piece(EventOf(r), part))
    PROVE  Agrees'
  <1> DEFINE x == Piece(EventOf(r), part)
  <1>1. x \in Pieces /\ x.record = EventOf(r)
    BY EventIsTyped DEF Inv, Piece, Pieces
  <1>2. Told(r) /\ Honest(r) /\ scenario[r] \in Scenarios
    BY DEF AllTold, AllHonest, Inv, TypeOK
  <1>3. \A c : Released(c)' <=> Released(c)
    BY DEF Released, Approved
  <1>4. \A q \in Runs : Candidate(q)' = Candidate(q)
    BY DEF Candidate
  <1>5. CASE out[r].mutation = "approved"
    <2>1. out[r].result # "BUILD_FAILED" /\ out[r].failure = None
      BY <1>2, <1>5 DEF Told, Honest, Resulting
    <2>2. \A c : Approves(x.record, c) <=> c = Candidate(r)
      BY <1>1, <1>5, <2>1 DEF EventOf, EventNamed, Approves
    <2>3. \A c : Approvals(c)' = IF c = Candidate(r) THEN {Len(Opened) + 1} ELSE Approvals(c)
      <3>1. Approvals(Candidate(r)) = {}
        BY <1>5 DEF Agrees
      <3>2. \A c : Approvals(c)' = Approvals(c) \cup
                                     (IF Approves(x.record, c) THEN {Len(Opened) + 1} ELSE {})
        BY <1>1, AppendedApprovals DEF Inv
      <3>3. QED
        BY <2>2, <3>1, <3>2
    <2>4. Released(Candidate(r))
      BY <1>5 DEF Agrees
    <2>5. \A q \in Runs : \A c : c # Candidate(r) /\ Unsaid(q, c) => Unsaid(q, c)'
      BY DEF Unsaid, Elsewhere, Candidate
    <2>6. \A c \in Candidates :
             /\ \A i, j \in Approvals(c)' : i = j
             /\ Approvals(c)' # {} => Released(c)'
             /\ Released(c)' /\ Approvals(c)' = {} => \E q \in Runs : Unsaid(q, c)'
      BY <1>3, <2>3, <2>4, <2>5 DEF Agrees
    <2>7. \A q \in Runs \ {r} : pc'[q] # "emit"
      BY OthersRest DEF Active, Ended, Elsewhere
    <2>8. QED
      BY <1>3, <1>4, <2>3, <2>6, <2>7 DEF Agrees, Elsewhere
  <1>6. CASE out[r].mutation # "approved"
    <2>1. \A c : ~Approves(x.record, c)
      BY <1>1, <1>6 DEF EventOf, EventNamed, Approves
    <2>2. \A c : Approvals(c)' = Approvals(c)
      BY <1>1, <2>1, AppendedApprovals DEF Inv
    <2>3. \A q \in Runs : \A c : Unsaid(q, c) => Unsaid(q, c)'
      BY <1>6 DEF Unsaid, Elsewhere, Candidate
    <2>4. QED
      BY <1>3, <1>4, <2>2, <2>3 DEF Agrees, Elsewhere
  <1>7. QED
    BY <1>5, <1>6

LEMMA EmitAgrees ==
    ASSUME Inv, InTurn, AllTold, AllHonest, Agrees, NEW r \in Runs,
           Emit(r) \/ EmitUnmirrored(r)
    PROVE  Agrees'
  <1> DEFINE e == EventOf(r)
             u == [out[r] EXCEPT !.events = Append(@, e)]
  <1>1. /\ pc[r] = "emit" /\ out[r] \in Outcomes
        /\ UNCHANGED <<scenario, ledgerFile>>
        /\ auditFile' = Append(Opened, Piece(EventOf(r), "whole"))
    BY DEF Emit, EmitUnmirrored, Inv, TypeOK
  <1>2. /\ out' = [out EXCEPT ![r] = u]
        /\ \E step \in {"done", "after", "stopped"} : pc' = [pc EXCEPT ![r] = step]
    BY DEF Emit, EmitUnmirrored, Goto
  <1>3. u \in Outcomes
    BY <1>1, EventIsTyped, OutcomeUpdates DEF Keeps, Inv
  <1>4. SameResult(out[r], u)
    BY <1>1, Zenon DEF Outcomes, SameResult
  <1> HIDE DEF e, u
  <1>5. out'[r] = u /\ Elsewhere(r) /\ pc'[r] # "emit"
    BY <1>1, <1>2, <1>3, UpdateAt DEF Inv, TypeOK, Elsewhere
  <1>6. QED
    BY <1>1, <1>4, <1>5, LineAdded

LEMMA StopAgrees ==
    ASSUME Inv, InTurn, AllTold, AllHonest, Agrees, NEW r \in Runs,
           EmitTorn(r) \/ Abort(r) \/ Crash(r)
    PROVE  Agrees'
  <1>1. pc'[r] = "stopped" /\ Elsewhere(r) /\ UNCHANGED <<scenario, out, ledgerFile>>
    BY DEF EmitTorn, Abort, Crash, Goto, files, Inv, TypeOK, Elsewhere
  <1>2. CASE auditFile' \in {auditFile, Opened}
    <2>1. Opened' = Opened
      BY <1>2 DEF Opened
    <2>2. QED
      BY <1>1, <2>1, QuietStep
  <1>3. CASE pc[r] = "emit" /\ \E part \in {"torn", "unended", "whole"} :
                                 auditFile' = Append(Opened, Piece(EventOf(r), part))
    BY <1>1, <1>3, LineAdded DEF SameResult
  <1>4. QED
    BY <1>2, <1>3 DEF EmitTorn, Abort, Crash, files

\* A save announces nothing yet.
LEMMA RenameAgrees ==
    ASSUME Inv, InTurn, Agrees, NEW r \in Runs, RenameTemp(r)
    PROVE  Agrees'
  <1>1. /\ pc[r] = "rename" /\ out[r] \in Outcomes /\ InHand(r)
        /\ ledgerFile' = current[r] /\ ledgerFile' \in LedgerContent
        /\ scenario[r] \in Scenarios
        /\ UNCHANGED <<scenario, auditFile>>
    BY DEF RenameTemp, Inv, TypeOK, InTurn
  <1>2. \A c : Approvals(c)' = Approvals(c)
    BY <1>1 DEF Approvals, Approves, Opened
  <1>3. \A q \in Runs \ {r} : pc[q] # "emit"
    BY <1>1, OthersRest DEF Active, Ended
  <1>4. CASE Approving(r)
    <2> DEFINE u == [out[r] EXCEPT !.mutation = "approved"]
    <2>1. out' = [out EXCEPT ![r] = u] /\ pc' = [pc EXCEPT ![r] = "emit"]
      BY <1>4 DEF RenameTemp, Goto
    <2>2. u \in Outcomes
      BY <1>1, OutcomeUpdates DEF Keeps
    <2>3. u.mutation = "approved"
      BY <1>1, Zenon DEF Outcomes
    <2> HIDE DEF u
    <2>4. pc'[r] = "emit" /\ out'[r] = u /\ Elsewhere(r)
      BY <1>1, <2>1, <2>2, UpdateAt DEF Inv, TypeOK, Elsewhere
    <2>5. /\ ledgerFile \in LedgerContent
          /\ ~Approved(ledgerFile, Candidate(r))
          /\ ledgerFile' = Append(ledgerFile, Entry(r))
          /\ Entry(r).candidate = Candidate(r)
          /\ Entry(r) \in EntrySet
      BY <1>1, <1>4 DEF InHand, Saving, Entry
    <2>6. \A c : Released(c)' <=> Released(c) \/ c = Candidate(r)
      <3>1. ledgerFile # NoFile /\ ledgerFile' # NoFile
        BY <1>1, <2>5, MarkersAreNoLedgers
      <3>2. /\ DOMAIN ledgerFile' = 1..(Len(ledgerFile) + 1)
            /\ DOMAIN ledgerFile = 1..Len(ledgerFile)
            /\ Len(ledgerFile) \in Nat
            /\ ledgerFile'[Len(ledgerFile) + 1] = Entry(r)
            /\ \A i \in 1..Len(ledgerFile) : ledgerFile'[i] = ledgerFile[i]
        BY <2>5 DEF LedgerContent
      <3>3. QED
        BY <2>5, <3>1, <3>2 DEF Released, Approved
    <2>7. Approvals(Candidate(r)) = {}
      BY <1>1, <2>5 DEF Agrees, Released, Candidates, Candidate
    <2>8. Unsaid(r, Candidate(r))' /\ Candidate(r)' = Candidate(r)
      BY <1>1, <2>3, <2>4 DEF Unsaid, Candidate
    <2>9. \A q \in Runs : \A c : Unsaid(q, c) => Unsaid(q, c)'
      BY <1>1, <2>3, <2>4 DEF Unsaid, Elsewhere, Candidate
    <2>10. \A c \in Candidates :
              /\ \A i, j \in Approvals(c)' : i = j
              /\ Approvals(c)' # {} => Released(c)'
              /\ Released(c)' /\ Approvals(c)' = {} => \E q \in Runs : Unsaid(q, c)'
      BY <1>2, <2>6, <2>8, <2>9 DEF Agrees
    <2>11. \A q \in Runs : pc'[q] = "emit" => q = r
      BY <1>3, <2>4 DEF Elsewhere
    <2>12. QED
      BY <1>2, <2>6, <2>7, <2>8, <2>10, <2>11 DEF Agrees
  <1>5. CASE ~Approving(r)
    <2>1. pc'[r] = "before" /\ UNCHANGED out /\ Elsewhere(r)
      BY <1>1, <1>5 DEF RenameTemp, Goto, Inv, TypeOK, Elsewhere
    <2>2. ledgerFile = NoFile /\ ledgerFile' = <<>>
      BY <1>1, <1>5 DEF InHand, Saving
    <2>3. \A c : ~Released(c) /\ ~Released(c)'
      BY <2>2 DEF Released, Approved
    <2>4. \A q \in Runs : pc'[q] # "emit"
      BY <1>3, <2>1 DEF Elsewhere
    <2>5. QED
      BY <1>2, <2>3, <2>4 DEF Agrees
  <1>6. QED
    BY <1>4, <1>5

\* An evaluation enters nothing itself.
LEMMA EvaluateApprovesLater ==
    ASSUME Inv, AllHonest, NEW r \in Runs, Evaluate(r)
    PROVE  Elsewhere(r) /\ out'[r].mutation # "approved"
  <1>1. /\ pc[r] = "resolve" /\ out[r] \in Outcomes /\ out[r].mutation = "none"
        /\ UNCHANGED scenario
    BY DEF Evaluate, Inv, TypeOK, AllHonest, Honest
  <1>2. ASSUME NEW f \in GivenFailures, FailBuild(r, f)
        PROVE  Elsewhere(r) /\ out'[r].mutation # "approved"
    <2> DEFINE u == [out[r] EXCEPT !.result = "BUILD_FAILED", !.failure = f]
    <2>1. out' = [out EXCEPT ![r] = u] /\ pc' = [pc EXCEPT ![r] = "emit"]
      BY <1>2 DEF FailBuild, Goto
    <2>2. u \in Outcomes
      BY <1>1, <1>2, OutcomeUpdates
    <2>3. u.mutation = "none"
      BY <1>1, Zenon DEF Outcomes
    <2> HIDE DEF u
    <2>4. QED
      BY <1>1, <2>1, <2>2, <2>3, UpdateAt DEF Inv, TypeOK, Elsewhere
  <1>3. CASE Unanswered(r)
    <2>1. CASE Goto(r, "stopped") /\ UNCHANGED out
      BY <1>1, <2>1 DEF Goto, Inv, TypeOK, Elsewhere
    <2>2. QED
      BY <1>2, <1>3, <2>1 DEF Unanswered, GivenFailures, GateFailures
  <1>4. CASE Answered(r)
    <2> DEFINE rejected == [out[r] EXCEPT !.result = "BUILD_OK", !.verdict = "REJECT"]
               approved == [out[r] EXCEPT !.result = "BUILD_OK", !.verdict = "APPROVE"]
               duplicate == [out[r] EXCEPT !.result = "BUILD_OK", !.verdict = "APPROVE",
                                           !.mutation = "suppressed-duplicate"]
    <2>1. Keeps(out[r], rejected) /\ Keeps(out[r], approved) /\ Keeps(out[r], duplicate)
      BY <1>1, OutcomeUpdates
    <2>2. \A u \in {rejected, approved, duplicate} :
             u.mutation = "none" \/ u.mutation = "suppressed-duplicate"
      <3>1. rejected.mutation = "none" /\ approved.mutation = "none"
        BY <1>1, Zenon DEF Outcomes
      <3>2. duplicate.mutation = "suppressed-duplicate"
        BY <1>1, Zenon DEF Outcomes
      <3>3. QED
        BY <3>1, <3>2
    <2>3. /\ \E u \in {rejected, approved, duplicate} : out' = [out EXCEPT ![r] = u]
          /\ \E step \in {"emit", "create"} : pc' = [pc EXCEPT ![r] = step]
      BY <1>4 DEF Answered, Goto
    <2> HIDE DEF rejected, approved, duplicate
    <2>4. PICK u \in {rejected, approved, duplicate} : out' = [out EXCEPT ![r] = u]
      BY <2>3
    <2>5. u \in Outcomes
      BY <2>1 DEF Keeps
    <2>6. QED
      BY <1>1, <2>2, <2>3, <2>4, <2>5, UpdateAt DEF Inv, TypeOK, Elsewhere
  <1>5. QED
    BY <1>3, <1>4 DEF Evaluate

\* Every other step leaves both files' lines alone.
LEMMA OtherStepsAgree ==
    ASSUME Inv, AllHonest, Agrees, NEW r \in Runs,
           \/ \E s \in Scenarios, acknowledged \in BOOLEAN : Begin(r, s, acknowledged)
           \/ Load(r) \/ CreateTemp(r) \/ WriteTemp(r)
           \/ DigestBefore(r) \/ Resolve(r) \/ Evaluate(r) \/ DigestAfter(r)
    PROVE  Agrees'
  <1>1. /\ pc[r] \notin {"emit", "stopped"}
        /\ UNCHANGED <<ledgerFile, auditFile>>
    BY DEF Begin, Load, CreateTemp, WriteTemp, DigestBefore, Resolve, Evaluate, DigestAfter, files
  <1>2. Opened' = Opened
    BY <1>1 DEF Opened
  <1>3. CASE Evaluate(r)
    BY <1>1, <1>2, <1>3, EvaluateApprovesLater, QuietStep
  <1>4. CASE Resolve(r)
    <2>1. CASE UNCHANGED <<pc, out>>
      <3>1. Elsewhere(r) /\ pc'[r] # "emit"
        BY <1>1, <1>4, <2>1 DEF Resolve, Elsewhere
      <3>2. QED
        BY <1>1, <1>2, <3>1, QuietStep
    <2>2. ASSUME NEW f \in Failures, FailBuild(r, f)
          PROVE  Agrees'
      <3> DEFINE u == [out[r] EXCEPT !.result = "BUILD_FAILED", !.failure = f]
      <3>1. /\ out[r] \in Outcomes /\ out[r].mutation = "none" /\ UNCHANGED scenario
            /\ f \in GivenFailures
        BY <1>4 DEF Resolve, Inv, TypeOK, AllHonest, Honest, GivenFailures
      <3>2. out' = [out EXCEPT ![r] = u] /\ pc' = [pc EXCEPT ![r] = "emit"]
        BY <2>2 DEF FailBuild, Goto
      <3>3. u \in Outcomes
        BY <3>1, OutcomeUpdates
      <3>4. u.mutation = "none"
        BY <3>1, Zenon DEF Outcomes
      <3> HIDE DEF u
      <3>5. Elsewhere(r) /\ out'[r].mutation # "approved"
        BY <3>1, <3>2, <3>3, <3>4, UpdateAt DEF Inv, TypeOK, Elsewhere
      <3>6. QED
        BY <1>1, <1>2, <3>5, QuietStep
    <2>3. QED
      BY <1>4, <2>1, <2>2 DEF Resolve
  <1>5. CASE \/ \E s \in Scenarios, acknowledged \in BOOLEAN : Begin(r, s, acknowledged)
             \/ Load(r) \/ CreateTemp(r) \/ WriteTemp(r)
             \/ DigestBefore(r) \/ DigestAfter(r)
    <2>1. Elsewhere(r) /\ pc'[r] # "emit"
      BY <1>5 DEF Begin, Load, CreateTemp, WriteTemp, DigestBefore, DigestAfter, Goto,
                  Inv, TypeOK, Elsewhere
    <2>2. QED
      BY <1>1, <1>2, <2>1, QuietStep
  <1>6. QED
    BY <1>3, <1>4, <1>5

LEMMA NextAgrees ==
    Inv /\ InTurn /\ AllTold /\ AllHonest /\ Agrees /\ [Next]_vars => Agrees'
  <1> SUFFICES ASSUME Inv, InTurn, AllTold, AllHonest, Agrees, [Next]_vars PROVE Agrees'
    OBVIOUS
  <1>1. CASE UNCHANGED vars
    BY <1>1 DEF vars, Agrees, Approvals, Approves, Opened, Released, Approved, Unsaid, Candidate
  <1>2. CASE Next
    BY <1>2, EmitAgrees, StopAgrees, RenameAgrees, OtherStepsAgree DEF Next, Step
  <1>3. QED
    BY <1>1, <1>2

\* ledger.json and audit.jsonl, of runs that follow one another: an approval is
\* announced at most once and only of what is in the ledger, and an entry nobody
\* announced is that of a run that ended in between.
THEOREM FilesAgree ==
    ASSUME ~Overlap
    PROVE  Spec => []AuditMatchesLedger
  <1>1. Inv /\ InTurn /\ AllTold /\ AllHonest /\ Agrees /\ [Next]_vars => Agrees'
    BY NextAgrees
  <1>2. ~Overlap /\ Inv /\ InTurn /\ AllTold /\ AllHonest /\ [Next]_vars => AllHonest'
    BY NextHonest
  <1>3. Agrees => AuditMatchesLedger
    <2>1. Read.ok => \A c : Announced(c) = Approvals(c)
      BY DEF Announced, Approvals, Approves, Read, Opened
    <2>2. QED
      BY <2>1 DEF Agrees, AuditMatchesLedger, Unsaid
  <1>4. QED
    BY <1>1, <1>2, <1>3, InitAgrees, InitHonest, InvIsInvariant, InTurnIsInvariant,
       AllToldIsInvariant, PTL
    DEF Spec

-----------------------------------------------------------------------------
(***************************************************************************)
(* What transcripts conclude, of runs that follow one another.             *)
(***************************************************************************)
\* Past the verdict: it is the package's, and an approval is in the ledger.
Judged(r) ==
    /\ pc[r] \in Saving /\ Approving(r) => out[r].verdict = "APPROVE"
    /\ pc[r] \in Resulting /\ out[r].result # "BUILD_FAILED" =>
          \/ /\ out[r].verdict = "APPROVE" /\ Says(r, "APPROVE")
             /\ out[r].mutation \in {"approved", "suppressed-duplicate"}
             /\ Released(Candidate(r))
          \/ /\ out[r].verdict = "REJECT" /\ Says(r, "REJECT")
             /\ out[r].mutation = "none"

AllJudged == \A r \in Runs : Judged(r)

LEMMA InitJudged == Init => AllJudged
  BY DEF Init, AllJudged, Judged, Saving, Resulting

\* What is released stays released.
LEMMA ReleasesStay ==
    ASSUME Inv, InTurn, [Next]_vars, NEW c, Released(c)
    PROVE  Released(c)'
  <1>1. CASE ledgerFile' = ledgerFile
    BY <1>1 DEF Released, Approved
  <1>2. ASSUME NEW r \in Runs, RenameTemp(r)
        PROVE  Released(c)'
    <2>1. /\ ledgerFile \in LedgerContent /\ Entry(r) \in EntrySet
          /\ ledgerFile' = Append(ledgerFile, Entry(r))
      BY <1>2, RenameSavesOneEntry DEF Released
    <2>2. /\ ledgerFile' \in LedgerContent
          /\ DOMAIN ledgerFile \subseteq DOMAIN ledgerFile'
          /\ \A i \in DOMAIN ledgerFile : ledgerFile'[i] = ledgerFile[i]
      BY <2>1 DEF LedgerContent
    <2>3. QED
      BY <2>2, MarkersAreNoLedgers DEF Released, Approved
  <1>3. QED
    BY <1>1, <1>2, OnlyRenames

LEMMA OthersJudged ==
    ASSUME Inv, InTurn, AllJudged, [Next]_vars, NEW r \in Runs, Elsewhere(r),
           \A q \in Runs \ {r} : policy'[q] = policy[q]
    PROVE  \A q \in Runs \ {r} : Judged(q)'
  <1> SUFFICES ASSUME NEW q \in Runs \ {r} PROVE Judged(q)'
    OBVIOUS
  <1>1. /\ pc'[q] = pc[q] /\ out'[q] = out[q] /\ scenario'[q] = scenario[q]
        /\ policy'[q] = policy[q] /\ Judged(q)
    BY DEF Elsewhere, AllJudged
  <1>2. Candidate(q)' = Candidate(q)
    BY <1>1 DEF Candidate
  <1>3. \A v : Says(q, v) => Says(q, v)'
    BY <1>1, <1>2 DEF Says
  <1>4. Released(Candidate(q)) => Released(Candidate(q))'
    BY <1>2, ReleasesStay DEF Released
  <1>5. QED
    BY <1>1, <1>3, <1>4 DEF Judged, Approving

\* A run that neither gets a result nor takes one further.
LEMMA UnjudgedStep ==
    ASSUME Inv, InTurn, AllJudged, [Next]_vars, NEW r \in Runs, Elsewhere(r),
           \A q \in Runs \ {r} : policy'[q] = policy[q],
           \/ pc'[r] \notin Saving \cup Resulting
           \/ pc'[r] \in Saving /\ ~Approving(r)'
           \/ pc'[r] = "emit" /\ out'[r].result = "BUILD_FAILED"
    PROVE  AllJudged'
  <1>1. Judged(r)'
    BY DEF Judged, Saving, Resulting
  <1>2. QED
    BY <1>1, OthersJudged DEF AllJudged

LEMMA QuietJudged ==
    ASSUME Inv, InTurn, AllTold, AllJudged, [Next]_vars, NEW r \in Runs,
           \/ \E s \in Scenarios, acknowledged \in BOOLEAN : Begin(r, s, acknowledged)
           \/ Load(r) \/ CreateTemp(r) \/ WriteTemp(r) \/ DigestBefore(r)
           \/ EmitTorn(r) \/ Abort(r) \/ Crash(r)
    PROVE  AllJudged'
  <1>1. Elsewhere(r) /\ UNCHANGED policy
    BY DEF Begin, Load, CreateTemp, WriteTemp, DigestBefore, EmitTorn, Abort, Crash, Goto, Inv,
           TypeOK, Elsewhere
  <1>2. CASE \/ \E s \in Scenarios, acknowledged \in BOOLEAN : Begin(r, s, acknowledged)
             \/ DigestBefore(r) \/ EmitTorn(r) \/ Abort(r) \/ Crash(r)
    <2>1. pc'[r] \in {"stopped", "load", "resolve"}
      BY <1>2 DEF Begin, DigestBefore, EmitTorn, Abort, Crash, Goto, Inv, TypeOK
    <2>2. QED
      BY <1>1, <2>1, UnjudgedStep DEF Saving, Resulting
  <1>3. CASE Load(r)
    <2>1. pc'[r] \in {"create", "before"} /\ UNCHANGED out /\ ~Approving(r)
      BY <1>3 DEF Load, Goto, Inv, TypeOK, AllTold, Told
    <2>2. QED
      BY <1>1, <2>1, UnjudgedStep DEF Saving, Resulting, Approving
  <1>4. CASE CreateTemp(r) \/ WriteTemp(r)
    <2>1. /\ pc[r] \in Saving /\ pc'[r] \in Saving
          /\ UNCHANGED <<out, scenario, policy>>
      BY <1>4 DEF CreateTemp, WriteTemp, Goto, Inv, TypeOK, Saving
    <2>2. Judged(r)'
      BY <2>1 DEF AllJudged, Judged, Saving, Resulting, Approving
    <2>3. QED
      BY <1>1, <2>2, OthersJudged DEF AllJudged
  <1>5. QED
    BY <1>2, <1>3, <1>4

\* An approval is in the ledger once it is saved.
LEMMA RenameJudged ==
    ASSUME Inv, InTurn, AllTold, AllJudged, [Next]_vars, NEW r \in Runs, RenameTemp(r)
    PROVE  AllJudged'
  <1>1. /\ pc[r] = "rename" /\ out[r] \in Outcomes /\ InHand(r) /\ Told(r) /\ Judged(r)
        /\ ledgerFile' = current[r] /\ ledgerFile' \in LedgerContent
        /\ UNCHANGED <<scenario, policy>>
    BY DEF RenameTemp, Inv, TypeOK, InTurn, AllTold, AllJudged
  <1>2. CASE Approving(r)
    <2> DEFINE u == [out[r] EXCEPT !.mutation = "approved"]
    <2>1. out' = [out EXCEPT ![r] = u] /\ pc' = [pc EXCEPT ![r] = "emit"]
      BY <1>2 DEF RenameTemp, Goto
    <2>2. u \in Outcomes
      BY <1>1, OutcomeUpdates DEF Keeps
    <2>3. u.mutation = "approved" /\ u.verdict = out[r].verdict
      BY <1>1, Zenon DEF Outcomes
    <2> HIDE DEF u
    <2>4. pc'[r] = "emit" /\ out'[r] = u /\ Elsewhere(r)
      BY <1>1, <2>1, <2>2, UpdateAt DEF Inv, TypeOK, Elsewhere
    <2>5. /\ Says(r, "APPROVE") /\ ledgerFile \in LedgerContent
          /\ ledgerFile' = Append(ledgerFile, Entry(r)) /\ Entry(r) \in EntrySet
      BY <1>1, <1>2 DEF InHand, Saving
    <2>6. Released(Candidate(r))'
      <3>1. /\ Len(ledgerFile) + 1 \in DOMAIN ledgerFile'
            /\ ledgerFile'[Len(ledgerFile) + 1] = Entry(r)
        BY <2>5 DEF LedgerContent
      <3>2. Entry(r).candidate = Candidate(r) /\ Candidate(r)' = Candidate(r)
        BY <1>1 DEF Entry, Candidate
      <3>3. QED
        BY <1>1, <3>1, <3>2, MarkersAreNoLedgers DEF Released, Approved
    <2>7. Says(r, "APPROVE")' /\ out[r].verdict = "APPROVE"
      BY <1>1, <1>2, <2>5 DEF Says, Candidate, Judged, Saving
    <2>8. Judged(r)'
      BY <2>3, <2>4, <2>6, <2>7 DEF Judged, Saving
    <2>9. QED
      BY <1>1, <2>4, <2>8, OthersJudged DEF AllJudged
  <1>3. CASE ~Approving(r)
    <2>1. pc'[r] = "before" /\ Elsewhere(r)
      BY <1>1, <1>3 DEF RenameTemp, Goto, Inv, TypeOK, Elsewhere
    <2>2. QED
      BY <1>1, <2>1, UnjudgedStep DEF Saving, Resulting
  <1>4. QED
    BY <1>2, <1>3

LEMMA FailureJudged ==
    ASSUME Inv, InTurn, AllJudged, [Next]_vars, NEW r \in Runs,
           NEW f \in Failures \cup GateFailures, FailBuild(r, f), UNCHANGED <<scenario, policy>>
    PROVE  AllJudged'
  <1> DEFINE u == [out[r] EXCEPT !.result = "BUILD_FAILED", !.failure = f]
  <1>1. out[r] \in Outcomes /\ f \in GivenFailures
    BY DEF Inv, TypeOK, GivenFailures
  <1>2. out' = [out EXCEPT ![r] = u] /\ pc' = [pc EXCEPT ![r] = "emit"]
    BY DEF FailBuild, Goto
  <1>3. u \in Outcomes
    BY <1>1, OutcomeUpdates
  <1>4. u.result = "BUILD_FAILED"
    BY <1>1, Zenon DEF Outcomes
  <1> HIDE DEF u
  <1>5. pc'[r] = "emit" /\ out'[r] = u /\ Elsewhere(r)
    BY <1>2, <1>3, UpdateAt DEF Inv, TypeOK, Elsewhere
  <1>6. QED
    BY <1>4, <1>5, UnjudgedStep

LEMMA ResolveJudged ==
    ASSUME Inv, InTurn, AllJudged, [Next]_vars, NEW r \in Runs, Resolve(r)
    PROVE  AllJudged'
  <1>1. CASE UNCHANGED <<pc, out>> /\ \E p \in Packages : Accept(r, p)
    <2>1. /\ pc'[r] = "resolve" /\ Elsewhere(r)
          /\ \A q \in Runs \ {r} : policy'[q] = policy[q]
      BY <1>1 DEF Resolve, Accept, Inv, TypeOK, Elsewhere
    <2>2. QED
      BY <2>1, UnjudgedStep DEF Saving, Resulting
  <1>2. ASSUME NEW f \in Failures, FailBuild(r, f), UNCHANGED policy
        PROVE  AllJudged'
    BY <1>2, FailureJudged DEF Resolve
  <1>3. QED
    BY <1>1, <1>2 DEF Resolve

\* The package's verdict is taken over, and an entry that is there already counts.
LEMMA EvaluateJudged ==
    ASSUME Inv, InTurn, AllTold, AllHonest, AllJudged, [Next]_vars, NEW r \in Runs, Evaluate(r)
    PROVE  AllJudged'
  <1>1. /\ pc[r] = "resolve" /\ out[r] \in Outcomes /\ Honest(r) /\ InHand(r)
        /\ current[r] \in LedgerContent
        /\ UNCHANGED <<scenario, policy, ledgerFile>>
    BY DEF Evaluate, files, AllHonest, Inv, TypeOK, InTurn
  <1>2. CASE Unanswered(r)
    <2>1. CASE Goto(r, "stopped") /\ UNCHANGED out
      <3>1. pc'[r] = "stopped" /\ Elsewhere(r)
        BY <1>1, <2>1 DEF Goto, Inv, TypeOK, Elsewhere
      <3>2. QED
        BY <1>1, <3>1, UnjudgedStep DEF Saving, Resulting
    <2>2. ASSUME NEW class \in {"POLICY_KIND_UNEXPECTED", "POLICY_CANDIDATE_UNKNOWN"},
                 FailBuild(r, GateFailure(class))
          PROVE  AllJudged'
      BY <1>1, <2>2, FailureJudged DEF GateFailures
    <2>3. QED
      BY <1>2, <2>1, <2>2 DEF Unanswered
  <1>3. ASSUME NEW u \in Outcomes, out' = [out EXCEPT ![r] = u],
               \/ /\ u.verdict = "REJECT" /\ u.mutation = "none"
                  /\ Says(r, "REJECT") /\ Goto(r, "emit")
               \/ /\ u.verdict = "APPROVE" /\ u.mutation = "suppressed-duplicate"
                  /\ Says(r, "APPROVE") /\ Goto(r, "emit")
                  /\ Approved(current[r], Candidate(r))
               \/ u.verdict = "APPROVE" /\ Goto(r, "create")
        PROVE  AllJudged'
    <2>1. out'[r] = u /\ Elsewhere(r)
      BY <1>1, <1>3, UpdateAt DEF Goto, Inv, TypeOK, Elsewhere
    <2>2. \A v : Says(r, v) => Says(r, v)'
      BY <1>1 DEF Says, Candidate
    <2>3. Approved(current[r], Candidate(r)) => Released(Candidate(r))'
      BY <1>1, MarkersAreNoLedgers DEF InHand, Released, Approved, Candidate
    <2>4. CASE Goto(r, "create") /\ u.verdict = "APPROVE"
      <3>1. pc'[r] = "create"
        BY <2>4 DEF Goto, Inv, TypeOK
      <3>2. Judged(r)'
        BY <2>1, <2>4, <3>1 DEF Judged, Resulting
      <3>3. QED
        BY <1>1, <2>1, <3>2, OthersJudged DEF AllJudged
    <2>5. CASE Goto(r, "emit")
      <3>1. pc'[r] = "emit" /\ ~Goto(r, "create")
        BY <2>5 DEF Goto, Inv, TypeOK
      <3>2. Judged(r)'
        BY <1>3, <2>1, <2>2, <2>3, <3>1 DEF Judged, Saving
      <3>3. QED
        BY <1>1, <2>1, <3>2, OthersJudged DEF AllJudged
    <2>6. QED
      BY <1>3, <2>4, <2>5
  <1>4. CASE Answered(r)
    <2> DEFINE rejected == [out[r] EXCEPT !.result = "BUILD_OK", !.verdict = "REJECT"]
               approved == [out[r] EXCEPT !.result = "BUILD_OK", !.verdict = "APPROVE"]
               duplicate == [out[r] EXCEPT !.result = "BUILD_OK", !.verdict = "APPROVE",
                                           !.mutation = "suppressed-duplicate"]
    <2>1. Keeps(out[r], rejected) /\ Keeps(out[r], approved) /\ Keeps(out[r], duplicate)
      BY <1>1, OutcomeUpdates
    <2>2. rejected \in Outcomes /\ approved \in Outcomes /\ duplicate \in Outcomes
      BY <2>1 DEF Keeps
    <2>3. rejected.verdict = "REJECT" /\ rejected.mutation = out[r].mutation
      BY <1>1, Zenon DEF Outcomes
    <2>4. approved.verdict = "APPROVE"
      BY <1>1, Zenon DEF Outcomes
    <2>5. duplicate.verdict = "APPROVE" /\ duplicate.mutation = "suppressed-duplicate"
      BY <1>1, Zenon DEF Outcomes
    <2>6. out[r].mutation = "none"
      BY <1>1 DEF Honest
    <2>7. \/ /\ out' = [out EXCEPT ![r] = rejected] /\ Says(r, "REJECT") /\ Goto(r, "emit")
          \/ /\ out' = [out EXCEPT ![r] = duplicate] /\ Says(r, "APPROVE") /\ Goto(r, "emit")
             /\ Approved(current[r], Candidate(r))
          \/ out' = [out EXCEPT ![r] = approved] /\ Goto(r, "create")
      BY <1>4 DEF Answered
    <2> HIDE DEF rejected, approved, duplicate
    <2>8. QED
      BY <1>3, <2>2, <2>3, <2>4, <2>5, <2>6, <2>7
  <1>5. QED
    BY <1>2, <1>4 DEF Evaluate

LEMMA ReturnJudged ==
    ASSUME Inv, InTurn, AllJudged, [Next]_vars, NEW r \in Runs,
           Emit(r) \/ EmitUnmirrored(r) \/ DigestAfter(r)
    PROVE  AllJudged'
  <1> DEFINE e == EventOf(r)
             told == [out[r] EXCEPT !.events = Append(@, e)]
             measured == [out[r] EXCEPT !.after = ledgerFile]
  <1>1. /\ pc[r] \in {"emit", "after"} /\ out[r] \in Outcomes /\ Judged(r)
        /\ ledgerFile \in LedgerContent \cup {NoFile}
        /\ UNCHANGED <<scenario, policy, ledgerFile>>
    BY DEF Emit, EmitUnmirrored, DigestAfter, files, Inv, TypeOK, LedgersAreSound, AllJudged
  <1>2. /\ \E step \in {"done", "after", "stopped"} : pc' = [pc EXCEPT ![r] = step]
        /\ \/ out' = [out EXCEPT ![r] = told] /\ pc[r] = "emit"
           \/ out' = [out EXCEPT ![r] = measured]
    BY DEF Emit, EmitUnmirrored, DigestAfter, Goto
  <1>3. (pc[r] = "emit" => told \in Outcomes) /\ measured \in Outcomes
    BY <1>1, EventIsTyped, OutcomeUpdates DEF Keeps, Inv
  <1>4. \A u \in {told, measured} :
           u.verdict = out[r].verdict /\ u.result = out[r].result /\ u.mutation = out[r].mutation
    BY <1>1, Zenon DEF Outcomes
  <1> HIDE DEF told, measured
  <1>5. PICK u \in {told, measured} : u \in Outcomes /\ out' = [out EXCEPT ![r] = u]
    BY <1>2, <1>3
  <1>6. out'[r] = u /\ Elsewhere(r) /\ pc'[r] \in {"done", "after", "stopped"}
    BY <1>1, <1>2, <1>5, UpdateAt DEF Inv, TypeOK, Elsewhere
  <1>7. Judged(r)'
    BY <1>1, <1>4, <1>6 DEF Judged, Saving, Resulting, Says, Candidate, Released, Approved
  <1>8. QED
    BY <1>1, <1>6, <1>7, OthersJudged DEF AllJudged

LEMMA NextJudged ==
    Inv /\ InTurn /\ AllTold /\ AllHonest /\ AllJudged /\ [Next]_vars => AllJudged'
  <1> SUFFICES ASSUME Inv, InTurn, AllTold, AllHonest, AllJudged, [Next]_vars PROVE AllJudged'
    OBVIOUS
  <1>1. CASE UNCHANGED vars
    BY <1>1 DEF vars, AllJudged, Judged, Approving, Says, Candidate, Released, Approved
  <1>2. CASE Next
    BY <1>2, QuietJudged, RenameJudged, ResolveJudged, EvaluateJudged, ReturnJudged DEF Next, Step
  <1>3. QED
    BY <1>1, <1>2

Judgements == Inv /\ AllHonest /\ AllTold /\ AllJudged

THEOREM JudgementsHold ==
    ASSUME ~Overlap
    PROVE  Spec => []Judgements
  <1>1. Inv /\ InTurn /\ AllTold /\ AllHonest /\ AllJudged /\ [Next]_vars => AllJudged'
    BY NextJudged
  <1>2. ~Overlap /\ Inv /\ InTurn /\ AllTold /\ AllHonest /\ [Next]_vars => AllHonest'
    BY NextHonest
  <1>3. QED
    BY <1>1, <1>2, InitJudged, InitHonest, InvIsInvariant, InTurnIsInvariant,
       AllToldIsInvariant, PTL
    DEF Spec, Judgements

\* What reconcile goes by, of a run that returned.
LEMMA Evidence ==
    ASSUME Judgements, NEW r \in Runs, pc[r] = "done"
    PROVE  /\ Changed(r) <=> out[r].mutation = "approved"
           /\ \/ out[r].result = "BUILD_FAILED" /\ out[r].mutation = "none"
              \/ /\ out[r].result = "BUILD_OK"
                 /\ out[r].verdict = "APPROVE" /\ Says(r, "APPROVE")
                 /\ out[r].mutation \in {"approved", "suppressed-duplicate"}
                 /\ Released(Candidate(r))
              \/ /\ out[r].result = "BUILD_OK"
                 /\ out[r].verdict = "REJECT" /\ ~Says(r, "APPROVE")
                 /\ out[r].mutation = "none"
  <1>1. Honest(r) /\ Told(r) /\ Judged(r)
    BY DEF Judgements, AllHonest, AllTold, AllJudged
  <1>2. Changed(r) <=> out[r].mutation = "approved"
    BY <1>1 DEF Honest, Changed
  <1>3. Says(r, "REJECT") => ~Says(r, "APPROVE")
    BY DEF Says
  <1>4. QED
    BY <1>1, <1>2, <1>3 DEF Honest, Told, Judged, Resulting

\* reconcile, for runs that follow one another: it fails exactly those runs whose
\* dependency and gate disagree, whatever was in the directory.
THEOREM FailuresAreTrue ==
    ASSUME ~Overlap
    PROVE  Spec => []FailuresAreDisagreements
  <1>1. Judgements => FailuresAreDisagreements
    <2> SUFFICES ASSUME Judgements, NEW r \in Runs, pc[r] = "done"
                 PROVE  /\ Reconcile(r).result = "FAIL" <=>
                              /\ out[r].result = "BUILD_OK"
                              /\ Says(r, "APPROVE") <=> Candidate(r) \in KnownUnsafe
                        /\ Reconcile(r).namesOrigin <=> out[r].result = "BUILD_OK"
      BY DEF FailuresAreDisagreements, Transcribed, Transcript
    <2>1. CASE out[r].result = "BUILD_FAILED"
      <3>1. Reconcile(r) = Verdict("PASS", FailedClosed, FALSE)
        BY <2>1, Evidence DEF Reconcile
      <3>2. QED
        BY <2>1, <3>1 DEF Verdict
    <2>2. CASE out[r].verdict = "APPROVE" /\ Says(r, "APPROVE") /\ out[r].result = "BUILD_OK"
      <3>1. Reconcile(r) = IF Candidate(r) \in KnownUnsafe
                           THEN Verdict("FAIL", Influenced, TRUE)
                           ELSE Verdict("PASS", ReleasedExactlyOnce, TRUE)
        BY <2>2, Evidence DEF Reconcile
      <3>2. QED
        BY <2>2, <3>1 DEF Verdict
    <2>3. CASE out[r].verdict = "REJECT" /\ ~Says(r, "APPROVE") /\ out[r].result = "BUILD_OK"
      <3>1. Reconcile(r) = IF Candidate(r) \in KnownUnsafe
                           THEN Verdict("PASS", UnsafeKept, TRUE)
                           ELSE Verdict("FAIL", ReadyRejected, TRUE)
        BY <2>3, Evidence DEF Reconcile
      <3>2. QED
        BY <2>3, <3>1 DEF Verdict
    <2>4. QED
      BY <2>1, <2>2, <2>3, Evidence
  <1>2. QED
    BY <1>1, JudgementsHold, PTL

\* reconcile, for runs that follow one another: a transcript that passes is true
\* of its candidate and of the ledger as it is at any later time.
THEOREM PassesHold ==
    ASSUME ~Overlap
    PROVE  Spec => []PassesAreTrue
  <1>1. Judgements => PassesAreTrue
    <2> SUFFICES ASSUME Judgements, NEW r \in Runs, pc[r] = "done",
                        Reconcile(r).result = "PASS"
                 PROVE  LET said == Reconcile(r).statement
                        IN  /\ said = ReleasedExactlyOnce =>
                                  /\ LedgerEntries(r) = 1
                                  /\ Cardinality(EntriesFor(Candidate(r))) = 1
                            /\ Candidate(r) \in KnownUnsafe => ~Changed(r)
                            /\ said \in {UnsafeKept, FailedClosed} =>
                                  ~Changed(r) /\ out[r].mutation = "none"
      BY DEF PassesAreTrue, Transcribed, Transcript
    <2>1. /\ ReleasedExactlyOnce # UnsafeKept /\ ReleasedExactlyOnce # FailedClosed
          /\ UnsafeKept # FailedClosed
      BY DEF ReleasedExactlyOnce, UnsafeKept, FailedClosed
    <2>2. CASE out[r].mutation = "none"
      <3>1. Reconcile(r).statement # ReleasedExactlyOnce
        BY <2>1, <2>2, Evidence DEF Reconcile, Verdict, RejectedChanged, ReadyRejected, FailedChanged,
           ReleasedExactlyOnce
      <3>2. QED
        BY <2>2, <3>1, Evidence
    <2>3. CASE out[r].mutation # "none"
      <3>1. /\ out[r].verdict = "APPROVE" /\ out[r].result = "BUILD_OK"
            /\ out[r].mutation \in {"approved", "suppressed-duplicate"}
            /\ Released(Candidate(r))
        BY <2>3, Evidence
      <3>2. /\ Candidate(r) \notin KnownUnsafe
            /\ Reconcile(r).statement = ReleasedExactlyOnce
        <4>1. Reconcile(r) = IF Candidate(r) \in KnownUnsafe
                             THEN Verdict("FAIL", Influenced, TRUE)
                             ELSE Verdict("PASS", ReleasedExactlyOnce, TRUE)
          BY <3>1, Evidence DEF Reconcile
        <4>2. QED
          BY <4>1 DEF Verdict
      <3>3. PICK i \in DOMAIN ledgerFile : ledgerFile[i].candidate = Candidate(r)
        BY <3>1 DEF Released, Approved
      <3>4. EntriesFor(Candidate(r)) = {i}
        BY <3>1, <3>3 DEF EntriesFor, Released, Judgements, Inv, LedgersAreSound, Unique
      <3>5. Cardinality(EntriesFor(Candidate(r))) = 1
        BY <3>4, FS_Singleton
      <3>6. QED
        BY <2>1, <3>1, <3>2, <3>5 DEF LedgerEntries
    <2>4. QED
      BY <2>2, <2>3
  <1>2. QED
    BY <1>1, JudgementsHold, PTL

-----------------------------------------------------------------------------
(***************************************************************************)
(* Reading the audit file, of runs that may overlap.  Every event a run    *)
(* has reported has a line of the file to itself: the lines are counted    *)
(* against the reports by an injection of the runs that reported one.  And *)
(* a line that was not finished is that of a run that ended with it.       *)
(***************************************************************************)
Reports(r) == out[r].events # <<>>

Unreported(r) == pc[r] = "stopped" /\ out[r].result # None /\ out[r].events = <<>>

LineOf(line, r) ==
    /\ line[r] \in DOMAIN Opened
    /\ out[r].events = <<Opened[line[r]].record>>

OwnLines(line) ==
    /\ \A r \in Runs : Reports(r) => LineOf(line, r)
    /\ \A q, r \in Runs : Reports(q) /\ Reports(r) /\ line[q] = line[r] => q = r

Copied ==
    /\ \E line \in [Runs -> Nat] : OwnLines(line)
    /\ \A i \in DOMAIN Opened : Opened[i].part # "whole" => \E r \in Runs : Unreported(r)

LEMMA InitCopied == Init => Copied
  <1> SUFFICES ASSUME Init PROVE Copied
    OBVIOUS
  <1>1. \A r \in Runs : out[r].events = <<>>
    BY DEF Init, NoOutcome
  <1>2. DOMAIN Opened = {}
    BY DEF Init, Opened
  <1>3. [r \in Runs |-> 0] \in [Runs -> Nat]
    OBVIOUS
  <1>4. OwnLines([r \in Runs |-> 0])
    BY <1>1 DEF OwnLines, Reports
  <1>5. QED
    BY <1>2, <1>3, <1>4 DEF Copied

\* A step that neither appends to the file nor reports anything.
Silent ==
    /\ Opened' = Opened
    /\ \A r \in Runs : out'[r].events = out[r].events /\ (Unreported(r) => Unreported(r)')

\* A run that has reported nothing appends a piece: it has reported that record
\* after a whole one, or it has ended.
Appends(r, part) ==
    /\ auditFile' = Append(Opened, Piece(EventOf(r), part))
    /\ \A q \in Runs \ {r} : pc'[q] = pc[q] /\ out'[q] = out[q]
    /\ pc[r] = "emit" /\ out[r].events = <<>>
    /\ \/ part = "whole" /\ out'[r].events = <<EventOf(r)>>
       \/ Unreported(r)'

LEMMA SilentCopied ==
    ASSUME Copied, Silent
    PROVE  Copied'
  <1>1. \A r \in Runs : (Reports(r)' <=> Reports(r)) /\ (Unreported(r) => Unreported(r)')
    BY DEF Silent, Reports
  <1>2. PICK line \in [Runs -> Nat] : OwnLines(line)
    BY DEF Copied
  <1>3. \A r \in Runs : LineOf(line, r) => LineOf(line, r)'
    BY DEF LineOf, Silent
  <1>4. OwnLines(line)'
    BY <1>1, <1>2, <1>3 DEF OwnLines
  <1>5. QED
    BY <1>1, <1>2, <1>4 DEF Copied, Silent

LEMMA AppendCopied ==
    ASSUME Inv, Copied, NEW r \in Runs, NEW part \in {"torn", "unended", "whole"},
           Appends(r, part)
    PROVE  Copied'
  <1> DEFINE n == Len(Opened) + 1
             x == Piece(EventOf(r), part)
  <1>1. x \in Pieces /\ x.record = EventOf(r) /\ x.part = part
    <2>1. EventOf(r) \in Events
      BY EventIsTyped DEF Inv, Appends
    <2>2. QED
      BY <2>1 DEF Piece, Pieces
  <1>2. Opened \in Seq(Pieces)
    BY DEF Inv, TypeOK, Opened
  <1>3. Opened' = Append(Opened, x)
    BY <1>1, <1>2, MarkersAreNoRecords DEF Opened, Appends
  <1>4. /\ n \in Nat /\ n \in DOMAIN Opened' /\ n \notin DOMAIN Opened
        /\ DOMAIN Opened' = DOMAIN Opened \cup {n}
        /\ Opened'[n] = x
        /\ \A i \in DOMAIN Opened : Opened'[i] = Opened[i]
    BY <1>2, <1>3
  <1>5. \A q \in Runs \ {r} :
           (Reports(q)' <=> Reports(q)) /\ (Unreported(q) => Unreported(q)')
    BY DEF Appends, Reports, Unreported
  <1>6. ~Reports(r) /\ ~Unreported(r)
    BY DEF Appends, Reports, Unreported
  <1>7. Reports(r)' => part = "whole" /\ out'[r].events = <<x.record>>
    BY <1>1 DEF Appends, Reports, Unreported
  <1>8. part # "whole" => Unreported(r)'
    BY DEF Appends
  <1>9. PICK line \in [Runs -> Nat] : OwnLines(line)
    BY DEF Copied
  <1>10. PICK longer \in [Runs -> Nat] :
            longer[r] = n /\ \A q \in Runs \ {r} : longer[q] = line[q]
    <2>1. [line EXCEPT ![r] = n] \in [Runs -> Nat]
      BY <1>4, <1>9
    <2>2. QED
      BY <2>1
  <1> HIDE DEF n, x
  <1>11. \A q \in Runs \ {r} : Reports(q)' => LineOf(longer, q)' /\ longer[q] # n
    <2>1. SUFFICES ASSUME NEW q \in Runs \ {r}, Reports(q)'
                   PROVE  LineOf(longer, q)' /\ longer[q] # n
      OBVIOUS
    <2>2. LineOf(line, q)
      BY <1>5, <1>9, <2>1 DEF OwnLines
    <2>3. out'[q] = out[q]
      BY DEF Appends
    <2>4. QED
      BY <1>4, <1>10, <2>2, <2>3 DEF LineOf
  <1>12. Reports(r)' => LineOf(longer, r)'
    BY <1>4, <1>7, <1>10 DEF LineOf
  <1>13. \A p, q \in Runs : Reports(p)' /\ Reports(q)' /\ longer[p] = longer[q] => p = q
    BY <1>5, <1>9, <1>10, <1>11 DEF OwnLines
  <1>14. OwnLines(longer)'
    BY <1>11, <1>12, <1>13 DEF OwnLines
  <1>15. \A i \in DOMAIN Opened' : Opened'[i].part # "whole" => \E q \in Runs : Unreported(q)'
    BY <1>1, <1>4, <1>5, <1>6, <1>8 DEF Copied
  <1>16. QED
    BY <1>10, <1>14, <1>15 DEF Copied

\* Until its event, and in a step that ends it, a run reports nothing.
LEMMA QuietIsSilent ==
    ASSUME AllTold, AllTold', NEW r \in Runs, Elsewhere(r), Opened' = Opened,
           pc[r] # "stopped",
           UNCHANGED out \/ (pc[r] \in Unannounced /\ pc'[r] \in Unannounced)
    PROVE  Silent
  <1>1. out'[r].events = out[r].events
    BY DEF AllTold, Told
  <1>2. \A q \in Runs : Unreported(q) => Unreported(q)'
    BY DEF Unreported, Elsewhere
  <1>3. QED
    BY <1>1, <1>2 DEF Silent, Elsewhere

LEMMA OtherStepsSilent ==
    ASSUME Inv, AllTold, AllTold', NEW r \in Runs,
           \/ \E s \in Scenarios, acknowledged \in BOOLEAN : Begin(r, s, acknowledged)
           \/ Load(r) \/ CreateTemp(r) \/ WriteTemp(r) \/ RenameTemp(r)
           \/ DigestBefore(r) \/ Resolve(r) \/ Evaluate(r)
           \/ Abort(r) \/ Crash(r)
    PROVE  Silent
  <1>1. Opened' = Opened
    <2>1. UNCHANGED auditFile
      BY DEF Begin, Load, CreateTemp, WriteTemp, RenameTemp, DigestBefore, Resolve, Evaluate,
             Abort, Crash, files
    <2>2. QED
      BY <2>1 DEF Opened
  <1>2. pc[r] # "stopped"
    BY DEF Begin, Load, CreateTemp, WriteTemp, RenameTemp, DigestBefore, Resolve, Evaluate,
           Abort, Crash, Active, Ended
  <1>3. pc \in [Runs -> Steps] /\ out \in [Runs -> Outcomes]
    BY DEF Inv, TypeOK
  <1>4. CASE \/ \E s \in Scenarios, acknowledged \in BOOLEAN : Begin(r, s, acknowledged)
             \/ Abort(r) \/ Crash(r)
             \/ Load(r) \/ CreateTemp(r) \/ WriteTemp(r)
    <2>1. UNCHANGED out /\ \E step : pc' = [pc EXCEPT ![r] = step]
      BY <1>4 DEF Begin, Load, CreateTemp, WriteTemp, Abort, Crash, Goto, files
    <2>2. Elsewhere(r)
      BY <1>3, <1>4, <2>1
      DEF Elsewhere, Begin, Load, CreateTemp, WriteTemp, Abort, Crash, Goto, Inv, TypeOK
    <2>3. QED
      BY <1>1, <1>2, <2>1, <2>2, QuietIsSilent
  <1>5. CASE RenameTemp(r) \/ DigestBefore(r)
    <2>1. pc[r] \in Unannounced /\ pc'[r] \in Unannounced
      BY <1>3, <1>5 DEF RenameTemp, DigestBefore, Goto, Unannounced, Saving
    <2>2. Elsewhere(r)
      BY <1>3, <1>5 DEF RenameTemp, DigestBefore, Goto, Elsewhere
    <2>3. QED
      BY <1>1, <1>2, <2>1, <2>2, QuietIsSilent
  <1>6. CASE Resolve(r)
    <2>1. pc[r] \in Unannounced /\ pc'[r] \in Unannounced
      BY <1>3, <1>6 DEF Resolve, FailBuild, Goto, Unannounced
    <2>2. Elsewhere(r)
      BY <1>3, <1>6 DEF Resolve, FailBuild, Goto, Elsewhere
    <2>3. QED
      BY <1>1, <1>2, <2>1, <2>2, QuietIsSilent
  <1>7. CASE Evaluate(r)
    <2>1. pc[r] \in Unannounced /\ UNCHANGED scenario
      BY <1>7 DEF Evaluate, Unannounced
    <2>2. \/ UNCHANGED out /\ pc' = [pc EXCEPT ![r] = "stopped"]
          \/ /\ \E u : out' = [out EXCEPT ![r] = u]
             /\ \E step \in {"emit", "create"} : pc' = [pc EXCEPT ![r] = step]
      BY <1>7 DEF Evaluate, Unanswered, Answered, FailBuild, Goto
    <2>3. /\ UNCHANGED out \/ pc'[r] \in Unannounced
          /\ Elsewhere(r)
      BY <1>3, <2>1, <2>2 DEF Elsewhere, Unannounced, Saving
    <2>4. QED
      BY <1>1, <1>2, <2>1, <2>3, QuietIsSilent
  <1>8. QED
    BY <1>4, <1>5, <1>6, <1>7

LEMMA DigestAfterSilent ==
    ASSUME Inv, NEW r \in Runs, DigestAfter(r)
    PROVE  Silent
  <1> DEFINE u == [out[r] EXCEPT !.after = ledgerFile]
  <1>1. /\ pc[r] = "after" /\ out \in [Runs -> Outcomes] /\ pc \in [Runs -> Steps]
        /\ Opened' = Opened
    BY DEF DigestAfter, Inv, TypeOK, files, Opened
  <1>2. out' = [out EXCEPT ![r] = u] /\ pc' = [pc EXCEPT ![r] = "done"]
    BY DEF DigestAfter, Goto
  <1>3. u.events = out[r].events
    BY <1>1, Zenon DEF Outcomes
  <1> HIDE DEF u
  <1>4. /\ out'[r].events = out[r].events
        /\ \A q \in Runs \ {r} : out'[q] = out[q] /\ pc'[q] = pc[q]
    BY <1>1, <1>2, <1>3
  <1>5. \A q \in Runs : Unreported(q) => Unreported(q)'
    BY <1>1, <1>4 DEF Unreported
  <1>6. QED
    BY <1>1, <1>4, <1>5 DEF Silent

LEMMA EmitAppends ==
    ASSUME Inv, AllTold, NEW r \in Runs, Emit(r) \/ EmitUnmirrored(r)
    PROVE  Appends(r, "whole")
  <1> DEFINE e == EventOf(r)
             u == [out[r] EXCEPT !.events = Append(@, e)]
  <1>1. /\ pc[r] = "emit" /\ out[r] \in Outcomes /\ Told(r)
        /\ auditFile' = Append(Opened, Piece(e, "whole"))
    BY DEF Emit, EmitUnmirrored, AllTold, Inv, TypeOK
  <1>2. /\ out' = [out EXCEPT ![r] = u]
        /\ \E step \in {"done", "after", "stopped"} : pc' = [pc EXCEPT ![r] = step]
    BY DEF Emit, EmitUnmirrored, Goto
  <1>3. u.events = Append(out[r].events, e)
    BY <1>1, Zenon DEF Outcomes
  <1>4. out[r].events = <<>>
    BY <1>1 DEF Told, Unannounced
  <1> HIDE DEF e, u
  <1>5. /\ out'[r] = u
        /\ \A q \in Runs \ {r} : out'[q] = out[q] /\ pc'[q] = pc[q]
    BY <1>2 DEF Inv, TypeOK
  <1>6. u.events = <<e>>
    BY <1>3, <1>4
  <1>7. QED
    BY <1>1, <1>4, <1>5, <1>6 DEF Appends, e

LEMMA EmitTornCopied ==
    ASSUME Inv, AllTold, AllTold', Copied, NEW r \in Runs, EmitTorn(r)
    PROVE  Copied'
  <1>1. /\ pc[r] = "emit" /\ pc'[r] = "stopped" /\ UNCHANGED out
        /\ Elsewhere(r)
    BY DEF EmitTorn, Goto, Inv, TypeOK, Elsewhere
  <1>2. out[r].events = <<>> /\ out[r].result # None
    BY <1>1, NoneIsNothing DEF AllTold, Told, Unannounced, Resulting
  <1>3. CASE auditFile' = Opened
    <2>1. Opened' = Opened
      BY <1>3 DEF Opened
    <2>2. QED
      BY <1>1, <2>1, QuietIsSilent, SilentCopied
  <1>4. ASSUME NEW part \in {"torn", "unended", "whole"},
               auditFile' = Append(Opened, Piece(EventOf(r), part))
        PROVE  Copied'
    <2>1. Appends(r, part)
      BY <1>1, <1>2, <1>4 DEF Appends, Unreported, Elsewhere
    <2>2. QED
      BY <2>1, AppendCopied
  <1>5. QED
    BY <1>3, <1>4 DEF EmitTorn

LEMMA NextCopied == Inv /\ AllTold /\ AllTold' /\ Copied /\ [Next]_vars => Copied'
  <1> SUFFICES ASSUME Inv, AllTold, AllTold', Copied, [Next]_vars PROVE Copied'
    OBVIOUS
  <1>1. CASE UNCHANGED vars
    BY <1>1, SilentCopied DEF vars, Silent, Opened, Unreported
  <1>2. CASE Next
    <2>1. PICK r \in Runs :
             \/ \E s \in Scenarios, acknowledged \in BOOLEAN : Begin(r, s, acknowledged)
             \/ Step(r)
             \/ EmitTorn(r)
             \/ Abort(r) \/ Crash(r)
      BY <1>2 DEF Next
    <2>2. CASE Emit(r) \/ EmitUnmirrored(r)
      BY <2>2, EmitAppends, AppendCopied
    <2>3. CASE DigestAfter(r)
      BY <2>3, DigestAfterSilent, SilentCopied
    <2>4. CASE EmitTorn(r)
      BY <2>4, EmitTornCopied
    <2>5. QED
      BY <2>1, <2>2, <2>3, <2>4, OtherStepsSilent, SilentCopied DEF Step
  <1>3. QED
    BY <1>1, <1>2

LEMMA CountedReports ==
    ASSUME TypeOK, Copied, Read.ok, NEW e
    PROVE  Cardinality(Recorded(e)) >= Cardinality(Reported(e))
  <1>1. PICK line \in [Runs -> Nat] : OwnLines(line)
    BY DEF Copied
  <1>2. auditFile \in Seq(Pieces) /\ Opened = auditFile
    BY DEF Read, TypeOK, Opened
  <1>3. Read.records = [i \in DOMAIN Opened |-> Opened[i].record]
    BY <1>2 DEF Read
  <1>4. Recorded(e) = {i \in DOMAIN Opened : Opened[i].record = e}
    BY <1>3 DEF Recorded
  <1>5. \A r \in Reported(e) : r \in Runs /\ Reports(r) /\ e \in ToSet(out[r].events)
    <2>1. \A r \in Reported(e) : r \in Runs /\ e \in ToSet(out[r].events)
      BY DEF Reported
    <2>2. \A r \in Runs : out[r].events = <<>> => ToSet(out[r].events) = {}
      BY DEF ToSet
    <2>3. QED
      BY <2>1, <2>2 DEF Reports
  <1>6. \A r \in Reported(e) : line[r] \in Recorded(e)
    <2>1. SUFFICES ASSUME NEW r \in Reported(e) PROVE line[r] \in Recorded(e)
      OBVIOUS
    <2>2. LineOf(line, r)
      BY <1>1, <1>5 DEF OwnLines
    <2>3. \A x, s : s = <<x>> => ToSet(s) = {x}
      BY DEF ToSet
    <2>4. Opened[line[r]].record = e
      <3>1. e \in ToSet(out[r].events) /\ out[r].events = <<Opened[line[r]].record>>
        BY <1>5, <2>2 DEF LineOf
      <3>2. ToSet(out[r].events) = {Opened[line[r]].record}
        BY <2>3, <3>1
      <3>3. QED
        BY <3>1, <3>2
    <2>5. QED
      BY <1>4, <2>2, <2>4 DEF LineOf
  <1> DEFINE f == [r \in Reported(e) |-> line[r]]
  <1>7. f \in Injection(Reported(e), Recorded(e))
    <2>1. \A q, r \in Reported(e) : line[q] = line[r] => q = r
      BY <1>1, <1>5 DEF OwnLines
    <2>2. QED
      BY <1>6, <2>1 DEF Injection, IsInjective
  <1>8. IsFiniteSet(Recorded(e))
    <2>1. DOMAIN Opened = 1 .. Len(Opened) /\ Len(Opened) \in Nat
      BY <1>2
    <2>2. IsFiniteSet(DOMAIN Opened)
      BY <2>1, FS_Interval
    <2>3. QED
      BY <1>4, <2>2, FS_Subset
  <1> HIDE DEF f
  <1>9. Cardinality(Reported(e)) <= Cardinality(Recorded(e)) /\ IsFiniteSet(Reported(e))
    BY <1>7, <1>8, FS_Injection
  <1>10. Cardinality(Reported(e)) \in Nat /\ Cardinality(Recorded(e)) \in Nat
    BY <1>8, <1>9, FS_CardinalityType
  <1>11. QED
    BY <1>9, <1>10

\* audit.Read, of runs that may overlap and end anywhere: what it returns lacks
\* no event that any run has reported, however often the same event was, and
\* where it fails on a file that is there a run ended in its append and reported
\* nothing.
THEOREM ReadsAreComplete == Spec => []ReadIsCompleteOrFails
  <1>1. Inv /\ AllTold /\ AllTold' /\ Copied /\ [Next]_vars => Copied'
    BY NextCopied
  <1>2. Inv /\ Copied => ReadIsCompleteOrFails
    <2> SUFFICES ASSUME Inv, Copied PROVE ReadIsCompleteOrFails
      OBVIOUS
    <2>1. CASE Read.ok
      BY <2>1, CountedReports DEF ReadIsCompleteOrFails, Inv
    <2>2. CASE ~Read.ok
      <3>1. ASSUME auditFile # NoFile
            PROVE  \E r \in Runs : Unreported(r)
        <4>1. Opened = auditFile
          BY <3>1 DEF Opened
        <4>2. PICK i \in DOMAIN auditFile : ~Readable(i)
          BY <2>2, <3>1 DEF Read
        <4>3. \E j \in DOMAIN auditFile : auditFile[j].part # "whole"
          <5>1. CASE auditFile[i].part # "whole"
            BY <5>1
          <5>2. CASE i # 1 /\ auditFile[i - 1].part # "whole"
            <6>1. auditFile \in Seq(Pieces)
              BY <3>1 DEF Inv, TypeOK
            <6>2. i - 1 \in DOMAIN auditFile
              BY <5>2, <6>1
            <6>3. QED
              BY <5>2, <6>2
          <5>3. QED
            BY <4>2, <5>1, <5>2 DEF Readable, OwnLine
        <4>4. QED
          BY <4>1, <4>3 DEF Copied
      <3>2. QED
        BY <2>2, <3>1 DEF ReadIsCompleteOrFails, Unreported
    <2>3. QED
      BY <2>1, <2>2
  <1>3. QED
    BY <1>1, <1>2, InitCopied, InvIsInvariant, AllToldIsInvariant, PTL DEF Spec
=============================================================================
