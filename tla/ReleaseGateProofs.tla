------------------------- MODULE ReleaseGateProofs --------------------------
(***************************************************************************)
(* What the release gate keeps of its ledger for any number of runs, any   *)
(* scenarios and packages, with crashes and errors anywhere.               *)
(*                                                                         *)
(* With runs that overlap: the file is never partial and never enters a    *)
(* candidate twice.  With runs that follow one another: it implements      *)
(* ReleaseLedger, and only approvals change it.                            *)
(***************************************************************************)
EXTENDS ReleaseGate, TLAPS

Unique(ledger) ==
    \A i, j \in DOMAIN ledger : ledger[i].candidate = ledger[j].candidate => i = j

\* Every ledger, in memory or on disk, has one entry per candidate.
LedgersAreSound ==
    /\ ledgerFile # Partial
    /\ ledgerFile # NoFile => Unique(ledgerFile)
    /\ \A r \in Runs : Unique(current[r])

Inv == TypeOK /\ LedgersAreSound

-----------------------------------------------------------------------------
\* A candidate that is in no entry can be entered.
LEMMA AppendKeepsUnique ==
    ASSUME NEW ledger \in LedgerContent, NEW e, Unique(ledger),
           ~Approved(ledger, e.candidate)
    PROVE  Unique(Append(ledger, e))
  <1> DEFINE longer == Append(ledger, e)
  <1>1. /\ DOMAIN ledger = 1..Len(ledger)
        /\ Len(ledger) \in Nat
        /\ DOMAIN longer = 1..Len(ledger) + 1
        /\ longer[Len(ledger) + 1] = e
        /\ \A i \in 1..Len(ledger) : longer[i] = ledger[i]
    BY DEF LedgerContent
  <1>2. SUFFICES ASSUME NEW i \in DOMAIN longer, NEW j \in DOMAIN longer,
                        longer[i].candidate = longer[j].candidate
                 PROVE  i = j
    BY DEF Unique
  <1>3. CASE i \in DOMAIN ledger /\ j \in DOMAIN ledger
    BY <1>1, <1>2, <1>3 DEF Unique
  <1>4. CASE i = Len(ledger) + 1 /\ j \in DOMAIN ledger
    BY <1>1, <1>2, <1>4 DEF Approved
  <1>5. CASE i \in DOMAIN ledger /\ j = Len(ledger) + 1
    BY <1>1, <1>2, <1>5 DEF Approved
  <1>6. QED
    BY <1>1, <1>3, <1>4, <1>5

\* What a run enters is an entry.
LEMMA EntryIsTyped ==
    ASSUME TypeOK, NEW r \in Runs, pc[r] = "resolve", Says(r, "APPROVE")
    PROVE  /\ Entry(r) \in EntrySet
           /\ Append(current[r], Entry(r)) \in LedgerContent
  <1>1. scenario[r] \in Scenarios /\ policy[r] \in Packages /\ current[r] \in LedgerContent
    BY DEF TypeOK, Says
  <1>2. Entry(r) \in EntrySet
    BY <1>1 DEF Entry, EntrySet, Candidate, Candidates
  <1>3. QED
    BY <1>1, <1>2 DEF LedgerContent

\* What it announces is an event.
LEMMA EventIsTyped ==
    ASSUME TypeOK, NEW r \in Runs, pc[r] = "emit"
    PROVE  EventOf(r) \in Events
  <1>1. scenario[r] \in Scenarios /\ out[r] \in Outcomes
    BY DEF TypeOK
  <1>2. out[r].failure \in GivenFailures /\ Candidate(r) \in Candidates
    BY <1>1 DEF Outcomes, Candidate, Candidates
  <1>3. QED
    BY <1>2 DEF EventOf, EventNamed, Events

\* The file it is appended to, and what the append leaves of it.
LEMMA AppendIsTyped ==
    ASSUME TypeOK, NEW r \in Runs, pc[r] = "emit"
    PROVE  /\ Opened \in Seq(Pieces)
           /\ \A part \in {"torn", "unended", "whole"} :
                 Append(Opened, Piece(EventOf(r), part)) \in Seq(Pieces)
  <1>1. Opened \in Seq(Pieces)
    BY DEF Opened, TypeOK
  <1>2. \A part \in {"torn", "unended", "whole"} : Piece(EventOf(r), part) \in Pieces
    BY EventIsTyped DEF Piece, Pieces
  <1>3. QED
    BY <1>1, <1>2

-----------------------------------------------------------------------------
\* u is an outcome that agrees with o on what later steps go by.
Keeps(o, u) == u \in Outcomes /\ u.before = o.before /\ u.failure = o.failure

\* Every update the steps make of an outcome.
LEMMA OutcomeUpdates ==
    ASSUME NEW o \in Outcomes
    PROVE  /\ Keeps(o, [o EXCEPT !.mutation = "approved"])
           /\ Keeps(o, [o EXCEPT !.result = "BUILD_OK", !.verdict = "REJECT"])
           /\ Keeps(o, [o EXCEPT !.result = "BUILD_OK", !.verdict = "APPROVE"])
           /\ Keeps(o, [o EXCEPT !.result = "BUILD_OK", !.verdict = "APPROVE",
                                 !.mutation = "suppressed-duplicate"])
           /\ \A e \in Events : Keeps(o, [o EXCEPT !.events = Append(@, e)])
           /\ \A l \in LedgerContent \cup {NoFile} :
                 /\ Keeps(o, [o EXCEPT !.after = l])
                 /\ LET u == [o EXCEPT !.before = l, !.after = l]
                    IN  u \in Outcomes /\ u.before = l /\ u.failure = o.failure
           /\ \A f \in GivenFailures :
                 [o EXCEPT !.result = "BUILD_FAILED", !.failure = f] \in Outcomes
  <1>1. Keeps(o, [o EXCEPT !.mutation = "approved"])
    BY Zenon DEF Outcomes, Keeps
  <1>2. Keeps(o, [o EXCEPT !.result = "BUILD_OK", !.verdict = "REJECT"])
    BY Zenon DEF Outcomes, Keeps
  <1>3. Keeps(o, [o EXCEPT !.result = "BUILD_OK", !.verdict = "APPROVE"])
    BY Zenon DEF Outcomes, Keeps
  <1>4. Keeps(o, [o EXCEPT !.result = "BUILD_OK", !.verdict = "APPROVE",
                           !.mutation = "suppressed-duplicate"])
    BY Zenon DEF Outcomes, Keeps
  <1>5. \A e \in Events : Append(o.events, e) \in Seq(Events)
    BY DEF Outcomes
  <1>6. \A e \in Events : Keeps(o, [o EXCEPT !.events = Append(@, e)])
    BY <1>5, Zenon DEF Outcomes, Keeps
  <1>7. \A l \in LedgerContent \cup {NoFile} : Keeps(o, [o EXCEPT !.after = l])
    BY Zenon DEF Outcomes, Keeps
  <1>8. \A l \in LedgerContent \cup {NoFile} :
           LET u == [o EXCEPT !.before = l, !.after = l]
           IN  u \in Outcomes /\ u.before = l /\ u.failure = o.failure
    BY Zenon DEF Outcomes
  <1>9. \A f \in GivenFailures : [o EXCEPT !.result = "BUILD_FAILED", !.failure = f] \in Outcomes
    BY Zenon DEF Outcomes
  <1>10. QED
    BY <1>1, <1>2, <1>3, <1>4, <1>6, <1>7, <1>8, <1>9, Zenon

LEMMA UpdateAt ==
    ASSUME TypeOK, NEW r \in Runs, NEW u \in Outcomes, out' = [out EXCEPT ![r] = u]
    PROVE  /\ out' \in [Runs -> Outcomes]
           /\ out'[r] = u
           /\ \A q \in Runs \ {r} : out'[q] = out[q]
  BY DEF TypeOK

\* A build that fails, in a step that leaves the rest alone.
LEMMA FailBuildIsTyped ==
    ASSUME TypeOK, NEW r \in Runs, NEW f \in GivenFailures, FailBuild(r, f)
    PROVE  out' \in [Runs -> Outcomes] /\ \A q \in Runs \ {r} : out'[q] = out[q]
  <1> DEFINE u == [out[r] EXCEPT !.result = "BUILD_FAILED", !.failure = f]
  <1>1. u \in Outcomes
    BY OutcomeUpdates DEF TypeOK
  <1>2. out' = [out EXCEPT ![r] = u]
    BY DEF FailBuild
  <1> HIDE DEF u
  <1>3. QED
    BY <1>1, <1>2, UpdateAt

-----------------------------------------------------------------------------
LEMMA InitInv == Init => Inv
  <1> SUFFICES ASSUME Init PROVE Inv
    OBVIOUS
  <1>1. <<>> \in LedgerContent
    BY DEF LedgerContent
  <1>2. NoOutcome \in Outcomes
    BY DEF NoOutcome, Outcomes, GivenFailures, GateFailures
  <1>3. TypeOK
    BY <1>1, <1>2 DEF Init, TypeOK, Steps, Ended
  <1>4. LedgersAreSound
    BY FilesAreDistinct DEF Init, LedgersAreSound, Unique
  <1>5. QED
    BY <1>3, <1>4 DEF Inv

-----------------------------------------------------------------------------
\* Steps that touch no ledger, in memory or on disk.
LEMMA SoundUnchanged ==
    ASSUME LedgersAreSound, UNCHANGED <<current, ledgerFile>>
    PROVE  LedgersAreSound'
  BY DEF LedgersAreSound, Unique

LEMMA BeginKeepsInv ==
    ASSUME Inv, NEW r \in Runs, NEW s \in Scenarios, NEW acknowledged \in BOOLEAN,
           Begin(r, s, acknowledged)
    PROVE  Inv'
  <1>1. TypeOK'
    BY ScenariosHaveDependencies DEF Inv, TypeOK, Begin, Goto, files, Steps, Ended
  <1>2. QED
    BY <1>1, SoundUnchanged DEF Inv, Begin, files

\* A ledger read whole is the run's own from then on.
LEMMA LoadKeepsInv ==
    ASSUME Inv, NEW r \in Runs, Load(r)
    PROVE  Inv'
  <1>1. TypeOK'
    BY DEF Inv, TypeOK, LedgersAreSound, Load, Goto, files, Steps, Ended
  <1>2. LedgersAreSound'
    BY DEF Inv, TypeOK, LedgersAreSound, Unique, Load, files
  <1>3. QED
    BY <1>1, <1>2 DEF Inv

LEMMA CreateTempKeepsInv ==
    ASSUME Inv, NEW r \in Runs, CreateTemp(r)
    PROVE  Inv'
  <1>1. TypeOK'
    BY DEF Inv, TypeOK, CreateTemp, Goto, Steps, Ended
  <1>2. QED
    BY <1>1, SoundUnchanged DEF Inv, CreateTemp

LEMMA WriteTempKeepsInv ==
    ASSUME Inv, NEW r \in Runs, WriteTemp(r)
    PROVE  Inv'
  <1>1. TypeOK'
    BY DEF Inv, TypeOK, WriteTemp, Goto, Steps, Ended
  <1>2. QED
    BY <1>1, SoundUnchanged DEF Inv, WriteTemp

\* What is renamed over the file is all of what the run holds.
LEMMA RenameTempKeepsInv ==
    ASSUME Inv, NEW r \in Runs, RenameTemp(r)
    PROVE  Inv'
  <1>1. /\ ledgerFile' = current[r]
        /\ current[r] \in LedgerContent
        /\ UNCHANGED <<scenario, current, policy, resolved, auditFile>>
    BY DEF Inv, TypeOK, RenameTemp
  <1>2. out' \in [Runs -> Outcomes]
    <2> DEFINE u == [out[r] EXCEPT !.mutation = "approved"]
    <2>1. u \in Outcomes
      BY OutcomeUpdates DEF Inv, TypeOK, Keeps
    <2>2. UNCHANGED out \/ out' = [out EXCEPT ![r] = u]
      BY DEF RenameTemp
    <2> HIDE DEF u
    <2>3. QED
      BY <2>1, <2>2, UpdateAt DEF Inv, TypeOK
  <1>3. TypeOK'
    BY <1>1, <1>2 DEF Inv, TypeOK, RenameTemp, Goto, Steps, Ended
  <1>4. LedgersAreSound'
    BY <1>1, MarkersAreNoLedgers DEF Inv, TypeOK, LedgersAreSound, Unique
  <1>5. QED
    BY <1>3, <1>4 DEF Inv

LEMMA DigestBeforeKeepsInv ==
    ASSUME Inv, NEW r \in Runs, DigestBefore(r)
    PROVE  Inv'
  <1> DEFINE u == [out[r] EXCEPT !.before = ledgerFile, !.after = ledgerFile]
  <1>1. u \in Outcomes
    BY OutcomeUpdates DEF Inv, TypeOK, LedgersAreSound
  <1>2. out' = [out EXCEPT ![r] = u]
    BY DEF DigestBefore
  <1> HIDE DEF u
  <1>3. out' \in [Runs -> Outcomes]
    BY <1>1, <1>2, UpdateAt DEF Inv
  <1>4. TypeOK'
    BY <1>3 DEF Inv, TypeOK, DigestBefore, Goto, files, Steps, Ended
  <1>5. QED
    BY <1>4, SoundUnchanged DEF Inv, DigestBefore, files

\* The build goes on with one dependency more, or ends in a failure.
LEMMA ResolveKeepsInv ==
    ASSUME Inv, NEW r \in Runs, Resolve(r)
    PROVE  Inv'
  <1>1. TypeOK'
    <2>1. CASE /\ \E p \in Packages : Accept(r, p)
               /\ resolved' = [resolved EXCEPT ![r] = @ + 1]
               /\ UNCHANGED <<pc, out>>
      <3>1. policy' \in [Runs -> Packages \cup {None}]
        BY <2>1 DEF Inv, TypeOK, Accept
      <3>2. scenario[r] \in Scenarios /\ Len(scenario[r].deps) \in Nat
        BY ScenariosHaveDependencies DEF Inv, TypeOK, Resolve
      <3>3. /\ resolved' \in [Runs -> Nat]
            /\ resolved'[r] <= Len(scenario[r].deps)
            /\ \A q \in Runs \ {r} : resolved'[q] = resolved[q]
        BY <2>1, <3>2 DEF Inv, TypeOK, Resolve
      <3>4. QED
        BY <2>1, <3>1, <3>3 DEF Inv, TypeOK, Resolve, files
    <2>2. CASE /\ \E f \in Failures : FailBuild(r, f)
               /\ UNCHANGED <<policy, resolved>>
      <3>1. out' \in [Runs -> Outcomes]
        BY <2>2, FailBuildIsTyped DEF Inv, GivenFailures, GateFailures
      <3>2. pc' = [pc EXCEPT ![r] = "emit"]
        BY <2>2 DEF FailBuild, Goto
      <3>3. QED
        BY <2>2, <3>1, <3>2 DEF Inv, TypeOK, Resolve, files, Steps
    <2>3. QED
      BY <2>1, <2>2 DEF Resolve
  <1>2. QED
    BY <1>1, SoundUnchanged DEF Inv, Resolve, files

\* The package is asked; only an approval adds to the ledger in memory, and only
\* of a candidate that is not in it.
LEMMA EvaluateKeepsInv ==
    ASSUME Inv, NEW r \in Runs, Evaluate(r)
    PROVE  Inv'
  <1>1. /\ pc[r] = "resolve"
        /\ UNCHANGED <<scenario, policy, resolved, ledgerFile, temp, auditFile>>
    BY DEF Evaluate, files
  <1>2. out[r] \in Outcomes /\ scenario[r] \in Scenarios
    BY <1>1 DEF Inv, TypeOK
  <1>3. \A class \in {"POLICY_KIND_UNEXPECTED", "POLICY_CANDIDATE_UNKNOWN"} :
           FailBuild(r, GateFailure(class)) => out' \in [Runs -> Outcomes]
    BY FailBuildIsTyped DEF Inv, GivenFailures, GateFailures
  <1>4. CASE Unanswered(r)
    <2>1. out' \in [Runs -> Outcomes]
      BY <1>3, <1>4 DEF Unanswered, Inv, TypeOK
    <2>2. pc' = [pc EXCEPT ![r] = "stopped"] \/ pc' = [pc EXCEPT ![r] = "emit"]
      BY <1>4 DEF Unanswered, FailBuild, Goto
    <2>3. UNCHANGED current
      BY <1>4 DEF Unanswered
    <2>4. TypeOK'
      BY <1>1, <1>2, <2>1, <2>2, <2>3 DEF Inv, TypeOK, Steps, Ended
    <2>5. QED
      BY <1>1, <2>3, <2>4, SoundUnchanged DEF Inv
  <1>5. CASE Answered(r)
    <2>1. out' \in [Runs -> Outcomes]
      <3> DEFINE rejected == [out[r] EXCEPT !.result = "BUILD_OK", !.verdict = "REJECT"]
                 approved == [out[r] EXCEPT !.result = "BUILD_OK", !.verdict = "APPROVE"]
                 duplicate == [out[r] EXCEPT !.result = "BUILD_OK", !.verdict = "APPROVE",
                                             !.mutation = "suppressed-duplicate"]
      <3>1. rejected \in Outcomes /\ approved \in Outcomes /\ duplicate \in Outcomes
        BY <1>2, OutcomeUpdates DEF Keeps
      <3>2. \/ out' = [out EXCEPT ![r] = rejected]
            \/ out' = [out EXCEPT ![r] = approved]
            \/ out' = [out EXCEPT ![r] = duplicate]
        BY <1>5 DEF Answered
      <3> HIDE DEF rejected, approved, duplicate
      <3>3. QED
        BY <3>1, <3>2, UpdateAt DEF Inv
    <2>2. \/ UNCHANGED current /\ pc' = [pc EXCEPT ![r] = "emit"]
          \/ /\ Says(r, "APPROVE")
             /\ ~Approved(current[r], Candidate(r))
             /\ current' = [current EXCEPT ![r] = Append(current[r], Entry(r))]
             /\ pc' = [pc EXCEPT ![r] = "create"]
      BY <1>5 DEF Answered, Goto
    <2>3. CASE UNCHANGED current /\ pc' = [pc EXCEPT ![r] = "emit"]
      <3>1. TypeOK'
        BY <1>1, <1>2, <2>1, <2>3 DEF Inv, TypeOK, Steps, Ended
      <3>2. QED
        BY <1>1, <2>3, <3>1, SoundUnchanged DEF Inv
    <2>4. CASE /\ Says(r, "APPROVE")
               /\ ~Approved(current[r], Candidate(r))
               /\ current' = [current EXCEPT ![r] = Append(current[r], Entry(r))]
               /\ pc' = [pc EXCEPT ![r] = "create"]
      <3> DEFINE longer == Append(current[r], Entry(r))
      <3>1. longer \in LedgerContent
        BY <1>1, <2>4, EntryIsTyped DEF Inv
      <3>2. Unique(longer)
        <4>1. current[r] \in LedgerContent /\ Unique(current[r])
          BY DEF Inv, TypeOK, LedgersAreSound
        <4>2. Entry(r).candidate = Candidate(r)
          BY DEF Entry
        <4>3. QED
          BY <2>4, <4>1, <4>2, AppendKeepsUnique
      <3>3. current' = [current EXCEPT ![r] = longer]
        BY <2>4
      <3> HIDE DEF longer
      <3>4. TypeOK'
        BY <1>1, <1>2, <2>1, <2>4, <3>1, <3>3 DEF Inv, TypeOK, Steps, Ended
      <3>5. LedgersAreSound'
        <4>1. \A q \in Runs : current'[q] = IF q = r THEN longer ELSE current[q]
          BY <3>3 DEF Inv, TypeOK
        <4>2. QED
          BY <1>1, <3>2, <4>1 DEF Inv, LedgersAreSound, Unique
      <3>6. QED
        BY <3>4, <3>5 DEF Inv
    <2>5. QED
      BY <2>2, <2>3, <2>4
  <1>6. QED
    BY <1>4, <1>5 DEF Evaluate

\* Announcing a result, whether or not the mirror takes it.
LEMMA EmitKeepsInv ==
    ASSUME Inv, NEW r \in Runs, Emit(r) \/ EmitUnmirrored(r)
    PROVE  Inv'
  <1> DEFINE u == [out[r] EXCEPT !.events = Append(@, EventOf(r))]
  <1>1. /\ pc[r] = "emit"
        /\ auditFile' = Append(Opened, Piece(EventOf(r), "whole"))
        /\ out' = [out EXCEPT ![r] = u]
        /\ \E step \in Ended \cup {"after"} : pc' = [pc EXCEPT ![r] = step]
        /\ UNCHANGED <<scenario, current, policy, resolved, ledgerFile, temp>>
    BY DEF Emit, EmitUnmirrored, Goto, Ended
  <1>2. EventOf(r) \in Events
    BY <1>1, EventIsTyped DEF Inv
  <1>3. u \in Outcomes
    BY <1>2, OutcomeUpdates DEF Inv, TypeOK, Keeps
  <1> HIDE DEF u
  <1>4. out' \in [Runs -> Outcomes]
    BY <1>1, <1>3, UpdateAt DEF Inv
  <1>5. auditFile' \in Seq(Pieces)
    BY <1>1, AppendIsTyped DEF Inv
  <1>6. TypeOK'
    BY <1>1, <1>4, <1>5 DEF Inv, TypeOK, Steps, Ended
  <1>7. QED
    BY <1>1, <1>6, SoundUnchanged DEF Inv

LEMMA EmitTornKeepsInv ==
    ASSUME Inv, NEW r \in Runs, EmitTorn(r)
    PROVE  Inv'
  <1>1. auditFile' \in Seq(Pieces)
    BY AppendIsTyped DEF Inv, EmitTorn
  <1>2. TypeOK'
    BY <1>1 DEF Inv, TypeOK, EmitTorn, Goto, Steps, Ended
  <1>3. QED
    BY <1>2, SoundUnchanged DEF Inv, EmitTorn

LEMMA DigestAfterKeepsInv ==
    ASSUME Inv, NEW r \in Runs, DigestAfter(r)
    PROVE  Inv'
  <1> DEFINE u == [out[r] EXCEPT !.after = ledgerFile]
  <1>1. u \in Outcomes
    BY OutcomeUpdates DEF Inv, TypeOK, LedgersAreSound, Keeps
  <1>2. out' = [out EXCEPT ![r] = u]
    BY DEF DigestAfter
  <1> HIDE DEF u
  <1>3. out' \in [Runs -> Outcomes]
    BY <1>1, <1>2, UpdateAt DEF Inv
  <1>4. TypeOK'
    BY <1>3 DEF Inv, TypeOK, DigestAfter, Goto, files, Steps, Ended
  <1>5. QED
    BY <1>4, SoundUnchanged DEF Inv, DigestAfter, files

\* An error or a crash leaves the files as they are.
LEMMA StopKeepsInv ==
    ASSUME Inv, NEW r \in Runs, Abort(r) \/ Crash(r)
    PROVE  Inv'
  <1>1. CASE Abort(r)
    <2>1. TypeOK'
      BY <1>1 DEF Inv, TypeOK, Abort, Goto, Active, Steps, Ended
    <2>2. QED
      BY <1>1, <2>1, SoundUnchanged DEF Inv, Abort
  <1>2. CASE Crash(r)
    <2>1. TypeOK'
      BY <1>2 DEF Inv, TypeOK, Crash, Goto, files, Active, Steps, Ended
    <2>2. QED
      BY <1>2, <2>1, SoundUnchanged DEF Inv, Crash, files
  <1>3. QED
    BY <1>1, <1>2

LEMMA NextKeepsInv == Inv /\ [Next]_vars => Inv'
  <1> SUFFICES ASSUME Inv, [Next]_vars PROVE Inv'
    OBVIOUS
  <1>1. CASE UNCHANGED vars
    BY <1>1 DEF vars, Inv, TypeOK, LedgersAreSound, Unique
  <1>2. CASE Next
    <2>1. PICK r \in Runs :
             \/ \E s \in Scenarios, acknowledged \in BOOLEAN : Begin(r, s, acknowledged)
             \/ Step(r)
             \/ EmitTorn(r)
             \/ Abort(r) \/ Crash(r)
      BY <1>2 DEF Next
    <2>2. CASE \E s \in Scenarios, acknowledged \in BOOLEAN : Begin(r, s, acknowledged)
      BY <2>2, BeginKeepsInv
    <2>3. CASE Step(r)
      BY <2>3, LoadKeepsInv, CreateTempKeepsInv, WriteTempKeepsInv, RenameTempKeepsInv,
         DigestBeforeKeepsInv, ResolveKeepsInv, EvaluateKeepsInv, EmitKeepsInv,
         DigestAfterKeepsInv
      DEF Step
    <2>4. CASE EmitTorn(r) \/ Abort(r) \/ Crash(r)
      BY <2>4, EmitTornKeepsInv, StopKeepsInv
    <2>5. QED
      BY <2>1, <2>2, <2>3, <2>4
  <1>3. QED
    BY <1>1, <1>2

\* Types and sound ledgers, for any number of runs, overlapping or not.
THEOREM InvIsInvariant == Spec => []Inv
  BY InitInv, NextKeepsInv, PTL DEF Spec

\* The processes and the two files are well typed.
THEOREM TypeCorrect == Spec => []TypeOK
  <1>1. Inv => TypeOK
    BY DEF Inv
  <1>2. QED
    BY <1>1, InvIsInvariant, PTL

\* ledger.Save: no process, crash or error ever leaves a partial ledger where
\* another process reads it.
THEOREM NoPartialLedger == Spec => []LedgerIsWhole
  <1>1. Inv => LedgerIsWhole
    BY DEF Inv, LedgersAreSound, LedgerIsWhole
  <1>2. QED
    BY <1>1, InvIsInvariant, PTL

\* Execute's check of the ledger in memory is enough for the one on disk: no
\* candidate is entered twice, even by runs that overlap.
THEOREM NeverReleasedTwice == Spec => []ReleasedOnce
  <1>1. Inv => ReleasedOnce
    BY DEF Inv, LedgersAreSound, ReleasedOnce, Unique
  <1>2. QED
    BY <1>1, InvIsInvariant, PTL

-----------------------------------------------------------------------------
(***************************************************************************)
(* Runs that follow one another.                                           *)
(***************************************************************************)
OneAtATime == \A q, r \in Runs : Active(q) /\ Active(r) => q = r

Saving == {"create", "write", "rename"}

\* What the run under way holds is the ledger file, or that and the one entry it
\* is about to save; a failure is never held at such a point.
InHand(r) ==
    /\ pc[r] \in {"idle", "load"} => current[r] = <<>>
    /\ pc[r] \in {"idle", "load", "before"} => ~Approving(r)
    /\ pc[r] = "resolve" => Approving(r)
    /\ pc[r] \in {"idle", "load", "before", "resolve"} \cup Saving => out[r].failure = None
    /\ pc[r] \in {"before", "resolve"} => ledgerFile = current[r]
    /\ pc[r] \in Saving /\ ~Approving(r) => ledgerFile = NoFile /\ current[r] = <<>>
    /\ pc[r] \in Saving /\ Approving(r) =>
          /\ Says(r, "APPROVE")
          /\ resolved[r] = Len(scenario[r].deps)
          /\ ledgerFile \in LedgerContent
          /\ ~Approved(ledgerFile, Candidate(r))
          /\ Entry(r) \in EntrySet
          /\ current[r] = Append(ledgerFile, Entry(r))

InTurn == OneAtATime /\ \A r \in Runs : InHand(r)

LEMMA InitInTurn == Init => InTurn
  BY DEF Init, InTurn, OneAtATime, Active, InHand, Approving, NoOutcome, Saving

\* Whatever the run under way does with the files, the others hold nothing.
LEMMA OthersInHand ==
    ASSUME Inv, InTurn, NEW r \in Runs, Active(r),
           \A q \in Runs \ {r} :
              pc'[q] = pc[q] /\ current'[q] = current[q] /\ out'[q] = out[q]
    PROVE  OneAtATime' /\ \A q \in Runs \ {r} : InHand(q)'
  <1>1. \A q \in Runs \ {r} : pc[q] \in {"idle"} \cup Ended
    BY DEF InTurn, OneAtATime, Active
  <1>2. OneAtATime'
    BY <1>1 DEF OneAtATime, Active
  <1>3. \A q \in Runs \ {r} : InHand(q)'
    BY <1>1 DEF InTurn, InHand, Approving, Saving, Ended
  <1>4. QED
    BY <1>2, <1>3

LEMMA BeginInTurn ==
    ASSUME ~Overlap, Inv, InTurn, NEW r \in Runs, NEW s \in Scenarios,
           NEW acknowledged \in BOOLEAN, Begin(r, s, acknowledged)
    PROVE  InTurn'
  <1>1. /\ pc[r] = "idle"
        /\ \A q \in Runs : pc[q] \in {"idle"} \cup Ended
        /\ \E step \in {"stopped", "load"} : pc' = [pc EXCEPT ![r] = step]
        /\ UNCHANGED <<current, out>>
    BY DEF Begin, Goto, Active
  <1>2. \A q \in Runs : pc'[q] = pc[q] \/ (q = r /\ pc'[q] \in {"stopped", "load"})
    BY <1>1 DEF Inv, TypeOK
  <1>3. OneAtATime'
    BY <1>1, <1>2 DEF OneAtATime, Active, Ended
  <1>4. \A q \in Runs : InHand(q)'
    BY <1>1, <1>2 DEF InTurn, InHand, Approving, Saving, Ended
  <1>5. QED
    BY <1>3, <1>4 DEF InTurn

LEMMA LoadInTurn ==
    ASSUME Inv, InTurn, NEW r \in Runs, Load(r)
    PROVE  InTurn'
  <1>1. /\ Active(r)
        /\ \A q \in Runs \ {r} :
              pc'[q] = pc[q] /\ current'[q] = current[q] /\ out'[q] = out[q]
    BY DEF Inv, TypeOK, Load, Goto, Active, Ended
  <1>2. InHand(r)'
    BY DEF Inv, TypeOK, InTurn, InHand, Load, Goto, files, Approving, Saving
  <1>3. QED
    BY <1>1, <1>2, OthersInHand DEF InTurn

\* A save under way changes nothing before its rename.
LEMMA SaveInTurn ==
    ASSUME Inv, InTurn, NEW r \in Runs, CreateTemp(r) \/ WriteTemp(r)
    PROVE  InTurn'
  <1>1. /\ pc[r] \in Saving
        /\ pc'[r] \in Saving
        /\ \A q \in Runs \ {r} : pc'[q] = pc[q]
        /\ UNCHANGED <<scenario, current, policy, resolved, out, ledgerFile>>
    BY DEF Inv, TypeOK, CreateTemp, WriteTemp, Goto, Saving
  <1>2. InHand(r)'
    BY <1>1 DEF InTurn, InHand, Approving, Saving, Says, Candidate, Entry, Approved
  <1>3. Active(r)
    BY <1>1 DEF Active, Saving, Ended
  <1>4. QED
    BY <1>1, <1>2, <1>3, OthersInHand DEF InTurn

LEMMA RenameTempInTurn ==
    ASSUME Inv, InTurn, NEW r \in Runs, RenameTemp(r)
    PROVE  InTurn'
  <1>1. Active(r) /\ ledgerFile' = current[r] /\ UNCHANGED current
    BY DEF Inv, TypeOK, RenameTemp, Active, Ended
  <1>2. CASE Approving(r)
    <2> DEFINE u == [out[r] EXCEPT !.mutation = "approved"]
    <2>1. u \in Outcomes
      BY OutcomeUpdates DEF Inv, TypeOK, Keeps
    <2>2. out' = [out EXCEPT ![r] = u] /\ pc' = [pc EXCEPT ![r] = "emit"]
      BY <1>2 DEF RenameTemp, Goto
    <2> HIDE DEF u
    <2>3. /\ pc'[r] = "emit"
          /\ \A q \in Runs \ {r} : pc'[q] = pc[q] /\ out'[q] = out[q]
      BY <2>1, <2>2, UpdateAt DEF Inv, TypeOK
    <2>4. InHand(r)'
      BY <2>3 DEF InHand, Saving
    <2>5. QED
      BY <1>1, <2>3, <2>4, OthersInHand DEF InTurn
  <1>3. CASE ~Approving(r)
    <2>1. pc' = [pc EXCEPT ![r] = "before"] /\ UNCHANGED out
      BY <1>3 DEF RenameTemp, Goto
    <2>2. /\ pc'[r] = "before"
          /\ \A q \in Runs \ {r} : pc'[q] = pc[q]
      BY <2>1 DEF Inv, TypeOK
    <2>3. InHand(r) /\ pc[r] = "rename"
      BY DEF InTurn, RenameTemp
    <2>4. InHand(r)'
      BY <1>1, <1>3, <2>1, <2>2, <2>3 DEF InHand, Approving, Saving
    <2>5. QED
      BY <1>1, <2>1, <2>2, <2>4, OthersInHand DEF InTurn
  <1>4. QED
    BY <1>2, <1>3

LEMMA DigestBeforeInTurn ==
    ASSUME Inv, InTurn, NEW r \in Runs, DigestBefore(r)
    PROVE  InTurn'
  <1> DEFINE u == [out[r] EXCEPT !.before = ledgerFile, !.after = ledgerFile]
  <1>1. InHand(r) /\ pc[r] = "before" /\ current[r] \in LedgerContent
    BY DEF InTurn, DigestBefore, Inv, TypeOK
  <1>2. ledgerFile = current[r] /\ ledgerFile # NoFile
    BY <1>1, MarkersAreNoLedgers DEF InHand
  <1>3. u \in Outcomes /\ u.before = ledgerFile /\ u.failure = out[r].failure
    <2>1. out[r] \in Outcomes /\ ledgerFile \in LedgerContent \cup {NoFile}
      BY <1>1, <1>2 DEF Inv, TypeOK
    <2>2. QED
      BY <2>1, OutcomeUpdates, Zenon
  <1>4. /\ out' = [out EXCEPT ![r] = u]
        /\ pc' = [pc EXCEPT ![r] = "resolve"]
        /\ UNCHANGED <<current, ledgerFile>>
    BY DEF DigestBefore, Goto, files
  <1> HIDE DEF u
  <1>5. /\ out'[r] = u
        /\ pc'[r] = "resolve"
        /\ \A q \in Runs \ {r} : pc'[q] = pc[q] /\ out'[q] = out[q]
    BY <1>3, <1>4, UpdateAt DEF Inv, TypeOK
  <1>6. InHand(r)'
    BY <1>1, <1>2, <1>3, <1>4, <1>5 DEF InHand, Approving, Saving
  <1>7. Active(r)
    BY <1>1 DEF Active, Ended
  <1>8. QED
    BY <1>4, <1>5, <1>6, <1>7, OthersInHand DEF InTurn

LEMMA ResolveInTurn ==
    ASSUME Inv, InTurn, NEW r \in Runs, Resolve(r)
    PROVE  InTurn'
  <1>1. Active(r) /\ pc[r] = "resolve" /\ InHand(r) /\ UNCHANGED <<current, ledgerFile>>
    BY DEF InTurn, Resolve, Active, Ended, files
  <1>2. CASE UNCHANGED <<pc, out>>
    <2>1. InHand(r)'
      BY <1>1, <1>2 DEF InHand, Approving, Saving
    <2>2. QED
      BY <1>1, <1>2, <2>1, OthersInHand DEF InTurn
  <1>3. CASE \E f \in Failures : FailBuild(r, f)
    <2>1. \A q \in Runs \ {r} : out'[q] = out[q]
      BY <1>3, FailBuildIsTyped DEF Inv, GivenFailures, GateFailures
    <2>2. pc'[r] = "emit" /\ \A q \in Runs \ {r} : pc'[q] = pc[q]
      BY <1>3 DEF FailBuild, Goto, Inv, TypeOK
    <2>3. InHand(r)'
      BY <2>2 DEF InHand, Saving
    <2>4. QED
      BY <1>1, <2>1, <2>2, <2>3, OthersInHand DEF InTurn
  <1>4. QED
    BY <1>2, <1>3 DEF Resolve

\* Only an approval of a candidate that is not in the ledger goes on to a save,
\* of the ledger with the run's entry.
LEMMA EvaluateInTurn ==
    ASSUME Inv, InTurn, NEW r \in Runs, Evaluate(r)
    PROVE  InTurn'
  <1>1. /\ pc[r] = "resolve"
        /\ Active(r)
        /\ InHand(r)
        /\ resolved[r] = Len(scenario[r].deps)
        /\ UNCHANGED <<scenario, policy, resolved, ledgerFile>>
    BY DEF InTurn, Evaluate, Active, Ended, files
  <1>2. out[r] \in Outcomes
    BY DEF Inv, TypeOK
  <1>3. CASE Unanswered(r)
    <2>1. \A class \in {"POLICY_KIND_UNEXPECTED", "POLICY_CANDIDATE_UNKNOWN"} :
             FailBuild(r, GateFailure(class)) => \A q \in Runs \ {r} : out'[q] = out[q]
      BY FailBuildIsTyped DEF Inv, GivenFailures, GateFailures
    <2>2. /\ UNCHANGED current
          /\ \E step \in {"stopped", "emit"} : pc' = [pc EXCEPT ![r] = step]
          /\ \A q \in Runs \ {r} : out'[q] = out[q]
      BY <1>3, <2>1 DEF Unanswered, FailBuild, Goto
    <2>3. pc'[r] \in {"stopped", "emit"} /\ \A q \in Runs \ {r} : pc'[q] = pc[q]
      BY <2>2 DEF Inv, TypeOK
    <2>4. InHand(r)'
      BY <2>3 DEF InHand, Saving
    <2>5. QED
      BY <1>1, <2>2, <2>3, <2>4, OthersInHand DEF InTurn
  <1>4. CASE Answered(r)
    <2> DEFINE rejected == [out[r] EXCEPT !.result = "BUILD_OK", !.verdict = "REJECT"]
               approved == [out[r] EXCEPT !.result = "BUILD_OK", !.verdict = "APPROVE"]
               duplicate == [out[r] EXCEPT !.result = "BUILD_OK", !.verdict = "APPROVE",
                                           !.mutation = "suppressed-duplicate"]
    <2>1. Keeps(out[r], rejected) /\ Keeps(out[r], approved) /\ Keeps(out[r], duplicate)
      BY <1>2, OutcomeUpdates
    <2>2. \/ /\ out' = [out EXCEPT ![r] = rejected] \/ out' = [out EXCEPT ![r] = duplicate]
             /\ UNCHANGED current
             /\ pc' = [pc EXCEPT ![r] = "emit"]
          \/ /\ out' = [out EXCEPT ![r] = approved]
             /\ Says(r, "APPROVE")
             /\ ~Approved(current[r], Candidate(r))
             /\ current' = [current EXCEPT ![r] = Append(current[r], Entry(r))]
             /\ pc' = [pc EXCEPT ![r] = "create"]
      BY <1>4 DEF Answered, Goto
    <2> HIDE DEF rejected, approved, duplicate
    <2>3. /\ Keeps(out[r], out'[r])
          /\ \A q \in Runs \ {r} : out'[q] = out[q] /\ pc'[q] = pc[q] /\ current'[q] = current[q]
      BY <2>1, <2>2, UpdateAt DEF Inv, TypeOK, Keeps
    <2>4. InHand(r)'
      <3>1. CASE pc' = [pc EXCEPT ![r] = "emit"]
        <4>1. pc'[r] = "emit"
          BY <3>1 DEF Inv, TypeOK
        <4>2. QED
          BY <4>1 DEF InHand, Saving
      <3>2. CASE /\ Says(r, "APPROVE")
                 /\ ~Approved(current[r], Candidate(r))
                 /\ current' = [current EXCEPT ![r] = Append(current[r], Entry(r))]
                 /\ pc' = [pc EXCEPT ![r] = "create"]
        <4>1. pc'[r] = "create" /\ current'[r] = Append(current[r], Entry(r))
          BY <3>2 DEF Inv, TypeOK
        <4>2. ledgerFile' = current[r] /\ current[r] \in LedgerContent /\ Entry(r) \in EntrySet
          BY <1>1, <3>2, EntryIsTyped DEF InHand, Inv, TypeOK
        <4>3. Approving(r) /\ Approving(r)' /\ out'[r].failure = None
          BY <1>1, <2>3 DEF InHand, Approving, Keeps
        <4>4. /\ Says(r, "APPROVE")'
              /\ Candidate(r)' = Candidate(r)
              /\ Entry(r)' = Entry(r)
          BY <1>1, <3>2 DEF Says, Candidate, Entry
        <4>5. ~Approved(current[r], Candidate(r))
          BY <3>2
        <4>6. QED
          BY <1>1, <4>1, <4>2, <4>3, <4>4, <4>5 DEF InHand, Saving, Approved
      <3>3. QED
        BY <2>2, <3>1, <3>2
    <2>5. QED
      BY <1>1, <2>3, <2>4, OthersInHand DEF InTurn
  <1>5. QED
    BY <1>3, <1>4 DEF Evaluate

\* The steps after the ledger's last change, and those that end a run anywhere.
LEMMA AfterwardsInTurn ==
    ASSUME Inv, InTurn, NEW r \in Runs,
           \/ Emit(r) \/ EmitUnmirrored(r) \/ EmitTorn(r)
           \/ DigestAfter(r)
           \/ Abort(r) \/ Crash(r)
    PROVE  InTurn'
  <1>1. Active(r) /\ UNCHANGED <<current, ledgerFile>>
    BY DEF Emit, EmitUnmirrored, EmitTorn, DigestAfter, Abort, Crash, Active, Ended, files
  <1>2. \E step \in Ended \cup {"after"} : pc' = [pc EXCEPT ![r] = step]
    BY DEF Emit, EmitUnmirrored, EmitTorn, DigestAfter, Abort, Crash, Goto, Ended
  <1>3. pc'[r] \in Ended \cup {"after"} /\ \A q \in Runs \ {r} : pc'[q] = pc[q]
    BY <1>2 DEF Inv, TypeOK
  <1>4. \A q \in Runs \ {r} : out'[q] = out[q]
    BY DEF Emit, EmitUnmirrored, EmitTorn, DigestAfter, Abort, Crash, Inv, TypeOK
  <1>5. InHand(r)'
    BY <1>3 DEF InHand, Saving, Ended
  <1>6. QED
    BY <1>1, <1>3, <1>4, <1>5, OthersInHand DEF InTurn

LEMMA NextInTurn == ~Overlap /\ Inv /\ InTurn /\ [Next]_vars => InTurn'
  <1> SUFFICES ASSUME ~Overlap, Inv, InTurn, [Next]_vars PROVE InTurn'
    OBVIOUS
  <1>1. CASE UNCHANGED vars
    BY <1>1 DEF vars, InTurn, OneAtATime, Active, InHand, Approving, Says, Candidate, Approved,
                Entry
  <1>2. CASE Next
    <2>1. PICK r \in Runs :
             \/ \E s \in Scenarios, acknowledged \in BOOLEAN : Begin(r, s, acknowledged)
             \/ Step(r)
             \/ EmitTorn(r)
             \/ Abort(r) \/ Crash(r)
      BY <1>2 DEF Next
    <2>2. CASE \E s \in Scenarios, acknowledged \in BOOLEAN : Begin(r, s, acknowledged)
      BY <2>2, BeginInTurn
    <2>3. CASE Step(r)
      BY <2>3, LoadInTurn, SaveInTurn, RenameTempInTurn, DigestBeforeInTurn, ResolveInTurn,
         EvaluateInTurn, AfterwardsInTurn
      DEF Step
    <2>4. CASE EmitTorn(r) \/ Abort(r) \/ Crash(r)
      BY <2>4, AfterwardsInTurn
    <2>5. QED
      BY <2>1, <2>2, <2>3, <2>4
  <1>3. QED
    BY <1>1, <1>2

THEOREM InTurnIsInvariant ==
    ASSUME ~Overlap
    PROVE  Spec => []InTurn
  <1>1. Inv /\ InTurn /\ [Next]_vars => InTurn'
    BY NextInTurn
  <1>2. QED
    BY <1>1, InitInTurn, InvIsInvariant, PTL DEF Spec

\* The one step that changes the file.
LEMMA OnlyRenames ==
    ASSUME Inv, [Next]_vars, ledgerFile' # ledgerFile
    PROVE  \E r \in Runs : RenameTemp(r)
  BY DEF vars, Next, Begin, Step, Load, CreateTemp, WriteTemp, DigestBefore, Resolve, Evaluate,
         Emit, EmitUnmirrored, EmitTorn, DigestAfter, Abort, Crash, files

\* What a rename saves, in a run that follows others: the empty ledger where
\* there was none, or one entry, of an approval.
LEMMA RenameSavesOneEntry ==
    ASSUME Inv, InTurn, NEW r \in Runs, RenameTemp(r)
    PROVE  \/ ledgerFile = NoFile /\ ledgerFile' = <<>>
           \/ /\ ledgerFile \in LedgerContent
              /\ Says(r, "APPROVE")
              /\ resolved[r] = Len(scenario[r].deps)
              /\ out[r].failure = None
              /\ ~Approved(ledgerFile, Candidate(r))
              /\ Entry(r) \in EntrySet
              /\ ledgerFile' = Append(ledgerFile, Entry(r))
  <1>1. pc[r] = "rename" /\ ledgerFile' = current[r]
    BY DEF Inv, TypeOK, RenameTemp
  <1>2. QED
    BY <1>1 DEF InTurn, InHand, Saving

\* Execute, for runs that follow one another: the ledger changes only by the
\* entry of a run whose dependencies were all resolved and whose release-policy
\* package approves its candidate.
THEOREM OnlyApprovals ==
    ASSUME ~Overlap
    PROVE  Spec => OnlyApprovalsChangeTheLedger
  <1> DEFINE Approval ==
               ledgerFile # NoFile /\ ledgerFile' # ledgerFile =>
                  \E r \in Runs :
                     /\ Says(r, "APPROVE")
                     /\ resolved[r] = Len(scenario[r].deps)
                     /\ out[r].failure = None
                     /\ ledgerFile' = Append(ledgerFile, Entry(r))
  <1>1. Inv /\ InTurn /\ [Next]_vars => [Approval]_vars
    BY OnlyRenames, RenameSavesOneEntry
  <1>2. QED
    BY <1>1, InvIsInvariant, InTurnIsInvariant, PTL DEF Spec, OnlyApprovalsChangeTheLedger

\* The file implements the ledger's promise, with crashes and errors anywhere.
THEOREM ImplementsLedger ==
    ASSUME ~Overlap
    PROVE  Spec => KeepsLedger
  <1> DEFINE released == IF ledgerFile = NoFile THEN <<>> ELSE ledgerFile
  <1>1. Init => Ledger!Init
    BY DEF Init, Ledger!Init
  <1>2. Inv /\ InTurn /\ [Next]_vars => [Ledger!Release]_released
    <2> SUFFICES ASSUME Inv, InTurn, [Next]_vars, ledgerFile' # ledgerFile
                 PROVE  [Ledger!Release]_released
      OBVIOUS
    <2>1. PICK r \in Runs : RenameTemp(r)
      BY OnlyRenames
    <2>2. CASE ledgerFile = NoFile /\ ledgerFile' = <<>>
      BY <2>2
    <2>3. CASE /\ ledgerFile \in LedgerContent
               /\ ~Approved(ledgerFile, Candidate(r))
               /\ Entry(r) \in EntrySet
               /\ ledgerFile' = Append(ledgerFile, Entry(r))
      <3>1. ledgerFile # NoFile /\ ledgerFile' # NoFile
        BY <2>3, MarkersAreNoLedgers DEF LedgerContent
      <3>2. ~Ledger!Released(Entry(r).candidate)
        BY <2>3, <3>1 DEF Ledger!Released, Approved, Entry
      <3>3. QED
        BY <2>3, <3>1, <3>2 DEF Ledger!Release
    <2>4. QED
      BY <2>1, <2>2, <2>3, RenameSavesOneEntry
  <1>3. QED
    BY <1>1, <1>2, InvIsInvariant, InTurnIsInvariant, PTL DEF Spec, KeepsLedger, Ledger!Spec
=============================================================================
