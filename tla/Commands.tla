------------------------------ MODULE Commands ------------------------------
(***************************************************************************)
(* cmd/indexjack, internal/verify and harness.Matrix: one user's commands, *)
(* one after another, on one state directory.                              *)
(*                                                                         *)
(* A command is a program of operations on the directories below it: wipe  *)
(* one, execute a scenario in one (ReleaseGate models that in detail; here *)
(* it is one step), ask the registries for their receipts and write the    *)
(* transcript, assert something.  It may stop at any of them, by an error  *)
(* or a crash, with that operation done in part; the registries of either  *)
(* half may stop and start between them.  Assertions that read no state    *)
(* (containment, fixtures, taxonomy, package entries) are left out.        *)
(***************************************************************************)
EXTENDS Naturals, Sequences, SequencesExt

CONSTANTS
    Defaults, Guarded,      \* the scenarios, in order; those that need the opt-in
    Data,                   \* of each: [candidate, verdict, asks, unsafe]; asks are the
                            \* halves whose registries it asks when all answer
    Impact,                 \* the scenario verifyPublicShadowImpact runs
    HalfFixes, Controls,    \* those verifyHalfFixes and verifyNegativeControls run
    Reviewed,               \* the control that must release
    MaxCommands,            \* bounds a user's commands
    MaxChanges,             \* bounds how often registries stop and start
    NoFile, Partial, None

ASSUME AtLeastOneDefault == Len(Defaults) > 0

VARIABLES
    command,                \* the command under way, or the last one
    todo,                   \* what is left of its program
    ended,                  \* how it ended, or "running"
    passing,                \* have its assertions passed so far?
    held,                   \* the transcripts it holds in memory, by directory
    dirs,                   \* the directories
    up,                     \* the halves whose registries answer
    seen,                   \* what up has been since the command began
    unused,                 \* did it find the directories nobody wipes unused?
    shown,                  \* transcripts printed by all commands so far
    commands, changes       \* how many there were

vars == <<command, todo, ended, passing, held, dirs, up, seen, unused, shown,
          commands, changes>>

Scenarios == ToSet(Defaults \o Guarded)

\* A scenario is a file, and one of either kind (fixtures.scenarioIDs).
ASSUME ScenariosAreListedOnce ==
    /\ Defaults \in Seq(Scenarios) /\ Guarded \in Seq(Scenarios)
    /\ IsInjective(Defaults) /\ IsInjective(Guarded)
    /\ ToSet(Defaults) \cap ToSet(Guarded) = {}
    /\ None \notin Scenarios

\* The literal lists of the checks, and what they count on in the fixtures.
ASSUME ChecksNameScenarios ==
    /\ HalfFixes \in Seq(Scenarios) /\ IsInjective(HalfFixes)
    /\ Controls \in Seq(Scenarios) /\ IsInjective(Controls)
    /\ Impact \in Scenarios
    /\ \A s \in {Impact, Reviewed} : Data[s].verdict = "APPROVE"

ASSUME VerdictsAreKnown ==
    /\ \A s \in Scenarios : Data[s].verdict \in {None, "APPROVE", "REJECT"}
    /\ None \notin {"APPROVE", "REJECT", "refused", "unreachable"}

\* The registries of one half answer, or do not, together.
Halves == {"default", "vulnerable"}

\* "Scenario is not marked vulnerable but uses registry, which is"
\* (fixtures.ValidateConsistency).
ASSUME DefaultsAskDefaults ==
    /\ \A s \in Scenarios : Data[s].asks \subseteq Halves
    /\ \A s \in ToSet(Defaults) : Data[s].asks \subseteq {"default"}

Areas == {"scenarios", "first", "second", "matrix", "public-shadow", "half-fix", "controls"}

\* `release` uses the state directory itself.
Root == <<"release", None>>

Paths == (Areas \X Scenarios) \cup {Root}

Absent == [ledger |-> NoFile, records |-> 0, transcript |-> None]

-----------------------------------------------------------------------------
(***************************************************************************)
(* Programs                                                                *)
(***************************************************************************)
Op(op, path, s) == [op |-> op, path |-> path, s |-> s]

\* Mutant: one control is enough.
CheckEither(controls) == controls # {}

\* vulnerable.Check.
Check(controls) == controls = {"profile", "acknowledgement"}

Reachable(c) == IF Check(c.controls) THEN Defaults \o Guarded ELSE Defaults

\* The halves that are to be running: a vulnerable registry is "not running in
\* an unacknowledged workflow" (collectReceipts, verifyRegistrySurface).
Due(c) == IF Check(c.controls) THEN Halves ELSE {"default"}

\* harness.Run
RunIn(area, s) == <<Op("execute", <<area, s>>, s), Op("transcribe", <<area, s>>, s)>>

ForEach(scenarios, Of(_)) == FlattenSeq([i \in DOMAIN scenarios |-> Of(scenarios[i])])

\* Mutant: a scenario is run on what is there.
MatrixUnwiped(area, c) == ForEach(Reachable(c), LAMBDA s : RunIn(area, s))

\* harness.Matrix: "every reachable scenario from fresh state".
Matrix(area, c) ==
    ForEach(Reachable(c), LAMBDA s : <<Op("wipe", <<area, s>>, s)>> \o RunIn(area, s))

VerifyScenario(s) ==
    <<Op("wipe", <<"scenarios", s>>, s), Op("execute", <<"scenarios", s>>, s),
      Op("judge-scenario", <<"scenarios", s>>, s)>>

\* Mutant: both runs use one directory.
VerifyHarnessInPlace(s) ==
    RunIn("first", s) \o RunIn("first", s) \o <<Op("judge-harness", <<"first", s>>, s)>>

\* Two runs, each in a directory of its own that nobody wipes.
VerifyHarness(s) ==
    RunIn("first", s) \o RunIn("second", s) \o <<Op("judge-harness", <<"second", s>>, s)>>

\* A control: one run, and what it should have come to.
RunFor(judgement, area, s) == RunIn(area, s) \o <<Op(judgement, <<area, s>>, s)>>

\* Without the opt-in, the vulnerable scenarios are refused.
VerifyOptIn(c) ==
    IF Check(c.controls) THEN <<>>
    ELSE ForEach(Guarded, LAMBDA s : <<Op("judge-refusal", Root, s)>>)

VerifyPublicShadowImpact == RunFor("judge-release", "public-shadow", Impact)

\* All of them run before any is looked at.
VerifyHalfFixes ==
    ForEach(HalfFixes, LAMBDA s : RunIn("half-fix", s))
    \o ForEach(HalfFixes, LAMBDA s : <<Op("judge-verdict", <<"half-fix", s>>, s)>>)

VerifyNegativeControls ==
    ForEach(Controls, LAMBDA s : RunFor(IF s = Reviewed THEN "judge-release" ELSE "judge-verdict",
                                        "controls", s))

VerifyOutcomes(scenarios) == ForEach(scenarios, LAMBDA s : VerifyScenario(s) \o VerifyHarness(s))

\* verify.RunAll
RunAll(c) ==
    <<Op("judge-surface", Root, None)>>
    \o VerifyOutcomes(Defaults)
    \o Matrix("matrix", c)
    \o VerifyOptIn(c)
    \o IF Check(c.controls)
       THEN VerifyOutcomes(Guarded) \o VerifyPublicShadowImpact \o VerifyHalfFixes
            \o VerifyNegativeControls
       ELSE <<>>

\* cmd/indexjack: what each command does.
Program(c) ==
    CASE c.name = "release" -> <<Op("execute", Root, c.s), Op("judge-build", Root, c.s)>>
      [] c.name = "harness" -> RunIn("scenarios", c.s) \o <<Op("show", <<"scenarios", c.s>>, c.s)>>
      [] c.name = "compare" -> Matrix("scenarios", c) \o <<Op("show", Root, None)>>
      [] c.name = "verify"  -> RunAll(c)

\* The commands a user can give: `release` and `harness` name a scenario.
Controlled == SUBSET {"profile", "acknowledgement"}

UserCommands ==
    [name : {"release", "harness"}, s : Scenarios, controls : Controlled]
    \cup [name : {"compare", "verify"}, s : {None}, controls : Controlled]

-----------------------------------------------------------------------------
(***************************************************************************)
(* What the operations come to                                             *)
(***************************************************************************)
Entries(ledger) == IF ledger = NoFile THEN {} ELSE ledger

Result(s, verdict, mutation, failure) ==
    [scenario |-> s, result |-> IF failure = None THEN "BUILD_OK" ELSE "BUILD_FAILED",
     verdict |-> verdict, mutation |-> mutation, failure |-> failure]

\* releasegate.Execute of a scenario in a directory with this ledger, while these
\* halves answer; a registry that does not is a failure of its own class.
Outcome(s, ledger, answering) ==
    IF ~ Data[s].asks \subseteq answering THEN Result(s, None, "none", "unreachable")
    ELSE IF Data[s].verdict = None THEN Result(s, None, "none", "refused")
    ELSE IF Data[s].verdict = "REJECT" THEN Result(s, "REJECT", "none", None)
    ELSE Result(s, "APPROVE",
                IF Data[s].candidate \in Entries(ledger) THEN "suppressed-duplicate" ELSE "approved",
                None)

Changed(o) == o.mutation = "approved"

Saved(ledger, o) ==
    IF Changed(o) THEN Entries(ledger) \cup {Data[o.scenario].candidate} ELSE Entries(ledger)

\* What the registries' receipts add up to, and the reconciliation.
Heard(o) == o.failure # "unreachable"

Reconciles(o) ==
    \/ o.result = "BUILD_FAILED"
    \/ o.verdict = "APPROVE" /\ ~Data[o.scenario].unsafe
    \/ o.verdict = "REJECT" /\ Data[o.scenario].unsafe

\* A scenario's row of the table of expectations.
Expected(s) == Outcome(s, {}, Halves)

-----------------------------------------------------------------------------
(***************************************************************************)
(* Behaviour                                                               *)
(***************************************************************************)
Init ==
    /\ command = None
    /\ todo = <<>>
    /\ ended = "ok"
    /\ passing = TRUE
    /\ held = [p \in {} |-> None]
    /\ dirs = [p \in Paths |-> Absent]
    /\ up \in SUBSET Halves
    /\ seen = {up}
    /\ unused = TRUE
    /\ shown = {}
    /\ commands = 0
    /\ changes = 0

\* The directories that only `verify` uses and that it never wipes.
Unwiped == {p \in Paths : p[1] \in {"first", "second", "public-shadow", "half-fix", "controls"}}

Begin(c) ==
    /\ ended # "running"
    /\ commands < MaxCommands
    /\ commands' = commands + 1
    /\ command' = c
    /\ todo' = Program(c)
    /\ ended' = "running"
    /\ passing' = TRUE
    /\ held' = [p \in {} |-> None]
    /\ seen' = {up}
    /\ unused' = \A p \in Unwiped : Entries(dirs[p].ledger) = {}
    /\ UNCHANGED <<dirs, up, shown, changes>>

Running(op) == ended = "running" /\ todo # <<>> /\ Head(todo).op = op

\* The operation is done; after the last one the command exits, with what its
\* assertions came to.
Proceed ==
    /\ todo' = Tail(todo)
    /\ ended' = IF Len(todo) > 1 THEN "running" ELSE IF passing' THEN "ok" ELSE "failed"
    /\ UNCHANGED <<command, up, seen, unused, commands, changes>>

\* The command returns an error, or its process dies.
Stop ==
    /\ ended' = "stopped"
    /\ todo' = <<>>
    /\ UNCHANGED <<command, passing, held, up, seen, unused, shown, commands, changes>>

Here == dirs[Head(todo).path]

SetHere(dir) == dirs' = [dirs EXCEPT ![Head(todo).path] = dir]

\* os.RemoveAll, and part of it.
Wipe ==
    /\ Running("wipe")
    /\ \/ SetHere(Absent) /\ UNCHANGED <<passing, held, shown>> /\ Proceed
       \/ /\ \E l \in {NoFile, Here.ledger}, n \in {0, Here.records}, t \in {None, Here.transcript} :
                SetHere([ledger |-> l, records |-> n, transcript |-> t])
          /\ Stop

\* A vulnerable scenario is refused before anything is created.
Refused(op) == op.s \in ToSet(Guarded) /\ ~Check(command.controls)

\* Execute writes the ledger, if it releases, and then one audit record.
Execute ==
    /\ Running("execute")
    /\ LET op == Head(todo)
           o == Outcome(op.s, Here.ledger, up)
       IN  IF Refused(op) THEN Stop /\ UNCHANGED dirs
           ELSE \/ /\ SetHere([Here EXCEPT !.ledger = Saved(@, o), !.records = @ + 1])
                   /\ held' = [p \in DOMAIN held \cup {op.path} |-> IF p = op.path THEN o ELSE held[p]]
                   /\ UNCHANGED <<passing, shown>>
                   /\ Proceed
                \/ /\ \/ UNCHANGED dirs
                      \/ SetHere([Here EXCEPT !.ledger = Entries(@)])
                      \/ SetHere([Here EXCEPT !.ledger = Saved(@, o)])
                      \/ SetHere([Here EXCEPT !.ledger = Saved(@, o), !.records = @ + 1])
                   /\ Stop

\* The receipts are collected, of every registry that is to be running, and the
\* transcript written, by a WriteFile that truncates the file it finds.
Transcribe ==
    /\ Running("transcribe")
    /\ LET t == held[Head(todo).path]
           heard == Due(command) \subseteq up
       IN  \/ /\ heard
              /\ SetHere([Here EXCEPT !.transcript = t])
              /\ UNCHANGED <<passing, held, shown>>
              /\ Proceed
           \/ /\ \/ UNCHANGED dirs
                 \/ heard /\ \E file \in {Partial, t} : SetHere([Here EXCEPT !.transcript = file])
              /\ Stop

Show ==
    /\ Running("show")
    /\ shown' = shown \cup {held[p] : p \in DOMAIN held}
    /\ UNCHANGED <<passing, held, dirs>>
    /\ Proceed

-----------------------------------------------------------------------------
(***************************************************************************)
(* Assertions: a failed one is recorded and the command goes on.           *)
(***************************************************************************)
\* Mutant: nobody looks whether the vulnerable half is absent.
SurfaceUnprobed == Due(command) \subseteq up

\* Those that are to be running answer, and no vulnerable one else does.
SurfaceAsExpected == up = Due(command)

\* The build's outcome, the ledger and the audit file, against the table.
ScenarioAsExpected(s) ==
    /\ held[<<"scenarios", s>>] = Expected(s)
    /\ Here.ledger = Saved({}, Expected(s))
    /\ Here.records = 1

\* The two transcripts, and the first one against the table, where the class of
\* a failure is not looked at but the number of requests heard is.
HarnessAsExpected(s) ==
    LET first == held[<<"first", s>>]
    IN  /\ held[Head(todo).path] = first
        /\ dirs[<<"first", s>>].transcript = first
        /\ first.result = Expected(s).result
        /\ first.verdict = Expected(s).verdict
        /\ Changed(first) <=> Changed(Expected(s))
        /\ Reconciles(first) <=> Reconciles(Expected(s))
        /\ Heard(first)

AsExpected ==
    LET op == Head(todo)
    IN  CASE op.op = "judge-surface"  -> SurfaceAsExpected
          [] op.op = "judge-refusal"  -> Refused(op)
          [] op.op = "judge-scenario" -> ScenarioAsExpected(op.s)
          [] op.op = "judge-harness"  -> HarnessAsExpected(op.s)
          [] op.op = "judge-verdict"  -> held[op.path].verdict = Data[op.s].verdict
          [] op.op = "judge-release"  -> Changed(held[op.path])
          [] op.op = "judge-build"    -> held[op.path].result # "BUILD_FAILED"

Judging ==
    \/ Running("judge-surface") \/ Running("judge-refusal")
    \/ Running("judge-scenario") \/ Running("judge-harness") \/ Running("judge-verdict")
    \/ Running("judge-release") \/ Running("judge-build")

\* Mutant: the last assertion decides.
JudgeLast ==
    /\ Judging
    /\ UNCHANGED dirs
    /\ \/ /\ passing' = AsExpected
          /\ UNCHANGED <<held, shown>>
          /\ Proceed
       \/ Stop

\* recorder.add and AllPassed; `release` exits with its build's result.
Judge ==
    /\ Judging
    /\ UNCHANGED dirs
    /\ \/ /\ passing' = (passing /\ AsExpected)
          /\ UNCHANGED <<held, shown>>
          /\ Proceed
       \/ Stop

\* The registries of one half stop, or start.
Change(half) ==
    /\ changes < MaxChanges
    /\ changes' = changes + 1
    /\ up' = IF half \in up THEN up \ {half} ELSE up \cup {half}
    /\ seen' = IF ended = "running" THEN seen \cup {up'} ELSE seen
    /\ UNCHANGED <<command, todo, ended, passing, held, dirs, unused, shown, commands>>

Next ==
    \/ \E c \in UserCommands : Begin(c)
    \/ Wipe \/ Execute \/ Transcribe \/ Show \/ Judge
    \/ \E half \in Halves : Change(half)

Spec == Init /\ [][Next]_vars

-----------------------------------------------------------------------------
Finished(name, how) == commands > 0 /\ command.name = name /\ ended = how

\* A verification that passes is one whose directory holds what the table
\* expects: of every scenario the ledger, the one audit record and the two
\* transcripts of a first run, whatever the commands before it left there,
\* wherever they stopped, and whenever the registries were down.
PassedMeansExpected ==
    Finished("verify", "ok") =>
       \A s \in ToSet(Reachable(command)) :
          /\ dirs[<<"scenarios", s>>].ledger = Saved({}, Expected(s))
          /\ dirs[<<"scenarios", s>>].records = 1
          /\ dirs[<<"first", s>>].transcript = Expected(s)
          /\ dirs[<<"second", s>>].transcript = Expected(s)

\* No assertion depends on anything else: a verification fails only when other
\* registries were up than are to be, at some time, or when an earlier one had
\* released something in the directories nobody wipes.
FailedMeansDisturbed ==
    Finished("verify", "failed") => seen # {Due(command)} \/ ~unused

\* "The default gate will then correctly report that the vulnerable registry is
\* up when it should not be" (README.md): no verification passes that did not
\* find each half of them as it is to be, at some time, however it goes on.
PassedMeansDueRegistries ==
    Finished("verify", "ok") =>
       \A half \in Halves : \E u \in seen : half \in u <=> half \in Due(command)

\* "Every scenario the current workflow can reach, one row each, from fresh
\* state" (main.go): with registries that answer, whichever else do, a comparison
\* shows a first run of each, whatever was run or interrupted there before.
CompareIsFromFreshState ==
    Finished("compare", "ok") /\ (\A u \in seen : Due(command) \subseteq u) =>
       \A s \in ToSet(Reachable(command)) : held[<<"scenarios", s>>] = Expected(s)

\* Without both controls no command leaves anything of a vulnerable scenario,
\* or takes anything of one away: neither in a directory of its own nor, by
\* `release`, in the state directory itself.
NothingVulnerableUnacknowledged ==
    [][\A p \in Paths :
          /\ dirs'[p] # dirs[p]
          /\ p[2] \in ToSet(Guarded) \/ (p = Root /\ command.s \in ToSet(Guarded))
          => command.controls = {"profile", "acknowledgement"}]_vars

\* "Running the same scenario twice produces the same transcript, byte for byte"
\* (docs/TRANSCRIPT.md): whatever commands printed them.
RerunsAreIdentical ==
    \A t, u \in shown : t.scenario = u.scenario => t = u
=============================================================================
