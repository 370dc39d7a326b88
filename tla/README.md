# A TLA+ development for indexjack

indexjack is a laboratory for dependency confusion.  It builds one small
project twice: with a resolver that binds every name to one source and every
byte to a lock file, and with an opt-in one that pools sources and takes the
highest version.  A release gate asks the package that was resolved whether a
release candidate may go out, and a harness writes down what happened.  The
claims that matter are about order: what is asked of whom before what is
agreed, which bytes are read before what is compared, which file changes
before what is decided, and which record is made of it.

The modules here state that order and what follows from it.  TLC checks them on
small instances; TLAPS proves, for every instance, what carries the most.

## 1. Inventory

| component (under `src/internal/`) | state it keeps | operations | talks to |
|---|---|---|---|
| `semver` | none | `Parse`, `Compare`, `ParseRange`, `Satisfies` | used by everything that names a version |
| `sourcepolicy` | a parsed policy | `Validate`, `Resolve` | both resolvers, fixtures |
| `lockfile` | a parsed lock | `Validate`, `Record`, `VerifyBytes` | resolver, fixtures |
| `buildmanifest` | a parsed manifest | `Parse`, `Dependency` | release gate |
| `resolver` | one `Resolution`, filled in stage by stage | `Resolve` | policy, lock, a registry client, archive |
| `combinedindex` | the same record, and offers of every pooled source | `Resolve`, merge of offers | policy, clients, archive |
| `vulnerable` | none | the acknowledgement gate | combined index, release gate |
| `registry` | requests by run (memory only), receipts | serve metadata and artifacts, record, sign; client with a timeout | resolvers, harness |
| `pkgarchive` | none | `Parse`, `Build`, `Lookup` | resolvers, gate, fixtures |
| `canonicaljson` | none | duplicate-name walk, `Marshal`, strict decode | every parser |
| `ledger` | `ledger.json` | `Load`, `Save`, `Approved`, `Approve` | release gate |
| `audit` | `audit.jsonl` | `Emit`, `Read` | release gate |
| `releasegate` | the `Outcome` of a run | `Execute` | resolvers, ledger, audit |
| `harness` | a transcript | `Run`, `Matrix`, `collectReceipts`, `reconcile` | release gate, registries |
| `trace` | none | prints resolutions | harness |
| `fixtures` | embedded documents | `ValidateConsistency`, registry sets | every other |
| `verify` | the results of its assertions; directories it fills and does not wipe | `RunAll` | harness, release gate |
| `cmd` | the state directory, one per user | `release`, `harness`, `compare`, `verify` | harness, verify |
| `containment` | none | text scan | verify |

How they interact.  `cmd` starts `harness.Run`, which calls
`releasegate.Execute`: load the ledger (creating it), resolve the dependencies
in the manifest's order, ask the policy package, save the ledger on `APPROVE`,
append one audit record, measure the ledger again.  A resolution is a
sequential conversation over HTTP with registries that are other processes.
Afterwards the harness asks every registry for a signed receipt of the run.
The only state shared between runs is the state directory and the registries'
memory.

What is hard in it, and to test:

* the order of agreement, request, comparison and interpretation in `Resolve`,
  against registries that may answer anything;
* early returns that leave a half filled record which three other packages
  (`trace`, `harness`, `releasegate`) draw conclusions from;
* overlapping patterns in a policy, and what an edit elsewhere does to a name;
* the merge of several sources, one of which may be down;
* crashes and errors between the operations on two files, runs that follow a
  run that did not finish, and runs that overlap;
* requests given up on, repeated and late, while a receipt is being collected;
* appends that end in the middle of a line, and a reader of such a file;
* commands that follow one another in one state directory, and stop anywhere;
* documents edited apart from each other that must still agree.

The complete list, with the line where each bites and the property that would
notice, is `hazards` in `PROJECT.json`.

## 2. Modules

```
Semver   SourcePolicy   Lockfile                 pure definitions
     \        |        /
      Resolver ---- implements ----> Pinned      one secure resolution
      /      \
  Trace      Fixtures                            what is printed of it; what is
                 |                               checked of its documents before
             Registries                          who answers it
  CombinedIndex                                  one pooled resolution
  ReleaseGate -- implements --> ReleaseLedger    runs, the ledger, the audit log
      |
  Harness                                        what a run's transcript concludes
  Commands                                       a user's commands, one directory,
                                                 two halves of registries
  Receipts                                       runs, a network, registries
  CanonicalJson   PkgArchive   PolicyDocument    documents and archives
  MCDocuments                                    the readers of documents, together
```

**Semver, SourcePolicy, Lockfile** are operators.  A version is a record of
three numbers below 2^64 (`MaxComponent` for TLC); a text is the sequence of
its digits, so that leading zeros are visible.  A name is a sequence of labels
and a pattern is one whose last label may be the star.  `ValidSources`,
`ValidMapping` and `Valid` are `Validate`; `Verdict` and `Decision` are
`Resolve`.  `LockVerdict`, `TheRecord` and `VerifyBytes` are the lock file's
lookup and comparison.

**Resolver** is `resolver.Resolve`.  `res` is the `Resolution` the caller gets
back, field by field; `pc` is the point the function has reached.  One action
per stage: `EvaluatePolicy`, `CheckLock`, `QueryMetadata`, `ReceiveMetadata`
(whose selection is `SelectLocked`), `ReceiveArtifact`.  A receive action is the rest of the handler up to the next
wait or return: `ReceiveArtifact` fetches, compares, opens and finishes.
Registries may answer with any listing, any bytes, or a refusal.  What
`orderCandidates` returns is described by its order, as a set with one element,
since a sort written as a recursion could not be reasoned about.  Besides
`res` there are two history variables: the `requests` sent and the blobs
`opened`.  **Pinned** is its promise: a
resolution ends, once; if it delivers, what it delivers was acceptable by
policy, lock and declaration.

**Trace** is what `renderResolution` infers from that record and
`integrityOf` from its failure class.  **Fixtures** is `ValidateConsistency`
over policy, lock, manifest and built package sources; it extends Resolver so
that "consistent documents" can be tied to what a resolution over them does.

**Registries** puts something behind the urls: for each registry either a
document of this repository, or `Anybody`, who may answer anything.  A document
becomes what is served by `RegistrySet` (`Faithful`, `FixtureSets`) and
`FixtureSet.Sort` (`Ascending`; the sort by name is not stable, so of two
packages with one name either may come first, and only the first is ever
found); a refused document serves nothing.  `Metadata` and `Artifact` are the
two endpoints of the handler.  `ServedNext` is Resolver's step with those
answers: `AskMetadata` and `FetchArtifact` narrow `ReceiveMetadata` and
`ReceiveArtifact` to what the bound source's url gives, an answer that is lost
included.  The stable sorts are, like `OrderCandidates`, described by their
order.

**CombinedIndex** is `combinedindex.Resolve`, with the acknowledgement gate,
one wait per pooled source, the filter, the merge and the one fetch.  The
offers are a set, each with its source's `rank` and its `place` in the listing,
which is what the code's stable sort by version and rank goes by: `Merges` has
the one sequence in that order, whose first element is selected.

**ReleaseGate** is `releasegate.Execute` with `ledger` and `audit` inlined at
the granularity of the operating system: `Load`, `CreateTemp`, `WriteTemp`,
`RenameTemp`, `DigestBefore`, `Resolve`, `Evaluate`, `Emit`, `DigestAfter`.
`Abort` is an operation that fails at any of them, `Crash` a process that
ends.  The audit file is a sequence of pieces, since an append may end with
the line whole, without its end, torn, or not begun (`EmitTorn`); `Read` is
`audit.Read` over it, where a piece after one with no end shares its line.  A
file's digest is its content.  What a resolution delivers is any
package or any failure: Resolver and CombinedIndex say which.
**ReleaseLedger** is the promise of the file: entries are only added, one per
candidate.  **Harness** adds `reconcile` and the transcript to it.

**Commands** is what a user does: `release`, `harness`, `compare` and `verify`,
one after another on one state directory.  A command is a program, a sequence
of operations on the directories below it: wipe, execute, transcribe, assert,
show.  `Matrix` and `RunAll` are such programs, built as the code builds them.
Any operation may be the last, done in part.  The registries are two halves,
the default and the vulnerable one; each answers or does not, and may stop or
start between any two operations.  `Due` is what is to be running: both with
the opt-in, the default half alone without, and `SurfaceAsExpected` is
`verifyRegistrySurface`, for which a vulnerable registry that answers without
the opt-in is a failure as much as a default one that does not.  `seen`, a
history variable, has all that `up` has been since the command began.
Executing a scenario is one step here: what happens inside it is ReleaseGate's.

**Receipts** is the conversation itself: runs that ask, requests that may be
lost, repeated or late, a client that gives up, registries that record a
request before its answer is complete, forget when restarted and sign what they
remember, and the harness that collects.  `log` is the handler's `byRun`: of
each registry, what it has recorded of each run id.

**CanonicalJson** is the token walk that refuses repeated names, with the
document chosen token by token; `NoToken` is a text that ends or turns
unreadable.  **PkgArchive** is `Parse`, `Build` and `Lookup` over entries whose
headers may be wrong in any way the code looks at; `FirstFault` is a loop that
returns at the first element with something wrong.  **PolicyDocument** is a
source policy while somebody writes it, with the properties of its decisions.
**MCDocuments** puts the three side by side, one document at a time.

`MC*` modules give the constants values.  `*Proofs` hold the theorems.
Definitions whose comment begins with "Mutant:" are plausible bugs of the code
beside them; `PROJECT.json` says which property notices which.

## 3. Runs

| run | module / cfg | instance | question |
|---|---|---|---|
| `resolver` | MCResolver | 5 policies x 10 locks x 6 declarations, listings of up to two of four offers, 5 blobs, 10 registry documents or anybody's | the order of a resolution, its record, what is printed of it, whether consistent documents can be refused, and whether they deliver |
| `documents` | MCDocuments | every policy of up to 3 sources and 2 mappings over short names; up to three archive entries with every header fault; JSON of up to nine tokens, two names, depth 2 | what a policy's decision depends on; which archives are accepted, and for which reason one is not; that repetitions and too deep members are refused |
| `combined_index` | MCCombinedIndex | 6 policies, 3 declarations, acknowledged or not, listings of up to two of four offers | who is asked, what is waited for, what is selected |
| `release_history` | MCHarness / MCHistory | three runs in sequence, two candidates, three packages | the two files, what can be read of them, the outcomes and the transcripts over a history with failures and crashes |
| `overlapping_releases` | MCHarness / MCOverlap | two runs at once | what survives when they interleave |
| `receipts` | MCReceipts | two runs, two registries, plans of up to two questions, one fault | what a receipt lists and leaves out |
| `verification` | MCCommands | two commands over four scenarios, halves of the registries that change twice | what a verification that passes or fails says of directories and registries, and what a comparison starts from |
| `pool_order` | MCCombinedIndex / MCPoolOrder | as `combined_index` | *violated*: the pool's order decides whose bytes are fetched |
| `unverified_receipt` | MCReceipts / MCUnverifiedReceipt | one run, three registries, one signs with a wrong key | *violated*: an unverified receipt is kept |
| `policy_read` | MCHarness / MCPolicyRead | one run | *violated*: a run that did read a policy says none was read |
| `printed_match` | MCResolver / MCMatched | as `resolver` | *violated*: a line says the bytes matched that were refused |
| `reruns` | MCCommands / MCReruns | two commands, registries as they were | *violated*: the second transcript of a scenario differs |

Why the bounds are enough to mean something:

* `resolver`: each document is one that works and every way it can be wrong on
  its own (wrong source, name, alias, repeated record, unparsable version,
  digest of other bytes), in every combination, so that each early return is
  reached from documents that are right up to it.  Two offers are enough for
  "listed twice", "another on top" and "not listed".  The private registry's
  document carries nothing, the locked version, another, both in either order,
  other bytes as the locked version before, after or without it, its name
  twice, or an artifact under another label; with `Anybody` every answer is
  possible, so the other properties are checked as before.
* `documents`, policies: two mappings are the least that can overlap, three sources
  the least where a pool of two excludes one; that more mappings change nothing
  is a theorem.
* `combined_index`: the code treats its pool as a sequence; two is the least
  with an order, and a listing of two the least with a tie inside it.  A policy
  names a third source no pool has.
* `release_history`: a defect needs a run that leaves something behind, a run
  that misreads it and a run that shows it.
* `receipts`: two runs for "another run's request"; one fault (a repetition, a
  loss or a restart) because two only compose.
* `documents`, JSON: nine tokens fit an object in an object in an object, with
  a member after it at the outermost level, and `MaxDepth` 2 is exceeded.
* `documents`, archives: the format has two entries; three is one too many.
* `verification`: the second command is the least that can find what another
  left; two changes let a half of the registries be down, or up, for a part of
  a command only, and either half may be up or down at first, so that a
  vulnerable registry left over from an earlier session is among them.  The
  four scenarios are one that releases and one that a registry's answer
  refuses, which ask the default half, and two that need the opt-in and ask
  both, one of which releases.  Three have one candidate.

`MaxComponent`, `MaxDepth`, `MaxTokens`, `MaxEntry`, `MaxArchive` stand for the
code's own limits (2^64 - 1, the nesting limit, the sizes).  `MaxSources`,
`MaxMappings`, `MaxFaults`, `MaxCommands`, `MaxChanges` and the size of `Runs`
bound the instance only.

Deadlock is not looked for, since every one of these programs ends.  That those
which wait for somebody do end is what `KeepsPromise`, `AlwaysEnds` and
`EveryRunEnds` check instead; a release and a command are straight-line code
between such waits.

Fairness.  `Resolver` and `CombinedIndex` are one sequential function whose
every wait is an HTTP request under a client timeout (`registry.go`), a
refusal being an answer: weak fairness of the whole step.  `Receipts` has weak
fairness of each run's own steps once it runs.  Nothing is assumed of the
network, of registries or of a run's beginning.  `ReleaseGate` and `Commands`
state no fairness: they are asked only what runs and commands leave.

### What the five violated runs show

1. `pool_order`.  `combinedindex.go:86` and `harness.go:195` say that the order
   of a pool decides nothing.  Offers of the same version are ordered by the
   source's rank in the pool (`combinedindex.go:133`), so it decides a tie.
2. `unverified_receipt`.  `docs/TRANSCRIPT.md:27` says a signature is verified
   before a receipt is accepted; `collectReceipts` (`harness.go:352`) records
   whether it verified and keeps the receipt either way.
3. `policy_read`.  "No package policy was read" (`harness.go:558`) is printed of
   every failed build that left the ledger alone, also when the package was
   resolved and asked and a later dependency failed.
4. `printed_match`.  "Locked size and digest matched before any content was
   read" (`trace.go:203`) is printed of any resolution with a selected
   candidate, also one refused for its digest.
5. `reruns`.  `harness.Run` uses the state directory as it finds it
   (`harness.go:251`) and `indexjack harness` always gives it the same one
   (`main.go:257`), so the second run of a releasing scenario finds the first
   one's release and reports a duplicate.  `docs/TRANSCRIPT.md:16` says that
   running a scenario twice gives the same transcript, byte for byte.

### Seen while modelling, and not claimed to be wrong

* Runs that overlap on a directory can lose an approval: `Load` creates and
  renames without looking again, and no lock is taken.  The documents ask for a
  disposable directory per run, so `overlapping_releases` checks only what
  remains: the file is always whole and no candidate is in it twice.
* A crash between the save and the audit record leaves an approved candidate
  nobody announced; the next run reports a duplicate.  `AuditMatchesLedger`
  says precisely this much.
* Arrays directly in arrays are never counted by the depth limit of the
  duplicate-name walk; `DeepMembersAreRefused` is therefore about members.
* `ValidateConsistency` does not compare a declared range with the locked
  version.  `ValidatedScenariosFailOnlyOnAnswers` allows for it.
* Its comment (`fixtures.go:525`) says that every lock record matches an
  artifact published by the source it names; the code compares with what can be
  built, as the comment in its body says.  A document that names a package
  twice is not refused, and one of the two is never served.
  `CheckedScenariosDeliver` names both.
* `verify` never wipes its `first`, `second`, `public-shadow`, `half-fix` and
  `controls` directories, so that a second `verify` in one state directory can
  fail where the first passed.  A verification also fails when other registries
  are up than are due: a default one that is down, or, without the opt-in, a
  vulnerable one that a plain `down` left running, as `README.md:141` and
  `compose.yaml:6` say.  `FailedMeansDisturbed` says that nothing else can make
  one fail, `PassedMeansDueRegistries` that none passes without having found
  each half as it is to be.
* One torn line makes the whole audit file unreadable, the records before and
  after it included; `ReadIsCompleteOrFails` says that this is all it does.
* "The intended private artifact was selected" never looks at the source.

## 4. Proofs

`ResolverProofs` proves that

    Inv == TypeOK /\ PolicyHeld /\ LockHeld /\ PackageHeld
           /\ EveryRequestIsAuthorised /\ OnlyPinnedBytesAreOpened

is inductive.  `EveryRequestIsAuthorised` and `OnlyPinnedBytesAreOpened` are
what matters; neither is inductive, because a request is sent one step after
the agreement it rests on.  `PolicyHeld` and `LockHeld` carry that agreement
over the waits: past the policy stage the record's source is the one source the
policy binds, past the lock stage the locked record is the only one of the
alias and names the same package, source and a version in the range.
`PackageHeld` does the same for the refinement: a package in the record came
from pinned bytes.  There is one lemma per action, and `DecidedBinds` and
`FoundIsPinned` connect the operators (`Decision`, `TheRecord`) to the
specification's words (`Binds`, `Pins`).  From `Inv` follow:

* `TypeCorrect`, `RequestsAreAuthorised`, `PinnedBytesOnly`: whatever the
  documents, whatever the registries answer;
* `ImplementsPromise`: every step of Resolver is a step of Pinned or a stutter.

`ReleaseGateProofs` has two invariants.  `Inv` (types, and `LedgersAreSound`:
no partial file, and one entry per candidate in every ledger on disk or in a
run's memory) is inductive for any number of runs, overlapping or not: the
uniqueness on disk needs that of every copy in memory, since any of them may be
renamed over the file.  From it follow `TypeCorrect`, `NoPartialLedger` and
`NeverReleasedTwice`.  `InTurn` is for runs that follow one another: at most
one is under way, and what it holds (`InHand`) is the file, or the file and the
one entry it is about to save, of a candidate that is not in it, approved by
its package.  With it, the only step that changes the file is a rename that
adds that entry or creates the empty ledger: `OnlyApprovals` and
`ImplementsLedger` (every step is one of ReleaseLedger or a stutter).  Both
assume `~Overlap`; with overlap they do not hold.

`AuditProofs` builds on both, with one invariant for each thing an outcome
relates; a property about a returned outcome is never inductive, since nothing
in it says how the run got there.

* `Told` says, step by step, what a run has put in its result and its event
  list, and that what is in the list is in the file.  It holds for overlapping
  runs, because nobody removes anything from the file (`WritingStays`):
  `OutcomesAreAudited`.
* `Honest` carries the two digests: until an approval is saved both are the
  file's, afterwards the file is what the run saved.  It needs `InTurn`, that
  nobody else writes in between: `OutcomesAreTrue`.
* `Agrees` relates the files.  It speaks of all lines, also those that cannot
  be read, because a line that can be read today is not one that could be
  yesterday: `FilesAgree`.
* `Judged` ties the verdict of a run past it to its package and to the ledger:
  `FailuresAreTrue` and `PassesHold`, about transcripts.  That what passed
  stays true rests on `ReleasesStay`: no entry is ever lost.

These, but for the first, assume `~Overlap`.  Reading does not: `ReadsAreComplete`
says of any runs, overlapping or not, that `audit.Read` either returns as many
copies of an event as there are runs that reported it, or fails on a file in
which some run ended in the middle of its append.  A count is not inductive, so
the invariant (`Copied`) has the copies themselves: a mapping, one to one, of the
runs that reported an event to lines of the file that say it, such that a piece
without its end belongs to a run that stopped and reported nothing.  An append
adds a line nobody else is mapped to; that nothing is removed keeps the rest.

The second part of `ResolverProofs` proves `Progress`: at each step, and for
each stage a failure can have, how far the record, the requests and the bytes
read have come.  The properties compare two of the three at the end, which says
nothing about the steps before.  `RecordIsTrue`, `VerdictsAreTrue` and
`PrintedLinesAgree` follow.

The third part is about documents that passed a check:
`CheckedScenariosAreSound`.  The consistency check compares documents two by two
and says nothing of a resolution; `CheckedDocuments` restates what it gives one,
and `OnCheckedDocuments` keeps the record in hand the one that was checked.
`ServedIsResolved` carries everything proved of Resolver to resolutions against
the repository's registries, and `CheckedScenariosAreServed` says when those
deliver.  A listing and an artifact come from two lookups in one set, an answer
apart, and a checked scenario may fail only if its registry's document differs
from the lock.  `ListedHeld` carries over the wait that what was selected is
what will be sent (`ListedIsSent`: the registry sorts up and sends the first of
a version, the resolver sorts down and takes the first, and both sorts keep the
order of equal ones); `CarriedIsPublished` and `NotCarriedIsNotPublished` take
it back to the document.

`CombinedIndexProofs`, for pools and listings of any length: `PoolInOrder`,
`NoSourcePassedOver`, `HighestIsSelected`.  A selection rests on offers
gathered source by source, so the invariant says that the offers in hand are
exactly what the answers in hand offer (`OffersHeld`), that the answers are
those of the sources asked so far, in the pool's order (`LoopHeld`), and that
the pool is the policy's (`PolicyHeld`).

`ReceiptsProofs`, for any number of runs, registries and questions, whatever the
network loses, repeats or delays and however often a registry is restarted:
`ReceiptsListOnlyOwnQuestions`, `ReceiptsMissNoAnsweredQuestion` and
`TranscriptsAskAll`.  A receipt is a copy of a log, and a log is written when a
request arrives, which may be long after the run gave up on it or a second time.
So the invariant is about the logs at every moment (`Logged`): what a registry
holds of a run lies between the account of the questions answered and that of
the questions asked, and a question is logged before its answer arrives
(`AnswerLogged`); a receipt keeps what its log had (`Received`), since the run
asks nothing more once it collects (`Paced`).  `HeardFrom`, with the number of
registries collected from so far, is the inductive form of the third.

`ReaderProofs`: the two readers of what comes from outside.  For archives of any
number of entries and policies of any length, `OnlyTheBuiltIsAccepted` (accepted
exactly when Build can have written it, and no value misread) and
`TheFirstFaultDecides`; their hypothesis (`ArchiveOf`) is that an entry's body is
a document of the kind its name has, or unreadable.  For JSON texts of any
length and any depth limit, `RepetitionsAreFound` and `DepthIsLimited`.  The
properties speak of brackets counted in the text, the walk of its stack; the
inductive invariant (`Walking`) is that the stack is the nesting of the text
read so far: level by level the position of the bracket still open
(`Nested`), what a level has seen being the names directly within it, and no
repeated name passed over.

`DocumentProofs`: of source policies `OrderDecidesNothing` (verdict and decision
depend on a policy's entries only, `OrderIsIrrelevant`, and a document with its
lists in any other order has the same entries and is as valid),
`GrowingNeverRebinds` (from `AddingMappingsNeverRebinds`: a larger policy decides
a decided name alike or refuses it) and `EverySourceIsPooledOrExcluded` (never
both); the run's bounds on sources, mappings and names are gone.  Of versions
`SpellingIsUnique` (they
can be compared as texts, as the resolver does), `CompareZeroIsEquality`,
`CompareAntisymmetric`, `CompareTransitive`, `RangeIsConvex`.

`CommandsProofs`, for any scenarios, any table, any number of commands that stop
anywhere, and registries of either half that come and go: `PassedIsExpected`,
`DueRegistriesPassed`, `FailedIsDisturbed`, `ComparisonsAreFresh` and
`VulnerableIsAcknowledged`.  None
of them follows from what the directories hold while a command runs, since what
makes them true is the program's text: an assertion comes after the runs it
compares, a run from fresh state just after a wipe, and every change of a
directory before the assertion that looks at it.  So the proof has two halves.

* `Demands` says of each operation which others it needs and where (just before
  it, before, just after, after).  That every program meets them is
  `ProgramSound`: `Sound` holds of each row (`ScenarioRow`, `HarnessRow`,
  `MatrixRow`), of rows joined (`JoinedSound`, `FlattenedSound`: a least
  scenario at which it fails) and so of `Matrix` and `RunAll`.  `Sound` has
  beside the demands what an operation may be about (`Allowed`) and that of the
  directories nobody wipes each is used once.
* `IInvIsInvariant`: what is left of the program under way still meets its
  demands, where a demand for an operation that is gone is met by its effect
  (`OnTrack`): `Stands` for the operation before the next one, `Done` at any
  time later.  Beside it, `HeldAsExpected` (runs from fresh state came to what
  the table says), `RunOrToRun` and `JudgedOrToJudge` (each reachable scenario
  is dealt with or still in the program), `FoundOrToFind` (the registries were
  found as due, or will be looked at), `OnceOnly` and `UnusedYet` for the
  directories nobody wipes, `HeldAreOutcomes` and `PassingUndisturbed`.  Each
  operation's lemma says what it leaves; `TailOnTrack`, `JudgedStays` and
  `ProceedInv` are what all of them share.  TLC checked this invariant on
  the `verification` instance, with one change of the registries, before it was
  proved.

`FailedIsDisturbed` needs the most: `AllAsExpected` goes through every kind of
assertion and shows that it succeeds when the registries due, and no others,
are up from the command's beginning to its end.  That the half which is due
suffices is `AsksTheDue`: a scenario that is not refused asks no other.

They rest on named assumptions, which TLC evaluates in every run that extends
the module:

* `DigestIdentifiesBytes`: SHA-256 has no collisions among the blobs of an
  instance.
* What stands for "nothing" or for a failure to read is no real value:
  `NoneIsNoBlob`, `NoneIsNoClass`, `NoneIsNothing`, `RefusalsAreNoDocuments`,
  `UnparsableIsNoVersion`, `FilesAreDistinct`, `MarkersAreNoLedgers`,
  `MarkersAreNoRecords`, `NoSourceReadsSo` (no source has the name a trace
  prints where there is none).
* The constants have the shape the parsers give documents: `PoolsAreLists`,
  `ListingsAreLists`, `OffersAreFilledIn`, `ScenariosHaveDependencies`,
  `RunsAreNumbered`, `OverlapIsAChoice`, `ComponentWidth`, `DepthIsBounded`,
  `PlansAskKnownSources`.  `RegistriesAreListedOnce`: `RegistrySetIDs` is a
  literal list of different names.
* What was built from sources under the embedded data is an archive, and one a
  registry could serve: `BuiltArtifactsParse`, `BuiltArtifactsAreBytes`.
  Registry documents list versions of such: `CataloguesAreLists`; what is made
  of them is a set, and its metadata one of the listings a client may receive:
  `ServedIsListed`.  A refusal is not a missing answer: `RefusalsDiffer`.
* `ScenariosAreListedOnce`: a scenario is a file, and its document makes it a
  vulnerable one or not (`fixtures.scenarioIDs`).  `ChecksNameScenarios`: the
  lists in `verifyHalfFixes` and `verifyNegativeControls` are literals, and the
  scenario of `verifyPublicShadowImpact` and the reviewed control are ones the
  table gives an approval; their assertions look for one.  `DefaultsAskDefaults`:
  a scenario that needs no opt-in uses no vulnerable registry
  (`fixtures.ValidateConsistency`).  `VerdictsAreKnown`:
  a verdict is one of the package's two, or there is none.

Every property the passing runs check is stated by a theorem but those with
fairness (`KeepsPromise`, `AlwaysEnds` and `EveryRunEnds`: that resolutions and
the runs of Receipts end), which the prover cannot express, since it has no
rule for ENABLED.  Those are only model-checked.
Induction over data is done where it is needed as an argument about a least
counterexample.

## 5. Not modelled

* `containment`, which searches files for forbidden text: no state, no order.
* Of `verify`, the assertions that read no state (containment, fixtures, the
  taxonomy, entries of packages), what each probe of a registry's surface asks
  beyond whether it answers, and the in-process
  registries it can start; of `cmd`, the listings, flags, output formats and
  the health check.
* Layout and wording of transcripts and traces, styling, canonical encoding,
  strict decoding by `encoding/json`, the tar format.
* The registry's validation of requests, its limits on sizes and the rule about
  hosts.
* The embedded documents and their taxonomy.

## 6. Plan

In this order:

1. Commands composed with ReleaseGate in the place of its one step, so that a
   command that dies inside a release is one behaviour.
2. CombinedIndex against Registries' documents, one for each pooled source, as
   Resolver is: which package a pool delivers when every registry is honest.
