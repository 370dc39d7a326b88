------------------------------ MODULE Receipts ------------------------------
(***************************************************************************)
(* internal/registry and the receipt collection of internal/harness: runs  *)
(* that ask registries over a network, the registries' own per-run log of  *)
(* what they were asked, and the signed receipts a run ends by collecting. *)
(*                                                                         *)
(* A handler records in a deferred call, and the server ends a response    *)
(* when its handler has returned: an answer is complete only once the      *)
(* request is in the log.  A client that has waited too long gives up, and *)
(* its request may still arrive; net/http's transport may send a GET again *)
(* on a connection that broke.  A message nothing happens to is lost.      *)
(*                                                                         *)
(* Which questions a run asks is its plan: what the resolvers ask, in      *)
(* their order, for the dependencies of one scenario.  A run goes through  *)
(* its plan and stops at the first answer that fails its build.            *)
(***************************************************************************)
EXTENDS Naturals, Sequences, SequencesExt, FiniteSets

CONSTANTS
    Runs,                   \* executions, each with its own run id
    Plans,                  \* sequences of questions: [source, path, name]
    Registries,             \* every checked-in registry, in the order of ids
    VulnerableSets,         \* those that serve the vulnerable half
    Carried,                \* the <<source, name>> pairs that are served
    MisKeyed,               \* registries that may sign with another key
    MaxFaults               \* bounds the repeated requests and lost logs together

Sources == ToSet(Registries)

ASSUME RegistriesAreListedOnce ==
    /\ Registries \in Seq(Sources)
    /\ \A i, j \in DOMAIN Registries : Registries[i] = Registries[j] => i = j

ASSUME PlansAskKnownSources ==
    \A p \in Plans : p \in Seq(ToSet(p)) /\ \A k \in DOMAIN p : p[k].source \in Sources

VARIABLES
    pc,                     \* what each run does next
    plan,                   \* the questions it would ask
    acknowledged,           \* whether it has both opt-in controls
    asked,                  \* how many it has asked
    heard,                  \* how many of them were answered
    answer,                 \* is there an answer to the last one?
    messages,               \* requests under way: [run, k, copy]
    log,                    \* byRun: what each registry served each run, oldest first
    faults,                 \* requests repeated and logs lost so far
    forgetful,              \* registries that have lost their log
    collected,              \* how many registries it has been through at the end
    receipts                \* the receipts it has taken

asking == <<asked, heard, answer, messages>>

service == <<log, faults, forgetful>>

collecting == <<collected, receipts>>

vars == <<pc, plan, acknowledged, asking, service, collecting>>

Init ==
    /\ pc = [r \in Runs |-> "ready"]
    /\ plan \in [Runs -> Plans]
    /\ acknowledged \in [Runs -> BOOLEAN]
    /\ \A r \in Runs : ~acknowledged[r] =>
          \A k \in DOMAIN plan[r] : plan[r][k].source \notin VulnerableSets
    /\ asked = [r \in Runs |-> 0]
    /\ heard = [r \in Runs |-> 0]
    /\ answer = [r \in Runs |-> FALSE]
    /\ messages = {}
    /\ log = [s \in Sources |-> [r \in Runs |-> <<>>]]
    /\ faults = 0
    /\ forgetful = {}
    /\ collected = [r \in Runs |-> 0]
    /\ receipts = [r \in Runs |-> <<>>]

Goto(r, step) == pc' = [pc EXCEPT ![r] = step]

\* Client.get: the next question is sent, labelled with the run id.
Ask(r) ==
    /\ pc[r] = "ready"
    /\ asked[r] < Len(plan[r])
    /\ asked' = [asked EXCEPT ![r] = @ + 1]
    /\ answer' = [answer EXCEPT ![r] = FALSE]
    /\ messages' = messages \cup {[run |-> r, k |-> asked'[r], copy |-> 0]}
    /\ Goto(r, "waiting")
    /\ UNCHANGED <<plan, acknowledged, heard, service, collecting>>

\* The transport sends an idempotent request once more.
Resend(r) ==
    /\ pc[r] = "waiting"
    /\ faults < MaxFaults
    /\ faults' = faults + 1
    /\ messages' = messages \cup {[run |-> r, k |-> asked[r], copy |-> faults']}
    /\ UNCHANGED <<pc, plan, acknowledged, asked, heard, answer, log, forgetful, collecting>>

\* A package or a version that is not carried is answered 404.
Status(q) == IF <<q.source, q.name>> \in Carried THEN 200 ELSE 404

\* What a handler records of a request.
Seen(q) == [path |-> q.path, name |-> q.name, status |-> Status(q)]

\* Mutant: the run id a request carries is not looked at.
RecordedUnlabelled(m) ==
    LET q == plan[m.run][m.k]
    IN  log' = [log EXCEPT ![q.source][CHOOSE r \in Runs : TRUE] = Append(@, Seen(q))]

\* record: appended to what the run of that id asked this registry.
Recorded(m) ==
    LET q == plan[m.run][m.k]
    IN  log' = [log EXCEPT ![q.source][m.run] = Append(@, Seen(q))]

Answered(m) == answer' = [answer EXCEPT ![m.run] = @ \/ m.k = asked[m.run]]

\* Mutant: the answer is complete before the request is recorded.
HandleRecordingLate(m) ==
    /\ \/ Answered(m) /\ UNCHANGED <<log, messages>>
       \/ Recorded(m) /\ messages' = messages \ {m} /\ UNCHANGED answer
    /\ UNCHANGED <<pc, plan, acknowledged, asked, heard, faults, forgetful, collecting>>

\* ServeHTTP: a request is answered and, under the mutex, recorded; a refusal
\* is recorded like any other answer.
Handle(m) ==
    /\ Recorded(m)
    /\ Answered(m)
    /\ messages' = messages \ {m}
    /\ UNCHANGED <<pc, plan, acknowledged, asked, heard, faults, forgetful, collecting>>

\* The answer to the question the run waits on.  The run goes on, or its build
\* has failed on what it was told (a 404 fails a secure resolution, a document
\* may fail any).
Receive(r) ==
    /\ pc[r] = "waiting"
    /\ answer[r]
    /\ heard' = [heard EXCEPT ![r] = @ + 1]
    /\ Goto(r, "ready") \/ Goto(r, "collect")
    /\ UNCHANGED <<plan, acknowledged, asked, answer, messages, service, collecting>>

\* Mutant: a client waits for its answer for ever.
TimeoutNever(r) == FALSE /\ UNCHANGED vars

\* The client's timeout, or any failure of its transport: the source is
\* unavailable and the build fails.
Timeout(r) ==
    /\ pc[r] = "waiting"
    /\ Goto(r, "collect")
    /\ UNCHANGED <<plan, acknowledged, asking, service, collecting>>

\* Every dependency was resolved; the gate's own work asks nobody anything.
Finish(r) ==
    /\ pc[r] = "ready"
    /\ asked[r] = Len(plan[r])
    /\ Goto(r, "collect")
    /\ UNCHANGED <<plan, acknowledged, asking, service, collecting>>

\* Handler.Reset, or the restart of a service whose log is only in its memory.
Forget(s) ==
    /\ faults < MaxFaults
    /\ faults' = faults + 1
    /\ log' = [log EXCEPT ![s] = [r \in Runs |-> <<>>]]
    /\ forgetful' = forgetful \cup {s}
    /\ UNCHANGED <<pc, plan, acknowledged, asking, collecting>>

RunRequests(s, r) == log[s][r]

NextRegistry(r) == Registries[collected[r] + 1]

\* serveReceipt signs what the log holds of the run; VerifyReceipt says whether
\* that was with the key the harness has for the source.
ReceiptOf(s, r) ==
    [source : {s}, requests : {RunRequests(s, r)},
     signatureVerified : IF s \in MisKeyed THEN BOOLEAN ELSE {TRUE}]

\* Client.Receipt: no answer, an answer that is no receipt, one for another run
\* or one that miscounts itself.  One that claims another source is refused by
\* collectReceipts alike.
NoReceipt(r) == Goto(r, "error") /\ UNCHANGED <<collected, receipts>>

\* Mutant: a receipt that cannot be had is passed over.
CollectLeniently(r) ==
    /\ pc[r] = "collect"
    /\ collected[r] < Len(Registries)
    /\ collected' = [collected EXCEPT ![r] = @ + 1]
    /\ UNCHANGED receipts \/ \E receipt \in ReceiptOf(NextRegistry(r), r) :
                                receipts' = [receipts EXCEPT ![r] = Append(@, receipt)]
    /\ UNCHANGED <<pc, plan, acknowledged, asking, service>>

\* collectReceipts: the next registry, in the order of ids, reports what its log
\* holds of the run; a vulnerable one is left out of an unacknowledged run; one
\* missing receipt and there is no transcript.
Collect(r) ==
    /\ pc[r] = "collect"
    /\ collected[r] < Len(Registries)
    /\ \/ /\ NextRegistry(r) \in VulnerableSets
          /\ ~acknowledged[r]
          /\ collected' = [collected EXCEPT ![r] = @ + 1]
          /\ UNCHANGED <<pc, receipts>>
       \/ /\ NextRegistry(r) \in VulnerableSets => acknowledged[r]
          /\ collected' = [collected EXCEPT ![r] = @ + 1]
          /\ \E receipt \in ReceiptOf(NextRegistry(r), r) :
                receipts' = [receipts EXCEPT ![r] = Append(@, receipt)]
          /\ UNCHANGED pc
       \/ /\ NextRegistry(r) \in VulnerableSets => acknowledged[r]
          /\ NoReceipt(r)
    /\ UNCHANGED <<plan, acknowledged, asking, service>>

\* The transcript is built and written with the receipts in it.
Conclude(r) ==
    /\ pc[r] = "collect"
    /\ collected[r] = Len(Registries)
    /\ Goto(r, "done")
    /\ UNCHANGED <<plan, acknowledged, asking, service, collecting>>

RunStep(r) == Ask(r) \/ Receive(r) \/ Timeout(r) \/ Finish(r) \/ Collect(r) \/ Conclude(r)

Next ==
    \/ \E r \in Runs : RunStep(r) \/ Resend(r)
    \/ \E m \in messages : Handle(m)
    \/ \E s \in Sources : Forget(s)

Spec == Init /\ [][Next]_vars

\* A run goes on by itself: it waits for no answer longer than its timeout.
FairSpec == Spec /\ \A r \in Runs : WF_vars(RunStep(r))

-----------------------------------------------------------------------------
\* What the registry s has seen of a run that got to the n-th of its questions.
Account(r, n, s) == {Seen(plan[r][k]) : k \in {j \in 1 .. n : plan[r][j].source = s}}

\* A verified receipt never says that a run asked what it did not ask: it lists
\* only the run's own questions to that very source.  So a source no question
\* went to has a receipt with nothing in it, whatever was lost, delayed, sent
\* twice or asked by other runs ("separate this run's requests from any other's").
ReceiptsListOnlyTheRunsQuestions ==
    \A r \in Runs : \A i \in DOMAIN receipts[r] :
       receipts[r][i].signatureVerified =>
          ToSet(receipts[r][i].requests) \subseteq Account(r, asked[r], receipts[r][i].source)

\* Every question the run had an answer to, a 404 included, is in the verified
\* receipt of the source asked, unless that registry lost its log: a receipt can
\* miss only what the run itself gave up waiting for.
AnsweredQuestionsAreReported ==
    \A r \in Runs : \A i \in DOMAIN receipts[r] :
       LET s == receipts[r][i].source
       IN  receipts[r][i].signatureVerified /\ s \notin forgetful =>
              Account(r, heard[r], s) \subseteq ToSet(receipts[r][i].requests)

\* The registries that are running when r ends, of the first n.
Running(r, n) ==
    {i \in 1 .. n : Registries[i] \in VulnerableSets => acknowledged[r]}

\* Nothing was heard of r but from those registries, once each, in their order.
HeardFrom(r, n) ==
    /\ {receipts[r][i].source : i \in DOMAIN receipts[r]} = {Registries[i] : i \in Running(r, n)}
    /\ \A i, j \in DOMAIN receipts[r] : i < j =>
          \E a, b \in Running(r, n) :
             /\ a < b
             /\ receipts[r][i].source = Registries[a]
             /\ receipts[r][j].source = Registries[b]

\* A transcript has, from every registry that is running, one receipt ("the
\* harness asks every registry, including the ones a scenario had no reason to
\* contact"), and none claims a source the registries are not known by.
TranscriptsAskEveryRegistry ==
    \A r \in Runs : pc[r] = "done" => HeardFrom(r, Len(Registries))

\* A run always ends, though registries may answer nothing.
EveryRunEnds == \A r \in Runs : <>(pc[r] \in {"done", "error"})

\* "The signature is verified before a receipt is accepted" (TRANSCRIPT.md):
\* a transcript holds only receipts whose signature was verified.
AcceptedReceiptsAreVerified ==
    \A r \in Runs :
       pc[r] = "done" => \A i \in DOMAIN receipts[r] : receipts[r][i].signatureVerified
=============================================================================
