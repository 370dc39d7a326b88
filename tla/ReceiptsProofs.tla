--------------------------- MODULE ReceiptsProofs ---------------------------
(***************************************************************************)
(* What the registries' receipts say, for any number of runs, registries   *)
(* and questions, whatever the network loses, delays or repeats and        *)
(* however often registries lose their logs.                               *)
(*                                                                         *)
(* A receipt is a copy of a log, taken after the last answer its run heard *)
(* and before nothing else that matters: so what is shown is what a log    *)
(* holds of a run at every moment, and that a receipt keeps it.            *)
(***************************************************************************)
EXTENDS Receipts, TLAPS

Entries == {Seen(q) : q \in UNION {ToSet(p) : p \in Plans}}

Receipt == [source : Sources, requests : Seq(Entries), signatureVerified : BOOLEAN]

TypeOK ==
    /\ pc \in [Runs -> {"ready", "waiting", "collect", "done", "error"}]
    /\ plan \in [Runs -> Plans]
    /\ acknowledged \in [Runs -> BOOLEAN]
    /\ asked \in [Runs -> Nat]
    /\ heard \in [Runs -> Nat]
    /\ answer \in [Runs -> BOOLEAN]
    /\ messages \subseteq [run : Runs, k : Nat, copy : Nat]
    /\ log \in [Sources -> [Runs -> Seq(Entries)]]
    /\ faults \in Nat
    /\ forgetful \subseteq Sources
    /\ collected \in [Runs -> Nat]
    /\ receipts \in [Runs -> Seq(Receipt)]

\* How far a run is: it waits for its last question's answer, or has it, and
\* takes receipts only when it asks no more.
Paced(r) ==
    /\ asked[r] <= Len(plan[r])
    /\ heard[r] <= asked[r]
    /\ pc[r] = "ready" => heard[r] = asked[r]
    /\ pc[r] = "waiting" => asked[r] = heard[r] + 1
    /\ collected[r] <= Len(Registries)
    /\ pc[r] \in {"ready", "waiting"} => collected[r] = 0 /\ receipts[r] = <<>>
    /\ pc[r] = "done" => collected[r] = Len(Registries)

\* Only what was asked is under way.
OnlyAsked == \A m \in messages : 1 <= m.k /\ m.k <= asked[m.run]

\* The list of what s has seen of r has the questions that were answered, and
\* no other than those that were asked.
Holds(list, r, s) ==
    /\ ToSet(list) \subseteq Account(r, asked[r], s)
    /\ s \notin forgetful => Account(r, heard[r], s) \subseteq ToSet(list)

\* An answer that has come has its question in the log of the registry asked.
AnswerLogged(r) ==
    LET q == plan[r][asked[r]]
    IN  pc[r] = "waiting" /\ answer[r] /\ q.source \notin forgetful =>
           Seen(q) \in ToSet(log[q.source][r])

Logged(r) ==
    /\ \A s \in Sources : Holds(log[s][r], r, s)
    /\ AnswerLogged(r)

Received(r) ==
    \A i \in DOMAIN receipts[r] : Holds(receipts[r][i].requests, r, receipts[r][i].source)

IInv ==
    /\ TypeOK
    /\ OnlyAsked
    /\ \A r \in Runs : Paced(r)
    /\ \A r \in Runs : Logged(r)
    /\ \A r \in Runs : Received(r)
    /\ \A r \in Runs : HeardFrom(r, collected[r])

-----------------------------------------------------------------------------
\* What a run may ask is asked of a registry, and can be recorded.
LEMMA QuestionsAreKnown ==
    ASSUME TypeOK, NEW r \in Runs, NEW k \in 1 .. Len(plan[r])
    PROVE  plan[r][k].source \in Sources /\ Seen(plan[r][k]) \in Entries
  <1>1. plan[r] \in Plans
    BY DEF TypeOK
  <1>2. plan[r] \in Seq(ToSet(plan[r]))
    BY <1>1, PlansAskKnownSources
  <1>3. k \in DOMAIN plan[r]
    BY <1>2
  <1>4. plan[r][k] \in ToSet(plan[r])
    BY <1>3 DEF ToSet
  <1>5. QED
    BY <1>1, <1>3, <1>4, PlansAskKnownSources DEF Entries

LEMMA PlanLength == TypeOK => \A r \in Runs : Len(plan[r]) \in Nat
  <1>1. ASSUME TypeOK, NEW r \in Runs
        PROVE  Len(plan[r]) \in Nat
    <2>1. plan[r] \in Seq(ToSet(plan[r]))
      BY <1>1, PlansAskKnownSources DEF TypeOK
    <2>2. QED
      BY <2>1
  <1>2. QED
    BY <1>1

\* The registries are listed by their positions.
LEMMA Listed ==
    /\ Len(Registries) \in Nat
    /\ \A i \in 1 .. Len(Registries) : Registries[i] \in Sources
  BY RegistriesAreListedOnce

\* An account never shrinks while its run goes on.
LEMMA AccountsGrow ==
    ASSUME NEW r, NEW s, NEW n \in Nat, NEW m \in Nat, n <= m
    PROVE  Account(r, n, s) \subseteq Account(r, m, s)
  BY DEF Account

\* One more question adds nothing but itself.
LEMMA NextEntry ==
    ASSUME NEW r, NEW s, NEW n \in Nat
    PROVE  \A e \in Account(r, n + 1, s) :
              e \in Account(r, n, s) \/ (plan[r][n + 1].source = s /\ e = Seen(plan[r][n + 1]))
  BY DEF Account

\* A receipt is a copy of the log.
LEMMA ReceiptsCopy ==
    ASSUME NEW s, NEW r, NEW receipt \in ReceiptOf(s, r)
    PROVE  /\ receipt.source = s
           /\ receipt.requests = log[s][r]
           /\ s \in Sources /\ log[s][r] \in Seq(Entries) => receipt \in Receipt
  <1> DEFINE verdicts == IF s \in MisKeyed THEN BOOLEAN ELSE {TRUE}
  <1>1. verdicts \subseteq BOOLEAN
    OBVIOUS
  <1>2. receipt \in [source : {s}, requests : {log[s][r]}, signatureVerified : verdicts]
    BY DEF ReceiptOf, RunRequests
  <1> HIDE DEF verdicts
  <1>3. QED
    BY <1>1, <1>2 DEF Receipt

-----------------------------------------------------------------------------
LEMMA InitInvariant == Init => IInv
  <1> SUFFICES ASSUME Init PROVE IInv
    OBVIOUS
  <1>1. TypeOK
    BY DEF Init, TypeOK
  <1>2. OnlyAsked
    BY DEF Init, OnlyAsked
  <1>3. ASSUME NEW r \in Runs
        PROVE  Paced(r)
    BY <1>1, PlanLength, Listed DEF Init, Paced
  <1>4. ASSUME NEW r \in Runs
        PROVE  Logged(r)
    <2>1. ASSUME NEW s \in Sources
          PROVE  Holds(log[s][r], r, s)
      BY DEF Init, Holds, Account, ToSet
    <2>2. QED
      BY <2>1 DEF Init, Logged, AnswerLogged
  <1>5. ASSUME NEW r \in Runs
        PROVE  Received(r) /\ HeardFrom(r, collected[r])
    BY DEF Init, Received, HeardFrom, Running
  <1>6. QED
    BY <1>1, <1>2, <1>3, <1>4, <1>5 DEF IInv

-----------------------------------------------------------------------------
LEMMA NextType == IInv /\ [Next]_vars => TypeOK'
  <1> SUFFICES ASSUME IInv, [Next]_vars PROVE TypeOK'
    OBVIOUS
  <1> USE DEF TypeOK
  <1>0. TypeOK
    BY DEF IInv
  <1>1. ASSUME NEW r \in Runs, Ask(r)
        PROVE  TypeOK'
    BY <1>0, <1>1 DEF Ask, Goto, service, collecting
  <1>2. ASSUME NEW r \in Runs, Receive(r)
        PROVE  TypeOK'
    <2>1. pc' \in [Runs -> {"ready", "waiting", "collect", "done", "error"}]
      BY <1>0, <1>2 DEF Receive, Goto
    <2>2. heard' \in [Runs -> Nat]
      BY <1>0, <1>2 DEF Receive
    <2>3. QED
      BY <1>0, <1>2, <2>1, <2>2 DEF Receive, service, collecting
  <1>3. ASSUME NEW r \in Runs, Timeout(r) \/ Finish(r) \/ Conclude(r)
        PROVE  TypeOK'
    BY <1>0, <1>3 DEF Timeout, Finish, Conclude, Goto, asking, service, collecting
  <1>4. ASSUME NEW r \in Runs, Collect(r)
        PROVE  TypeOK'
    <2>1. collected[r] + 1 \in 1 .. Len(Registries)
      BY <1>0, <1>4, Listed DEF Collect
    <2>2. NextRegistry(r) \in Sources
      BY <2>1, Listed DEF NextRegistry
    <2>3. \A receipt \in ReceiptOf(NextRegistry(r), r) : receipt \in Receipt
      BY <1>0, <2>2, ReceiptsCopy
    <2>4. pc' \in [Runs -> {"ready", "waiting", "collect", "done", "error"}]
      BY <1>0, <1>4 DEF Collect, NoReceipt, Goto
    <2>5. collected' \in [Runs -> Nat]
      BY <1>0, <1>4 DEF Collect, NoReceipt
    <2>6. receipts' \in [Runs -> Seq(Receipt)]
      <3>1. CASE UNCHANGED receipts
        BY <1>0, <3>1
      <3>2. CASE \E receipt \in Receipt : receipts' = [receipts EXCEPT ![r] = Append(@, receipt)]
        BY <1>0, <3>2
      <3>3. QED
        BY <1>4, <2>3, <3>1, <3>2 DEF Collect, NoReceipt
    <2>7. QED
      BY <1>0, <1>4, <2>4, <2>5, <2>6 DEF Collect, asking, service
  <1>5. ASSUME NEW r \in Runs, Resend(r)
        PROVE  TypeOK'
    BY <1>0, <1>5 DEF Resend, collecting
  <1>6. ASSUME NEW m \in messages, Handle(m)
        PROVE  TypeOK'
    <2>1. m.run \in Runs /\ m.k \in 1 .. Len(plan[m.run])
      BY <1>0, <1>6, PlanLength DEF IInv, OnlyAsked, Paced
    <2>2. plan[m.run][m.k].source \in Sources /\ Seen(plan[m.run][m.k]) \in Entries
      BY <1>0, <2>1, QuestionsAreKnown
    <2>3. log' = [log EXCEPT ![plan[m.run][m.k].source][m.run] = Append(@, Seen(plan[m.run][m.k]))]
      BY <1>6 DEF Handle, Recorded
    <2>4. Append(log[plan[m.run][m.k].source][m.run], Seen(plan[m.run][m.k])) \in Seq(Entries)
      BY <1>0, <2>1, <2>2
    <2>5. log' \in [Sources -> [Runs -> Seq(Entries)]]
      BY <1>0, <2>1, <2>2, <2>3, <2>4
    <2>6. QED
      BY <1>0, <1>6, <2>1, <2>5 DEF Handle, Answered, collecting
  <1>7. ASSUME NEW s \in Sources, Forget(s)
        PROVE  TypeOK'
    BY <1>0, <1>7 DEF Forget, asking, collecting
  <1>8. CASE UNCHANGED vars
    BY <1>0, <1>8 DEF vars, asking, service, collecting
  <1>9. QED
    BY <1>1, <1>2, <1>3, <1>4, <1>5, <1>6, <1>7, <1>8 DEF Next, RunStep

LEMMA NextOnlyAsked == IInv /\ [Next]_vars => OnlyAsked'
  <1> SUFFICES ASSUME IInv, [Next]_vars PROVE OnlyAsked'
    OBVIOUS
  <1>0. TypeOK /\ OnlyAsked
    BY DEF IInv
  <1>1. ASSUME NEW r \in Runs, Ask(r)
        PROVE  OnlyAsked'
    <2>1. asked' \in [Runs -> Nat] /\ asked'[r] = asked[r] + 1
          /\ \A q \in Runs : asked[q] <= asked'[q]
      BY <1>0, <1>1 DEF Ask, TypeOK
    <2>2. ASSUME NEW m \in messages'
          PROVE  1 <= m.k /\ m.k <= asked'[m.run]
      <3>1. CASE m \in messages
        <4>1. m.run \in Runs /\ m.k \in Nat
          BY <1>0, <3>1 DEF TypeOK
        <4>2. QED
          BY <1>0, <2>1, <3>1, <4>1 DEF OnlyAsked, TypeOK
      <3>2. CASE m = [run |-> r, k |-> asked'[r], copy |-> 0]
        BY <1>0, <2>1, <3>2 DEF TypeOK
      <3>3. QED
        BY <1>1, <2>2, <3>1, <3>2 DEF Ask
    <2>3. QED
      BY <2>2 DEF OnlyAsked
  <1>2. ASSUME NEW r \in Runs, Resend(r)
        PROVE  OnlyAsked'
    <2>1. 1 <= asked[r] /\ asked[r] <= asked[r]
      BY <1>0, <1>2 DEF Resend, IInv, Paced, TypeOK
    <2>2. QED
      BY <1>0, <1>2, <2>1 DEF Resend, OnlyAsked
  <1>3. CASE asked' = asked /\ messages' \subseteq messages
    BY <1>0, <1>3 DEF OnlyAsked
  <1>4. QED
    BY <1>1, <1>2, <1>3 DEF Next, RunStep, Receive, Timeout, Finish, Collect, Conclude,
                            Handle, Forget, vars, asking

\* A run's pace is its own.
LEMMA PaceStays ==
    ASSUME NEW q \in Runs, Paced(q), plan' = plan, asked'[q] = asked[q], heard'[q] = heard[q],
           pc'[q] = pc[q], collected'[q] = collected[q], receipts'[q] = receipts[q]
    PROVE  Paced(q)'
  BY DEF Paced

LEMMA NextPaced == IInv /\ [Next]_vars => \A q \in Runs : Paced(q)'
  <1> SUFFICES ASSUME IInv, [Next]_vars, NEW q \in Runs PROVE Paced(q)'
    OBVIOUS
  <1>0. TypeOK /\ Paced(q)
    BY DEF IInv
  <1>1. ASSUME NEW r \in Runs, RunStep(r), r # q
        PROVE  Paced(q)'
    <2>1. /\ plan' = plan /\ asked'[q] = asked[q] /\ heard'[q] = heard[q]
          /\ pc'[q] = pc[q] /\ collected'[q] = collected[q] /\ receipts'[q] = receipts[q]
      BY <1>0, <1>1 DEF TypeOK, RunStep, Ask, Receive, Timeout, Finish, Collect, Conclude,
                        NoReceipt, Goto, asking, collecting
    <2>2. QED
      BY <1>0, <2>1, PaceStays
  <1>2. CASE Ask(q)
    BY <1>0, <1>2, PlanLength DEF Ask, Paced, TypeOK, Goto, service, collecting
  <1>3. CASE Receive(q)
    BY <1>0, <1>3, PlanLength DEF Receive, Paced, TypeOK, Goto, service, collecting
  <1>4. CASE Timeout(q) \/ Finish(q)
    BY <1>0, <1>4 DEF Timeout, Finish, Paced, TypeOK, Goto, asking, collecting
  <1>5. CASE Collect(q)
    <2>1. /\ plan' = plan /\ asked'[q] = asked[q] /\ heard'[q] = heard[q]
          /\ pc'[q] \in {"collect", "error"}
          /\ collected'[q] <= Len(Registries)
      BY <1>0, <1>5, Listed DEF Collect, NoReceipt, Goto, Paced, TypeOK, asking
    <2>2. QED
      BY <1>0, <2>1 DEF Paced
  <1>6. CASE Conclude(q)
    BY <1>0, <1>6 DEF Conclude, Paced, TypeOK, Goto, asking, collecting
  <1>7. CASE \/ \E r \in Runs : Resend(r)
             \/ \E m \in messages : Handle(m)
             \/ \E s \in Sources : Forget(s)
             \/ UNCHANGED vars
    <2>1. UNCHANGED <<pc, plan, asked, heard, collected, receipts>>
      BY <1>7 DEF Resend, Handle, Forget, vars, asking, collecting
    <2>2. QED
      BY <1>0, <2>1, PaceStays
  <1>8. QED
    BY <1>1, <1>2, <1>3, <1>4, <1>5, <1>6, <1>7 DEF Next, RunStep

-----------------------------------------------------------------------------
\* A list that was right stays right while its run asks more.
LEMMA HoldsStays ==
    ASSUME TypeOK, NEW r \in Runs, NEW s, NEW list, Holds(list, r, s),
           plan' = plan, asked'[r] \in Nat, asked[r] <= asked'[r], heard'[r] = heard[r],
           forgetful \subseteq forgetful'
    PROVE  Holds(list, r, s)'
  <1>1. Account(r, asked[r], s) \subseteq Account(r, asked'[r], s)
    BY AccountsGrow DEF TypeOK
  <1>2. Account(r, asked[r], s)' = Account(r, asked'[r], s)
    BY DEF Account
  <1>3. Account(r, heard[r], s)' = Account(r, heard[r], s)
    BY DEF Account
  <1>4. QED
    BY <1>1, <1>2, <1>3 DEF Holds

LEMMA LoggedStays ==
    ASSUME IInv, NEW q \in Runs, plan' = plan, asked'[q] = asked[q], heard'[q] = heard[q],
           pc'[q] = "waiting" /\ answer'[q] => pc[q] = "waiting" /\ answer[q],
           \A s \in Sources : log'[s][q] = log[s][q], forgetful \subseteq forgetful'
    PROVE  Logged(q)'
  <1>1. TypeOK /\ Logged(q) /\ asked[q] \in Nat /\ asked[q] <= Len(plan[q])
    BY DEF IInv, TypeOK, Paced
  <1>2. ASSUME NEW s \in Sources
        PROVE  Holds(log[s][q], q, s)'
    <2>1. Holds(log[s][q], q, s)
      BY <1>1 DEF Logged
    <2>2. ToSet(log'[s][q]) = ToSet(log[s][q])
      OBVIOUS
    <2>3. Account(q, asked[q], s)' = Account(q, asked[q], s)
      BY DEF Account
    <2>4. Account(q, heard[q], s)' = Account(q, heard[q], s)
      BY DEF Account
    <2>5. QED
      BY <2>1, <2>2, <2>3, <2>4 DEF Holds
  <1>3. AnswerLogged(q)'
    <2>1. ASSUME pc'[q] = "waiting", answer'[q]
          PROVE  plan[q][asked[q]].source \in Sources
      <3>1. asked[q] \in 1 .. Len(plan[q])
        BY <1>1, <2>1, PlanLength DEF IInv, Paced, TypeOK
      <3>2. QED
        BY <1>1, <3>1, QuestionsAreKnown
    <2>2. Seen(plan[q][asked[q]])' = Seen(plan[q][asked[q]])
      BY DEF Seen, Status
    <2>3. QED
      BY <1>1, <2>1, <2>2 DEF Logged, AnswerLogged
  <1>4. QED
    BY <1>2, <1>3 DEF Logged

LEMMA AppendedElements ==
    ASSUME NEW S, NEW list \in Seq(S), NEW e \in S
    PROVE  ToSet(Append(list, e)) = ToSet(list) \cup {e}
  <1>1. ASSUME NEW x \in ToSet(list)
        PROVE  x \in ToSet(Append(list, e))
    <2>1. PICK i \in 1 .. Len(list) : x = list[i]
      BY <1>1 DEF ToSet
    <2>2. i \in DOMAIN Append(list, e) /\ Append(list, e)[i] = x
      BY <2>1
    <2>3. QED
      BY <2>2 DEF ToSet
  <1>2. e \in ToSet(Append(list, e))
    <2>1. Len(list) + 1 \in DOMAIN Append(list, e) /\ Append(list, e)[Len(list) + 1] = e
      OBVIOUS
    <2>2. QED
      BY <2>1 DEF ToSet
  <1>3. ASSUME NEW x \in ToSet(Append(list, e)), x # e
        PROVE  x \in ToSet(list)
    <2>1. PICK i \in DOMAIN Append(list, e) : x = Append(list, e)[i]
      BY <1>3 DEF ToSet
    <2>2. i \in DOMAIN list /\ list[i] = x
      BY <1>3, <2>1
    <2>3. QED
      BY <2>2 DEF ToSet
  <1>4. QED
    BY <1>1, <1>2, <1>3

\* The last question of the run is recorded, and may be answered.
LEMMA HandleLogged ==
    ASSUME IInv, NEW m \in messages, Handle(m), m.run \in Runs
    PROVE  Logged(m.run)'
  <1> DEFINE q == plan[m.run][m.k]
             r == m.run
  <1>1. TypeOK /\ Logged(r) /\ asked[r] \in Nat /\ m.k \in 1 .. asked[r] /\ asked[r] <= Len(plan[r])
    <2>1. TypeOK /\ Logged(r) /\ Paced(r) /\ OnlyAsked
      BY DEF IInv
    <2>2. asked[r] \in Nat /\ m.k \in Nat
      BY <2>1 DEF TypeOK
    <2>3. QED
      BY <2>1, <2>2 DEF Paced, OnlyAsked
  <1>2. q.source \in Sources /\ Seen(q) \in Entries
    BY <1>1, PlanLength, QuestionsAreKnown
  <1>3. /\ UNCHANGED <<plan, asked, heard, pc, forgetful>>
        /\ log' = [log EXCEPT ![q.source][r] = Append(@, Seen(q))]
        /\ answer' = [answer EXCEPT ![r] = @ \/ m.k = asked[r]]
    BY DEF Handle, Recorded, Answered
  <1>4. ASSUME NEW s \in Sources
        PROVE  ToSet(log'[s][r]) = ToSet(log[s][r]) \cup (IF s = q.source THEN {Seen(q)} ELSE {})
    <2>1. log[s][r] \in Seq(Entries)
      BY <1>1 DEF TypeOK
    <2>2. CASE s = q.source
      <3>1. log'[s][r] = Append(log[s][r], Seen(q))
        BY <1>1, <1>3, <2>2 DEF TypeOK
      <3>2. ToSet(Append(log[s][r], Seen(q))) = ToSet(log[s][r]) \cup {Seen(q)}
        BY ONLY <1>2, <2>1, AppendedElements
      <3>3. QED
        BY <2>2, <3>1, <3>2
    <2>3. CASE s # q.source
      BY <1>1, <1>3, <2>3 DEF TypeOK
    <2>4. QED
      BY <2>2, <2>3
  <1>5. ASSUME NEW s \in Sources
        PROVE  Holds(log[s][r], r, s)'
    <2>1. Holds(log[s][r], r, s)
      BY <1>1 DEF Logged
    <2>2. s = q.source => Seen(q) \in Account(r, asked[r], s)
      BY <1>1 DEF Account
    <2>3. Account(r, asked[r], s)' = Account(r, asked[r], s)
      BY <1>3 DEF Account
    <2>4. Account(r, heard[r], s)' = Account(r, heard[r], s)
      BY <1>3 DEF Account
    <2>5. ToSet(log'[s][r]) = ToSet(log[s][r]) \cup (IF s = q.source THEN {Seen(q)} ELSE {})
      BY <1>4
    <2> HIDE DEF q
    <2>6. /\ ToSet(log'[s][r]) \subseteq Account(r, asked[r], s)
          /\ s \notin forgetful => Account(r, heard[r], s) \subseteq ToSet(log'[s][r])
      BY <2>1, <2>2, <2>5 DEF Holds
    <2>7. QED
      BY <1>3, <2>3, <2>4, <2>6 DEF Holds
  <1>6. AnswerLogged(r)'
    <2>1. ASSUME pc'[r] = "waiting", answer'[r], plan[r][asked[r]].source \notin forgetful
          PROVE  Seen(plan[r][asked[r]]) \in ToSet(log'[plan[r][asked[r]].source][r])
      <3>1. CASE m.k = asked[r]
        BY <1>2, <1>4, <3>1
      <3>2. CASE m.k # asked[r]
        <4>1. answer[r]
          BY <1>1, <1>3, <2>1, <3>2 DEF TypeOK
        <4>2. plan[r][asked[r]].source \in Sources
          BY <1>1, PlanLength, QuestionsAreKnown
        <4>3. QED
          BY <1>1, <1>3, <1>4, <2>1, <4>1, <4>2 DEF Logged, AnswerLogged
      <3>3. QED
        BY <3>1, <3>2
    <2>2. Seen(plan[r][asked[r]])' = Seen(plan[r][asked[r]])
      BY <1>3 DEF Seen, Status
    <2>3. QED
      BY <1>3, <2>1, <2>2 DEF AnswerLogged
  <1>7. QED
    BY <1>5, <1>6 DEF Logged

LEMMA AskLogged ==
    ASSUME IInv, NEW r \in Runs, Ask(r)
    PROVE  Logged(r)'
  <1>1. TypeOK /\ Logged(r)
    BY DEF IInv
  <1>2. /\ asked'[r] = asked[r] + 1 /\ asked[r] \in Nat
        /\ ~answer'[r]
        /\ UNCHANGED <<plan, heard, log, forgetful>>
    BY <1>1 DEF Ask, TypeOK, service
  <1>3. ASSUME NEW s \in Sources
        PROVE  Holds(log[s][r], r, s)'
    <2>1. Holds(log[s][r], r, s)
      BY <1>1 DEF Logged
    <2>2. Account(r, asked[r], s) \subseteq Account(r, asked'[r], s)
      BY <1>2, AccountsGrow
    <2>3. Account(r, asked[r], s)' = Account(r, asked'[r], s)
      BY <1>2 DEF Account
    <2>4. Account(r, heard[r], s)' = Account(r, heard[r], s)
      BY <1>2 DEF Account
    <2>5. QED
      BY <1>2, <2>1, <2>2, <2>3, <2>4 DEF Holds
  <1>4. QED
    BY <1>2, <1>3 DEF Logged, AnswerLogged

\* An answer counts as heard when its question is in the log already.
LEMMA ReceiveLogged ==
    ASSUME IInv, NEW r \in Runs, Receive(r)
    PROVE  Logged(r)'
  <1> DEFINE q == plan[r][asked[r]]
  <1>1. TypeOK /\ Logged(r)
    BY DEF IInv
  <1>2. /\ pc[r] = "waiting" /\ answer[r] /\ pc'[r] # "waiting"
        /\ heard'[r] = heard[r] + 1 /\ heard[r] \in Nat
        /\ UNCHANGED <<plan, asked, log, forgetful>>
    BY <1>1 DEF Receive, Goto, TypeOK, service
  <1>3. asked[r] = heard[r] + 1
    BY <1>2 DEF IInv, Paced
  <1>4. q.source \notin forgetful => Seen(q) \in ToSet(log[q.source][r])
    BY <1>1, <1>2 DEF Logged, AnswerLogged
  <1>5. ASSUME NEW s \in Sources
        PROVE  Holds(log[s][r], r, s)'
    <2>1. Holds(log[s][r], r, s)
      BY <1>1 DEF Logged
    <2>2. \A e \in Account(r, heard[r] + 1, s) :
             e \in Account(r, heard[r], s) \/ (q.source = s /\ e = Seen(q))
      BY <1>2, <1>3, NextEntry
    <2>3. Account(r, heard[r], s)' = Account(r, heard[r] + 1, s)
      BY <1>2 DEF Account
    <2>4. Account(r, asked[r], s)' = Account(r, asked[r], s)
      BY <1>2 DEF Account
    <2>5. s \notin forgetful => Account(r, heard[r] + 1, s) \subseteq ToSet(log[s][r])
      BY <1>4, <2>1, <2>2 DEF Holds
    <2>6. QED
      BY <1>2, <2>1, <2>3, <2>4, <2>5 DEF Holds
  <1>6. QED
    BY <1>2, <1>5 DEF Logged, AnswerLogged

\* A registry that has lost its log says less, and is known to.
LEMMA ForgetLogged ==
    ASSUME IInv, NEW s \in Sources, Forget(s), NEW r \in Runs
    PROVE  Logged(r)'
  <1>1. TypeOK /\ Logged(r)
    BY DEF IInv
  <1>2. /\ UNCHANGED <<pc, plan, asked, heard, answer>>
        /\ forgetful' = forgetful \cup {s}
        /\ log' = [log EXCEPT ![s] = [q \in Runs |-> <<>>]]
    BY DEF Forget, asking
  <1>3. log'[s][r] = <<>> /\ \A t \in Sources \ {s} : log'[t] = log[t]
    BY <1>1, <1>2 DEF TypeOK
  <1>4. ASSUME NEW t \in Sources
        PROVE  Holds(log[t][r], r, t)'
    <2>1. Holds(log[t][r], r, t)
      BY <1>1 DEF Logged
    <2>2. Account(r, asked[r], t)' = Account(r, asked[r], t)
      BY <1>2 DEF Account
    <2>3. Account(r, heard[r], t)' = Account(r, heard[r], t)
      BY <1>2 DEF Account
    <2>4. CASE t = s
      <3>1. ToSet(log'[t][r]) = {}
        BY <1>3, <2>4 DEF ToSet
      <3>2. QED
        BY <1>2, <2>4, <3>1 DEF Holds
    <2>5. CASE t # s
      BY <1>2, <1>3, <2>1, <2>2, <2>3, <2>5 DEF Holds
    <2>6. QED
      BY <2>4, <2>5
  <1>5. AnswerLogged(r)'
    <2>1. ASSUME pc[r] = "waiting", answer[r]
          PROVE  plan[r][asked[r]].source \in Sources
      <3>1. asked[r] \in 1 .. Len(plan[r])
        BY <1>1, <2>1, PlanLength DEF IInv, Paced, TypeOK
      <3>2. QED
        BY <1>1, <3>1, QuestionsAreKnown
    <2>2. Seen(plan[r][asked[r]])' = Seen(plan[r][asked[r]])
      BY <1>2 DEF Seen, Status
    <2>3. QED
      BY <1>1, <1>2, <1>3, <2>1, <2>2 DEF Logged, AnswerLogged
  <1>6. QED
    BY <1>4, <1>5 DEF Logged

LEMMA NextLogged == IInv /\ [Next]_vars => \A q \in Runs : Logged(q)'
  <1> SUFFICES ASSUME IInv, [Next]_vars, NEW q \in Runs PROVE Logged(q)'
    OBVIOUS
  <1>0. TypeOK
    BY DEF IInv
  <1>1. ASSUME NEW r \in Runs, Ask(r) \/ Receive(r), r # q
        PROVE  Logged(q)'
    <2>1. /\ plan' = plan /\ asked'[q] = asked[q] /\ heard'[q] = heard[q]
          /\ pc'[q] = pc[q] /\ answer'[q] = answer[q] /\ log' = log /\ forgetful' = forgetful
      BY <1>0, <1>1 DEF TypeOK, Ask, Receive, Goto, service
    <2>2. QED
      BY <2>1, LoggedStays
  <1>2. CASE Ask(q) \/ Receive(q)
    BY <1>2, AskLogged, ReceiveLogged
  <1>3. ASSUME NEW r \in Runs, Timeout(r) \/ Finish(r) \/ Collect(r) \/ Conclude(r)
        PROVE  Logged(q)'
    <2>1. /\ UNCHANGED <<plan, asked, heard, answer, log, forgetful>>
          /\ pc'[q] = "waiting" => pc[q] = "waiting"
      BY <1>0, <1>3 DEF TypeOK, Timeout, Finish, Collect, Conclude, NoReceipt, Goto,
                        asking, service
    <2>2. QED
      BY <2>1, LoggedStays
  <1>4. ASSUME NEW r \in Runs, Resend(r)
        PROVE  Logged(q)'
    <2>1. UNCHANGED <<pc, plan, asked, heard, answer, log, forgetful>>
      BY <1>4 DEF Resend
    <2>2. QED
      BY <2>1, LoggedStays
  <1>5. ASSUME NEW m \in messages, Handle(m)
        PROVE  Logged(q)'
    <2>1. m.run \in Runs
      BY <1>0 DEF TypeOK
    <2>2. CASE m.run = q
      BY <1>5, <2>2, HandleLogged
    <2>3. CASE m.run # q
      <3>1. /\ UNCHANGED <<pc, plan, asked, heard, forgetful>>
            /\ answer'[q] = answer[q]
            /\ \A s \in Sources : log'[s][q] = log[s][q]
        BY <1>0, <1>5, <2>1, <2>3 DEF TypeOK, Handle, Recorded, Answered
      <3>2. QED
        BY <3>1, LoggedStays
    <2>4. QED
      BY <2>2, <2>3
  <1>6. ASSUME NEW s \in Sources, Forget(s)
        PROVE  Logged(q)'
    BY <1>6, ForgetLogged
  <1>7. CASE UNCHANGED vars
    BY <1>7, LoggedStays DEF vars, asking, service
  <1>8. QED
    BY <1>1, <1>2, <1>3, <1>4, <1>5, <1>6, <1>7 DEF Next, RunStep

-----------------------------------------------------------------------------
\* What was received stays right, whatever the logs become.
LEMMA ReceivedStays ==
    ASSUME IInv, NEW q \in Runs, receipts'[q] = receipts[q], plan' = plan,
           asked'[q] \in Nat, asked[q] <= asked'[q],
           heard'[q] = heard[q] \/ receipts[q] = <<>>, forgetful \subseteq forgetful'
    PROVE  Received(q)'
  <1>1. TypeOK /\ Received(q)
    BY DEF IInv
  <1>2. CASE receipts[q] = <<>>
    BY <1>2 DEF Received
  <1>3. CASE heard'[q] = heard[q]
    <2>1. ASSUME NEW i \in DOMAIN receipts[q]
          PROVE  Holds(receipts[q][i].requests, q, receipts[q][i].source)'
      <3> DEFINE list == receipts[q][i].requests
                 s == receipts[q][i].source
      <3>1. Holds(list, q, s)
        BY <1>1, <2>1 DEF Received
      <3>2. Account(q, asked[q], s) \subseteq Account(q, asked'[q], s)
        BY <1>1, AccountsGrow DEF TypeOK
      <3>3. Account(q, asked[q], s)' = Account(q, asked'[q], s)
        BY DEF Account
      <3>4. Account(q, heard[q], s)' = Account(q, heard[q], s)
        BY <1>3 DEF Account
      <3>5. list' = list /\ s' = s
        OBVIOUS
      <3> HIDE DEF list, s
      <3>6. ToSet(list)' = ToSet(list)
        BY <3>5
      <3>7. Holds(list, q, s)'
        BY <3>1, <3>2, <3>3, <3>4, <3>5, <3>6 DEF Holds
      <3>8. QED
        BY <3>7 DEF list, s
    <2>2. QED
      BY <2>1 DEF Received
  <1>4. QED
    BY <1>2, <1>3

LEMMA CollectReceived ==
    ASSUME IInv, NEW r \in Runs, Collect(r)
    PROVE  Received(r)'
  <1>1. TypeOK /\ Received(r) /\ Logged(r)
    BY DEF IInv
  <1>2. UNCHANGED <<plan, asked, heard, log, forgetful>>
    BY DEF Collect, asking, service
  <1>3. CASE receipts' = receipts
    BY <1>1, <1>2, <1>3, ReceivedStays DEF TypeOK
  <1>4. CASE \E receipt \in ReceiptOf(NextRegistry(r), r) :
                receipts' = [receipts EXCEPT ![r] = Append(@, receipt)]
    <2>1. PICK receipt \in ReceiptOf(NextRegistry(r), r) :
             receipts' = [receipts EXCEPT ![r] = Append(@, receipt)]
      BY <1>4
    <2> DEFINE s == NextRegistry(r)
    <2>2. s \in Sources
      <3>1. collected[r] + 1 \in 1 .. Len(Registries)
        BY <1>1, Listed DEF Collect, TypeOK
      <3>2. QED
        BY <3>1, Listed DEF NextRegistry
    <2>3. receipt \in Receipt /\ receipt.source = s /\ receipt.requests = log[s][r]
      BY <1>1, <2>2, ReceiptsCopy DEF TypeOK
    <2>4. receipts[r] \in Seq(Receipt) /\ receipts'[r] = Append(receipts[r], receipt)
      BY <1>1, <2>1 DEF TypeOK
    <2> HIDE DEF s
    <2>5. Holds(log[s][r], r, s)
      BY <1>1, <2>2 DEF Logged
    <2>6. ASSUME NEW i \in DOMAIN receipts'[r]
          PROVE  Holds(receipts'[r][i].requests, r, receipts'[r][i].source)
      <3>1. CASE i \in DOMAIN receipts[r]
        <4>1. receipts'[r][i] = receipts[r][i]
          BY <2>3, <2>4, <3>1
        <4>2. QED
          BY <1>1, <3>1, <4>1 DEF Received
      <3>2. CASE i = Len(receipts[r]) + 1
        <4>1. receipts'[r][i] = receipt
          BY <2>3, <2>4, <3>2
        <4>2. QED
          BY <2>3, <2>5, <4>1
      <3>3. QED
        BY <2>3, <2>4, <2>6, <3>1, <3>2
    <2>7. ASSUME NEW i \in DOMAIN receipts'[r]
          PROVE  Holds(receipts[r][i].requests, r, receipts[r][i].source)'
      <3>1. Account(r, asked[r], receipts[r][i].source)' =
               Account(r, asked[r], receipts'[r][i].source)
        BY <1>2 DEF Account
      <3>2. Account(r, heard[r], receipts[r][i].source)' =
               Account(r, heard[r], receipts'[r][i].source)
        BY <1>2 DEF Account
      <3>3. QED
        BY <1>2, <2>6, <2>7, <3>1, <3>2 DEF Holds
    <2>8. QED
      BY <2>7 DEF Received
  <1>5. QED
    BY <1>3, <1>4 DEF Collect, NoReceipt

LEMMA NextReceived == IInv /\ [Next]_vars => \A q \in Runs : Received(q)'
  <1> SUFFICES ASSUME IInv, [Next]_vars, NEW q \in Runs PROVE Received(q)'
    OBVIOUS
  <1>0. TypeOK /\ TypeOK'
    BY NextType DEF IInv
  <1>1. CASE Ask(q) \/ Receive(q)
    <2>1. receipts[q] = <<>>
      BY <1>1 DEF IInv, Paced, Ask, Receive
    <2>2. UNCHANGED <<receipts, plan, forgetful>> /\ asked[q] <= asked'[q]
      BY <1>0, <1>1 DEF Ask, Receive, TypeOK, service, collecting
    <2>3. QED
      BY <1>0, <2>1, <2>2, ReceivedStays DEF TypeOK
  <1>2. CASE Collect(q)
    BY <1>2, CollectReceived
  <1>3. ASSUME NEW r \in Runs, RunStep(r), r # q
        PROVE  Received(q)'
    <2>1. /\ plan' = plan /\ asked'[q] = asked[q] /\ heard'[q] = heard[q]
          /\ receipts'[q] = receipts[q] /\ forgetful' = forgetful
      BY <1>0, <1>3 DEF TypeOK, RunStep, Ask, Receive, Timeout, Finish, Collect, Conclude,
                        NoReceipt, Goto, asking, collecting, service
    <2>2. QED
      BY <1>0, <2>1, ReceivedStays DEF TypeOK
  <1>4. CASE \/ Timeout(q) \/ Finish(q) \/ Conclude(q) \/ \E r \in Runs : Resend(r)
             \/ \E m \in messages : Handle(m)
             \/ \E s \in Sources : Forget(s)
             \/ UNCHANGED vars
    <2>1. UNCHANGED <<plan, asked, heard, receipts>> /\ forgetful \subseteq forgetful'
      BY <1>4 DEF Timeout, Finish, Conclude, Resend, Handle, Forget, vars, asking, collecting,
                  service
    <2>2. asked'[q] \in Nat /\ asked[q] <= asked'[q]
      BY <1>0, <2>1 DEF TypeOK
    <2>3. QED
      BY <2>1, <2>2, ReceivedStays
  <1>5. QED
    BY <1>1, <1>2, <1>3, <1>4 DEF Next, RunStep

-----------------------------------------------------------------------------
\* One more registry was passed over, because it is not running.
LEMMA PassedOver ==
    ASSUME IInv, NEW r \in Runs, NextRegistry(r) \in VulnerableSets, ~acknowledged[r]
    PROVE  Running(r, collected[r] + 1) = Running(r, collected[r])
  BY DEF IInv, TypeOK, Running, NextRegistry

LEMMA HeardFromStays ==
    ASSUME NEW r \in Runs, HeardFrom(r, collected[r]), receipts'[r] = receipts[r],
           Running(r, collected[r])' = Running(r, collected[r])
    PROVE  HeardFrom(r, collected[r])'
  <1>1. {receipts'[r][i].source : i \in DOMAIN receipts'[r]} =
           {receipts[r][i].source : i \in DOMAIN receipts[r]}
    OBVIOUS
  <1>2. {Registries[i] : i \in Running(r, collected[r])'} =
           {Registries[i] : i \in Running(r, collected[r])}
    OBVIOUS
  <1>3. ASSUME NEW i \in DOMAIN receipts'[r], NEW j \in DOMAIN receipts'[r], i < j
        PROVE  \E a, b \in Running(r, collected[r])' :
                  /\ a < b
                  /\ receipts'[r][i].source = Registries[a]
                  /\ receipts'[r][j].source = Registries[b]
    <2>1. PICK a \in Running(r, collected[r]), b \in Running(r, collected[r]) :
             /\ a < b
             /\ receipts[r][i].source = Registries[a]
             /\ receipts[r][j].source = Registries[b]
      BY <1>3 DEF HeardFrom
    <2>2. QED
      BY <2>1
  <1>4. {receipts'[r][i].source : i \in DOMAIN receipts'[r]} =
           {Registries[i] : i \in Running(r, collected[r])'}
    BY <1>1, <1>2 DEF HeardFrom
  <1>5. QED
    BY <1>3, <1>4 DEF HeardFrom

LEMMA CollectHeardFrom ==
    ASSUME IInv, NEW r \in Runs, Collect(r)
    PROVE  HeardFrom(r, collected[r])'
  <1>1. TypeOK /\ HeardFrom(r, collected[r])
    BY DEF IInv
  <1>2. collected[r] \in Nat /\ acknowledged' = acknowledged
    BY <1>1 DEF Collect, TypeOK
  <1>3. CASE UNCHANGED <<collected, receipts>>
    <2>1. Running(r, collected[r])' = Running(r, collected[r])
      BY <1>2, <1>3 DEF Running
    <2>2. QED
      BY <1>1, <1>3, <2>1, HeardFromStays
  <1>4. CASE /\ NextRegistry(r) \in VulnerableSets
             /\ ~acknowledged[r]
             /\ collected' = [collected EXCEPT ![r] = @ + 1]
             /\ receipts' = receipts
    <2>1. collected'[r] = collected[r] + 1
      BY <1>1, <1>4 DEF TypeOK
    <2>2. Running(r, collected[r])' = Running(r, collected[r])
      BY <1>2, <1>4, <2>1, PassedOver DEF Running
    <2>3. QED
      BY <1>1, <1>4, <2>2, HeardFromStays
  <1>5. CASE /\ NextRegistry(r) \in VulnerableSets => acknowledged[r]
             /\ collected' = [collected EXCEPT ![r] = @ + 1]
             /\ \E receipt \in ReceiptOf(NextRegistry(r), r) :
                   receipts' = [receipts EXCEPT ![r] = Append(@, receipt)]
    <2> DEFINE n == collected[r]
    <2>1. PICK receipt \in ReceiptOf(NextRegistry(r), r) :
             receipts' = [receipts EXCEPT ![r] = Append(@, receipt)]
      BY <1>5
    <2>2. receipt.source = Registries[n + 1]
      BY ReceiptsCopy DEF NextRegistry
    <2>3. receipts[r] \in Seq(Receipt) /\ receipts'[r] = Append(receipts[r], receipt)
      BY <1>1, <2>1 DEF TypeOK
    <2>4. /\ DOMAIN receipts'[r] = DOMAIN receipts[r] \cup {Len(receipts[r]) + 1}
          /\ DOMAIN receipts[r] = 1 .. Len(receipts[r])
          /\ Len(receipts[r]) \in Nat
          /\ receipts'[r][Len(receipts[r]) + 1] = receipt
          /\ \A i \in DOMAIN receipts[r] : receipts'[r][i] = receipts[r][i]
      BY <2>3
    <2>5. Running(r, n)' = Running(r, n) \cup {n + 1}
      <3>1. collected'[r] = n + 1
        BY <1>1, <1>5 DEF TypeOK
      <3>2. QED
        BY <1>2, <1>5, <3>1 DEF Running, NextRegistry
    <2>6. Running(r, n) \subseteq 1 .. n /\ n \in Nat
      BY <1>2 DEF Running
    <2>7. {receipts'[r][i].source : i \in DOMAIN receipts'[r]} =
             {receipts[r][i].source : i \in DOMAIN receipts[r]} \cup {Registries[n + 1]}
      BY <2>2, <2>4
    <2>8. {receipts'[r][i].source : i \in DOMAIN receipts'[r]} =
             {Registries[i] : i \in Running(r, n)'}
      BY <1>1, <2>5, <2>7 DEF HeardFrom
    <2>9. ASSUME NEW i \in DOMAIN receipts'[r], NEW j \in DOMAIN receipts'[r], i < j
          PROVE  \E a, b \in Running(r, n)' :
                    /\ a < b
                    /\ receipts'[r][i].source = Registries[a]
                    /\ receipts'[r][j].source = Registries[b]
      <3>1. i \in DOMAIN receipts[r]
        BY <2>4, <2>9
      <3>2. CASE j \in DOMAIN receipts[r]
        BY <1>1, <2>4, <2>5, <2>9, <3>1, <3>2 DEF HeardFrom
      <3>3. CASE j = Len(receipts[r]) + 1
        <4>1. PICK a \in Running(r, n) : receipts[r][i].source = Registries[a]
          BY <1>1, <3>1 DEF HeardFrom
        <4>2. a < n + 1
          BY <2>6
        <4>3. QED
          BY <2>2, <2>4, <2>5, <3>1, <3>3, <4>1, <4>2
      <3>4. QED
        BY <2>4, <3>2, <3>3
    <2>10. QED
      BY <2>8, <2>9 DEF HeardFrom
  <1>6. QED
    BY <1>3, <1>4, <1>5 DEF Collect, NoReceipt

LEMMA NextHeardFrom == IInv /\ [Next]_vars => \A q \in Runs : HeardFrom(q, collected[q])'
  <1> SUFFICES ASSUME IInv, [Next]_vars, NEW q \in Runs PROVE HeardFrom(q, collected[q])'
    OBVIOUS
  <1>0. TypeOK /\ HeardFrom(q, collected[q])
    BY DEF IInv
  <1>1. CASE Collect(q)
    BY <1>1, CollectHeardFrom
  <1>2. CASE receipts'[q] = receipts[q] /\ collected'[q] = collected[q]
             /\ acknowledged' = acknowledged
    <2>1. Running(q, collected[q])' = Running(q, collected[q])
      BY <1>2 DEF Running
    <2>2. QED
      BY <1>0, <1>2, <2>1, HeardFromStays
  <1>3. QED
    BY <1>0, <1>1, <1>2 DEF Next, RunStep, TypeOK, Ask, Receive, Timeout, Finish, Collect,
                            Conclude, NoReceipt, Resend, Handle, Forget, vars, collecting

-----------------------------------------------------------------------------
\* The strengthened invariant holds of every reachable state.
THEOREM IInvIsInvariant == Spec => []IInv
  <1>1. Init => IInv
    BY InitInvariant
  <1>2. IInv /\ [Next]_vars => IInv'
    BY NextType, NextOnlyAsked, NextPaced, NextLogged, NextReceived, NextHeardFrom DEF IInv
  <1>3. QED
    BY <1>1, <1>2, PTL DEF Spec

\* A verified receipt lists only what its own run asked that very source,
\* whatever the network delays or repeats and whatever other runs ask.
THEOREM ReceiptsListOnlyOwnQuestions == Spec => []ReceiptsListOnlyTheRunsQuestions
  <1>1. IInv => ReceiptsListOnlyTheRunsQuestions
    BY DEF IInv, Received, Holds, ReceiptsListOnlyTheRunsQuestions
  <1>2. QED
    BY <1>1, IInvIsInvariant, PTL

\* A receipt misses nothing its run had an answer to, unless its registry lost
\* its log.
THEOREM ReceiptsMissNoAnsweredQuestion == Spec => []AnsweredQuestionsAreReported
  <1>1. IInv => AnsweredQuestionsAreReported
    BY DEF IInv, Received, Holds, AnsweredQuestionsAreReported
  <1>2. QED
    BY <1>1, IInvIsInvariant, PTL

\* A transcript has one receipt of every registry that is running, in their order.
THEOREM TranscriptsAskAll == Spec => []TranscriptsAskEveryRegistry
  <1>1. IInv => TranscriptsAskEveryRegistry
    BY DEF IInv, Paced, TranscriptsAskEveryRegistry
  <1>2. QED
    BY <1>1, IInvIsInvariant, PTL
=============================================================================
