---------------------------- MODULE CommandsProofs --------------------------
(***************************************************************************)
(* The user's commands, for any scenarios, any number of commands and any  *)
(* number of times that the registries stop and start.                     *)
(*                                                                         *)
(* A program's operations rest on each other: an assertion on the run it   *)
(* is about, a run from fresh state on the wipe before it, a directory     *)
(* that is changed on the assertion that will look at it again.  First     *)
(* that every program meets these demands; then that what is left of a     *)
(* program under way still does, where an operation that is gone has left  *)
(* its effect.                                                             *)
(***************************************************************************)
EXTENDS Commands, WellFoundedInduction, TLAPS

Kinds ==
    {"wipe", "execute", "transcribe", "show", "judge-surface", "judge-refusal", "judge-scenario",
     "judge-harness", "judge-verdict", "judge-release", "judge-build"}

Ops == [op : Kinds, path : Paths, s : Scenarios \cup {None}]

Changing == {"wipe", "execute", "transcribe"}

Judgements ==
    {"judge-surface", "judge-refusal", "judge-scenario", "judge-harness", "judge-verdict",
     "judge-release", "judge-build"}

\* Where a command runs scenarios from fresh state.
Fresh(c) == IF c.name \in {"compare", "verify"} THEN {"scenarios", "matrix"} ELSE {}

Twice == {"first", "second"}

\* What an operation x of a command c rests on: another one, at some place.
Demand(place, x) == [place |-> place, of |-> x]

BothRuns(s) ==
    {Op("execute", <<"first", s>>, s), Op("transcribe", <<"first", s>>, s),
     Op("execute", <<"second", s>>, s), Op("transcribe", <<"second", s>>, s)}

Demands(c, x) ==
    {d \in {Demand("just-before", Op("wipe", x.path, x.s))} :
        x.op = "execute" /\ x.path[1] \in Fresh(c)}
    \cup {d \in {Demand("just-after", Op("transcribe", x.path, x.s))} :
             x.op = "execute" /\ x.path[1] \in Twice}
    \cup {d \in {Demand("after", Op("judge-scenario", x.path, x.s))} :
             x.op \in Changing /\ c.name = "verify" /\ x.path[1] = "scenarios"}
    \cup {d \in {Demand("after", Op("judge-harness", <<"second", x.s>>, x.s))} :
             x.op \in Changing /\ x.path[1] \in Twice}
    \cup {d \in {Demand("just-before", Op("execute", x.path, x.s))} : x.op = "judge-scenario"}
    \cup {d \in {Demand("before", Op("execute", x.path, x.s))} :
             x.op \in {"transcribe", "judge-verdict", "judge-release", "judge-build"}}
    \cup {d \in {Demand("before", y) : y \in BothRuns(x.s)} : x.op = "judge-harness"}

Placed(place, j, k) ==
    \/ place = "just-before" /\ j + 1 = k
    \/ place = "before" /\ j < k
    \/ place = "just-after" /\ j = k + 1
    \/ place = "after" /\ j > k

Met(V, k, d) == \E j \in 1 .. Len(V) : V[j] = d.of /\ Placed(d.place, j, k)

\* Every demand in V is met in V, or before V by one of the operations H.
Complete(c, V, H) ==
    \A k \in 1 .. Len(V) : \A d \in Demands(c, V[k]) :
       Met(V, k, d) \/ (d.place = "before" /\ d.of \in H)

\* What an operation of the command c may be about.
Allowed(c, x) ==
    /\ x.op = "wipe" =>
          x.path[1] \in Fresh(c) /\ x.path[2] = x.s /\ x.s \in ToSet(Reachable(c))
    /\ x.op \in {"execute", "transcribe"} => x.s \in Scenarios /\ (x.path = Root \/ x.path[2] = x.s)
    /\ x.op = "execute" /\ x.path = Root => c.name = "release" /\ x.s = c.s
    /\ x.op = "transcribe" => x.path # Root
    /\ x.op = "judge-scenario" =>
          c.name = "verify" /\ x.s \in Scenarios /\ x.path = <<"scenarios", x.s>>
    /\ x.op = "judge-harness" =>
          c.name = "verify" /\ x.s \in Scenarios /\ x.path = <<"second", x.s>>
    /\ x.op \in {"judge-verdict", "judge-release"} =>
          x.s \in Scenarios /\ x.path # Root /\ x.path[2] = x.s
    /\ x.op = "judge-release" => Data[x.s].verdict = "APPROVE"
    /\ x.op = "judge-refusal" => x.s \in ToSet(Guarded) /\ ~Check(c.controls)
    /\ x.op = "judge-build" => c.name = "release"

\* The directories nobody wipes are used once.
Executed(V) == {p \in Unwiped : \E k \in 1 .. Len(V) : V[k].op = "execute" /\ V[k].path = p}

Once(V) ==
    \A j, k \in 1 .. Len(V) :
       V[j].op = "execute" /\ V[k].op = "execute" /\ V[j].path = V[k].path /\ V[j].path \in Unwiped
          => j = k

-----------------------------------------------------------------------------
(***************************************************************************)
(* The invariant.                                                          *)
(***************************************************************************)
Verdicts == {None, "APPROVE", "REJECT"}

Outcomes(s) ==
    [scenario : {s}, result : {"BUILD_OK", "BUILD_FAILED"}, verdict : Verdicts,
     mutation : {"none", "approved", "suppressed-duplicate"},
     failure : {None, "refused", "unreachable"}]

AllOutcomes == UNION {Outcomes(s) : s \in Scenarios}

Candidates == {Data[s].candidate : s \in Scenarios}

Directories ==
    [ledger : {NoFile} \cup SUBSET Candidates, records : Nat,
     transcript : {None, Partial} \cup AllOutcomes]

Begun == commands > 0

TypeOK ==
    /\ commands \in Nat
    /\ Begun => command \in UserCommands
    /\ todo \in Seq(Ops)
    /\ ended \in {"running", "ok", "failed", "stopped"}
    /\ ended = "running" => Begun
    /\ ended # "running" => todo = <<>>
    /\ passing \in BOOLEAN
    /\ DOMAIN held \subseteq Paths
    /\ held = [p \in DOMAIN held |-> held[p]]
    /\ dirs \in [Paths -> Directories]
    /\ up \in SUBSET Halves /\ seen \subseteq SUBSET Halves /\ unused \in BOOLEAN
    /\ ended = "running" => up \in seen

\* An operation that is gone has left its effect: at any time later, and still
\* when the next one begins.
Done(x) ==
    /\ x.path \in DOMAIN held
    /\ x.op = "transcribe" => dirs[x.path].transcript = held[x.path]

Stands(x) ==
    IF x.op = "wipe" THEN dirs[x.path] = Absent
    ELSE /\ x.path \in DOMAIN held
         /\ dirs[x.path].ledger = Saved({}, held[x.path])
         /\ dirs[x.path].records = 1

\* What is left of the program can rely on what it demands.
OnTrack ==
    \A k \in 1 .. Len(todo) :
       /\ Allowed(command, todo[k])
       /\ \A d \in Demands(command, todo[k]) :
             \/ Met(todo, k, d)
             \/ d.place = "before" /\ Done(d.of)
             \/ d.place = "just-before" /\ k = 1 /\ Stands(d.of)

\* What a run came to is an outcome of its scenario, and a run of a vulnerable
\* one was acknowledged.
HeldAreOutcomes ==
    \A p \in DOMAIN held :
       /\ p = Root => held[p] \in AllOutcomes /\ command.name = "release"
       /\ p # Root =>
             /\ \E ledger \in {NoFile} \cup SUBSET Candidates, answering \in SUBSET Halves :
                   held[p] = Outcome(p[2], ledger, answering)
             /\ p[2] \in ToSet(Guarded) => Check(command.controls)

\* What is left does not use a directory nobody wipes again.
OnceOnly ==
    Begun => Once(todo) /\ Executed(todo) \cap DOMAIN held = {}

UnusedYet ==
    Begun /\ unused /\ ended # "stopped" =>
       \A p \in Unwiped : p \in DOMAIN held \/ Entries(dirs[p].ledger) = {}

\* With registries that answer, whichever else do, every run from fresh state, and
\* every first run in a directory nobody wipes, came to what the table expects.
Answering == \A u \in seen : Due(command) \subseteq u

HeldAsExpected ==
    Begun /\ command.name \in {"compare", "verify"} /\ Answering =>
       \A p \in DOMAIN held : unused \/ p \notin Unwiped => held[p] = Expected(p[2])

\* Every reachable scenario has been run in a comparison, or will be.
RunOrToRun ==
    Begun /\ command.name = "compare" /\ ended # "stopped" =>
       \A s \in ToSet(Reachable(command)) :
          \/ <<"scenarios", s>> \in DOMAIN held
          \/ \E k \in 1 .. Len(todo) : todo[k] = Op("execute", <<"scenarios", s>>, s)

LeftAsExpected(s) ==
    /\ dirs[<<"scenarios", s>>].ledger = Saved({}, Expected(s))
    /\ dirs[<<"scenarios", s>>].records = 1

ToldAsExpected(s) ==
    /\ dirs[<<"first", s>>].transcript = Expected(s)
    /\ dirs[<<"second", s>>].transcript = Expected(s)

\* Every reachable scenario's directories are as expected, or will be looked at.
JudgedOrToJudge ==
    Begun /\ command.name = "verify" /\ ended # "stopped" /\ passing =>
       \A s \in ToSet(Reachable(command)) :
          /\ LeftAsExpected(s)
             \/ \E k \in 1 .. Len(todo) : todo[k] = Op("judge-scenario", <<"scenarios", s>>, s)
          /\ ToldAsExpected(s)
             \/ \E k \in 1 .. Len(todo) : todo[k] = Op("judge-harness", <<"second", s>>, s)

\* The registries have been found as they are to be, or will be looked at.
Surface == Op("judge-surface", Root, None)

FoundOrToFind ==
    Begun /\ command.name = "verify" /\ ended # "stopped" /\ passing =>
       Due(command) \in seen \/ \E k \in 1 .. Len(todo) : todo[k] = Surface

PassingUndisturbed ==
    Begun /\ command.name = "verify" /\ seen = {Due(command)} /\ unused => passing

EndIsSaid ==
    Begun => /\ ended = "ok" => passing
             /\ ended = "failed" => ~passing

IInv ==
    /\ TypeOK
    /\ OnTrack
    /\ HeldAreOutcomes
    /\ OnceOnly
    /\ UnusedYet
    /\ HeldAsExpected
    /\ RunOrToRun
    /\ JudgedOrToJudge
    /\ FoundOrToFind
    /\ PassingUndisturbed
    /\ EndIsSaid

-----------------------------------------------------------------------------
(***************************************************************************)
(* Programs that are joined.                                               *)
(***************************************************************************)
LEMMA Joined ==
    ASSUME NEW S, NEW A \in Seq(S), NEW B \in Seq(S)
    PROVE  /\ A \o B \in Seq(S)
           /\ Len(A) \in Nat /\ Len(B) \in Nat /\ Len(A \o B) = Len(A) + Len(B)
           /\ \A i \in 1 .. Len(A) : (A \o B)[i] = A[i]
           /\ \A i \in 1 .. Len(B) : (A \o B)[Len(A) + i] = B[i]
           /\ \A k \in 1 .. Len(A \o B) :
                 k \in 1 .. Len(A) \/ \E i \in 1 .. Len(B) : k = Len(A) + i
  <1>1. /\ A \o B \in Seq(S)
        /\ Len(A) \in Nat /\ Len(B) \in Nat /\ Len(A \o B) = Len(A) + Len(B)
        /\ \A i \in 1 .. Len(A) : (A \o B)[i] = A[i]
        /\ \A i \in 1 .. Len(B) : (A \o B)[Len(A) + i] = B[i]
    OBVIOUS
  <1>2. ASSUME NEW k \in 1 .. Len(A \o B), k \notin 1 .. Len(A)
        PROVE  \E i \in 1 .. Len(B) : k = Len(A) + i
    <2>1. k - Len(A) \in 1 .. Len(B) /\ k = Len(A) + (k - Len(A))
      BY <1>1, <1>2
    <2>2. QED
      BY <2>1
  <1>3. QED
    BY <1>1, <1>2

LEMMA Elements == \A S : \A V \in Seq(S) : ToSet(V) = {V[i] : i \in 1 .. Len(V)}
  BY DEF ToSet

\* A set of numbers has a least one.
LEMMA Least ==
    ASSUME NEW T, T \subseteq Nat, T # {}
    PROVE  \E x \in T : \A y \in T : x <= y
  <1> DEFINE R == OpToRel(<, Nat)
  <1>1. IsWellFoundedOn(R, Nat)
    BY NatLessThanWellFounded
  <1>2. \A x, y \in Nat : y < x => <<y, x>> \in R
    BY DEF OpToRel
  <1> HIDE DEF R
  <1>3. PICK x \in T : \A y \in T : ~ (<<y, x>> \in R)
    BY <1>1, WFMin
  <1>4. ASSUME NEW y \in T PROVE x <= y
    <2>1. x \in Nat /\ y \in Nat
      OBVIOUS
    <2>2. ~ (y < x)
      BY <1>2, <1>3, <2>1
    <2>3. QED
      BY <2>1, <2>2
  <1>5. QED
    BY <1>3, <1>4

\* Induction up to a bound, over a set of numbers.
LEMMA Steps ==
    ASSUME NEW T, NEW n \in Nat, 0 \in T, \A m \in 0 .. n - 1 : m \in T => m + 1 \in T
    PROVE  \A m \in 0 .. n : m \in T
  <1> DEFINE Bad == {m \in 0 .. n : m \notin T}
  <1>1. Bad \subseteq Nat /\ \A m \in Bad : m \in 0 .. n /\ m \notin T
    OBVIOUS
  <1>2. \A m \in 0 .. n : m \notin T => m \in Bad
    OBVIOUS
  <1> HIDE DEF Bad
  <1>3. ASSUME Bad # {}
        PROVE  FALSE
    <2>1. PICK x \in Bad : \A y \in Bad : x <= y
      BY <1>1, <1>3, Least
    <2>2. x \in 0 .. n /\ x \notin T /\ x # 0
      BY <1>1
    <2>3. x - 1 \in 0 .. n - 1 /\ x - 1 + 1 = x /\ x - 1 \in 0 .. n /\ ~ (x <= x - 1)
      BY <2>2
    <2>4. x - 1 \in T
      BY <1>2, <2>1, <2>3
    <2>5. QED
      BY <2>2, <2>3, <2>4
  <1>4. QED
    BY <1>2, <1>3

\* f joins the first blocks, up to each of n.
Joining(f, blocks, n) ==
    f = [i \in 1 .. n |-> IF i = 1 THEN blocks[i] ELSE f[i - 1] \o blocks[i]]

LEMMA JoiningExists ==
    ASSUME NEW blocks, NEW n \in Nat
    PROVE  \E f : Joining(f, blocks, n)
  <1> DEFINE T == {m \in Nat : \E f : Joining(f, blocks, m)}
  <1>1. ASSUME NEW m \in Nat, NEW f, Joining(f, blocks, m)
        PROVE  \E g : Joining(g, blocks, m + 1)
    <2> DEFINE g == [i \in 1 .. m + 1 |->
                       IF i \in 1 .. m THEN f[i]
                       ELSE IF i = 1 THEN blocks[i] ELSE f[i - 1] \o blocks[i]]
    <2>1. \A i \in 1 .. m : f[i] = IF i = 1 THEN blocks[i] ELSE f[i - 1] \o blocks[i]
      BY <1>1 DEF Joining
    <2>2. \A i \in 1 .. m : i \in 1 .. m + 1 /\ g[i] = f[i]
      OBVIOUS
    <2>3. g[m + 1] = IF m + 1 = 1 THEN blocks[m + 1] ELSE f[m] \o blocks[m + 1]
      <3>1. m + 1 \in 1 .. m + 1 /\ m + 1 \notin 1 .. m /\ m + 1 - 1 = m
        OBVIOUS
      <3>2. QED
        BY <3>1
    <2>4. g = [i \in 1 .. m + 1 |-> g[i]]
      OBVIOUS
    <2> HIDE DEF g
    <2>5. \A i \in 1 .. m + 1 : g[i] = IF i = 1 THEN blocks[i] ELSE g[i - 1] \o blocks[i]
      <3>1. ASSUME NEW i \in 1 .. m
            PROVE  g[i] = IF i = 1 THEN blocks[i] ELSE g[i - 1] \o blocks[i]
        <4>1. i # 1 => i - 1 \in 1 .. m
          OBVIOUS
        <4>2. QED
          BY <2>1, <2>2, <4>1
      <3>2. g[m + 1] = IF m + 1 = 1 THEN blocks[m + 1] ELSE g[m + 1 - 1] \o blocks[m + 1]
        <4>1. m + 1 # 1 => m \in 1 .. m /\ m + 1 - 1 = m
          OBVIOUS
        <4>2. QED
          BY <2>2, <2>3, <4>1
      <3>3. \A i \in 1 .. m + 1 : i \in 1 .. m \/ i = m + 1
        OBVIOUS
      <3>4. QED
        BY <3>1, <3>2, <3>3
    <2>6. Joining(g, blocks, m + 1)
      BY <2>4, <2>5 DEF Joining
    <2>7. QED
      BY <2>6
  <1>2. \E f : Joining(f, blocks, 0)
    <2>1. Joining(<<>>, blocks, 0)
      BY DEF Joining
    <2>2. QED
      BY <2>1
  <1>3. 0 \in T /\ \A m \in 0 .. n - 1 : m \in T => m + 1 \in T
    BY <1>1, <1>2
  <1>4. n \in T
    <2>1. n \in 0 .. n
      OBVIOUS
    <2> HIDE DEF T
    <2>2. \A m \in 0 .. n : m \in T
      BY ONLY n \in Nat, <1>3, Steps
    <2>3. QED
      BY <2>1, <2>2
  <1>5. QED
    BY <1>4

\* A sequence of programs is joined one by one: what is true of none, and of one
\* more when it is true of those before, is true of all.
LEMMA Flattened ==
    ASSUME NEW S, NEW blocks \in Seq(Seq(S)), NEW T,
           <<>> \in T[0],
           \A n \in 1 .. Len(blocks) : \A V \in Seq(S) : V \in T[n - 1] => V \o blocks[n] \in T[n]
    PROVE  FlattenSeq(blocks) \in Seq(S) /\ FlattenSeq(blocks) \in T[Len(blocks)]
  <1> DEFINE N == Len(blocks)
             f == CHOOSE g : g = [i \in 1 .. N |-> IF i = 1 THEN blocks[i] ELSE g[i - 1] \o blocks[i]]
             Q == {m \in Nat : m = 0 \/ (f[m] \in Seq(S) /\ f[m] \in T[m])}
  <1>1. N \in Nat /\ \A i \in 1 .. N : blocks[i] \in Seq(S)
    <2>1. \A X : \A t \in Seq(X) : Len(t) \in Nat /\ \A i \in 1 .. Len(t) : t[i] \in X
      OBVIOUS
    <2>2. QED
      BY ONLY <2>1, blocks \in Seq(Seq(S))
  <1>2. CASE N = 0
    <2>1. FlattenSeq(blocks) = blocks
      BY <1>2 DEF FlattenSeq
    <2>2. blocks = <<>>
      BY <1>2
    <2>3. QED
      BY <1>2, <2>1, <2>2
  <1>3. CASE N # 0
    <2>1. FlattenSeq(blocks) = f[N]
      BY <1>3 DEF FlattenSeq
    <2>2. Joining(f, blocks, N)
      <3>1. \E g : Joining(g, blocks, N)
        BY <1>1, JoiningExists
      <3>2. QED
        BY <3>1 DEF Joining
    <2> HIDE DEF f
    <2>3. \A i \in 1 .. N : f[i] = IF i = 1 THEN blocks[i] ELSE f[i - 1] \o blocks[i]
      BY <2>2 DEF Joining
    <2>4. ASSUME NEW m \in 0 .. N - 1, m \in Q
          PROVE  m + 1 \in Q
      <3> DEFINE n == m + 1
      <3>1. n \in 1 .. N /\ n - 1 = m /\ n \in Nat /\ (m = 0 <=> n = 1)
        BY <1>1
      <3> HIDE DEF n
      <3>2. blocks[n] \in Seq(S)
        BY <1>1, <3>1
      <3>3. CASE m = 0
        <4>1. f[n] = blocks[n] /\ n = 1
          BY <2>3, <3>1, <3>3
        <4>2. <<>> \o blocks[n] = blocks[n] /\ <<>> \in Seq(S)
          BY <3>2
        <4>3. <<>> \in T[n - 1]
          BY <3>1, <3>3
        <4>4. blocks[n] \in T[n]
          BY <3>1, <4>2, <4>3
        <4>5. QED
          BY <3>1, <3>2, <4>1, <4>4 DEF n
      <3>4. CASE m # 0
        <4>1. f[n] = f[m] \o blocks[n]
          BY <2>3, <3>1, <3>4
        <4>2. f[m] \in Seq(S) /\ f[m] \in T[n - 1]
          BY <2>4, <3>1, <3>4
        <4>3. f[m] \o blocks[n] \in T[n] /\ f[m] \o blocks[n] \in Seq(S)
          BY <3>1, <3>2, <4>2
        <4>4. QED
          BY <3>1, <4>1, <4>3 DEF n
      <3>5. QED
        BY <3>3, <3>4
    <2>5. 0 \in Q /\ \A m \in Q : m # 0 => f[m] \in Seq(S) /\ f[m] \in T[m]
      OBVIOUS
    <2> HIDE DEF Q
    <2>6. \A m \in 0 .. N : m \in Q
      BY <1>1, <2>4, <2>5, Steps
    <2>7. N \in Q
      BY <1>1, <2>6
    <2>8. QED
      BY <1>3, <2>1, <2>5, <2>7
  <1>4. QED
    BY <1>2, <1>3

\* A program of which all that matters here is true: what its operations may be
\* about, that they find what they demand, and that of the directories nobody
\* wipes it uses each of X once at most and no other.
Sound(c, V, H, X) ==
    /\ V \in Seq(Ops)
    /\ \A k \in 1 .. Len(V) : Allowed(c, V[k])
    /\ Complete(c, V, H)
    /\ Once(V)
    /\ Executed(V) \subseteq X

LEMMA JoinedComplete ==
    ASSUME NEW c, NEW H, NEW A \in Seq(Ops), NEW B \in Seq(Ops),
           Complete(c, A, H), Complete(c, B, H \cup ToSet(A))
    PROVE  Complete(c, A \o B, H)
  <1> DEFINE V == A \o B
  <1>1. /\ Len(A) \in Nat /\ Len(B) \in Nat /\ Len(V) = Len(A) + Len(B)
        /\ \A i \in 1 .. Len(A) : V[i] = A[i]
        /\ \A i \in 1 .. Len(B) : V[Len(A) + i] = B[i]
        /\ \A k \in 1 .. Len(V) : k \in 1 .. Len(A) \/ \E i \in 1 .. Len(B) : k = Len(A) + i
    BY Joined
  <1> HIDE DEF V
  <1>2. \A i \in 1 .. Len(A) : i \in 1 .. Len(V) /\ i \in Nat
    BY <1>1
  <1>3. \A i \in 1 .. Len(B) : Len(A) + i \in 1 .. Len(V) /\ Len(A) + i \in Nat /\ i \in Nat
    BY <1>1
  <1>4. ASSUME NEW k \in 1 .. Len(A), NEW d \in Demands(c, V[k])
        PROVE  Met(V, k, d) \/ (d.place = "before" /\ d.of \in H)
    <2>1. Met(A, k, d) \/ (d.place = "before" /\ d.of \in H)
      BY <1>1, <1>4 DEF Complete
    <2>2. Met(A, k, d) => Met(V, k, d)
      BY <1>1, <1>2 DEF Met
    <2>3. QED
      BY <2>1, <2>2
  <1>5. ASSUME NEW i \in 1 .. Len(B), NEW d \in Demands(c, V[Len(A) + i])
        PROVE  Met(V, Len(A) + i, d) \/ (d.place = "before" /\ d.of \in H)
    <2>1. Met(B, i, d) \/ (d.place = "before" /\ d.of \in H \cup ToSet(A))
      BY <1>1, <1>5 DEF Complete
    <2>2. ASSUME Met(B, i, d)
          PROVE  Met(V, Len(A) + i, d)
      <3>1. PICK j \in 1 .. Len(B) : B[j] = d.of /\ Placed(d.place, j, i)
        BY <2>2 DEF Met
      <3>2. Len(A) + j \in 1 .. Len(V) /\ V[Len(A) + j] = d.of
        BY <1>1, <1>3, <3>1
      <3>3. Placed(d.place, Len(A) + j, Len(A) + i)
        <4>1. /\ j + 1 = i => (Len(A) + j) + 1 = Len(A) + i
              /\ j < i => Len(A) + j < Len(A) + i
              /\ j = i + 1 => Len(A) + j = (Len(A) + i) + 1
              /\ j > i => Len(A) + j > Len(A) + i
          BY <1>1
        <4>2. QED
          BY <3>1, <4>1 DEF Placed
      <3>4. QED
        BY <3>2, <3>3 DEF Met
    <2>3. ASSUME d.place = "before", d.of \in ToSet(A)
          PROVE  Met(V, Len(A) + i, d)
      <3>1. PICK j \in 1 .. Len(A) : A[j] = d.of
        BY <2>3 DEF ToSet
      <3>2. j < Len(A) + i
        BY <1>1
      <3>3. QED
        BY <1>1, <1>2, <2>3, <3>1, <3>2 DEF Met, Placed
    <2>4. QED
      BY <2>1, <2>2, <2>3
  <1>6. QED
    BY <1>1, <1>4, <1>5 DEF Complete, V

LEMMA JoinedSound ==
    ASSUME NEW c, NEW H, NEW X, NEW Y, NEW A, NEW B, X \cap Y = {},
           Sound(c, A, H, X), Sound(c, B, H \cup ToSet(A), Y)
    PROVE  /\ Sound(c, A \o B, H, X \cup Y)
           /\ ToSet(A) \subseteq ToSet(A \o B) /\ ToSet(B) \subseteq ToSet(A \o B)
  <1> DEFINE V == A \o B
  <1>0. A \in Seq(Ops) /\ B \in Seq(Ops)
    BY DEF Sound
  <1>1. /\ V \in Seq(Ops)
        /\ Len(A) \in Nat /\ Len(B) \in Nat /\ Len(V) = Len(A) + Len(B)
        /\ \A i \in 1 .. Len(A) : V[i] = A[i]
        /\ \A i \in 1 .. Len(B) : V[Len(A) + i] = B[i]
        /\ \A k \in 1 .. Len(V) : k \in 1 .. Len(A) \/ \E i \in 1 .. Len(B) : k = Len(A) + i
    BY <1>0, Joined
  <1>2. Complete(c, V, H)
    BY <1>0, JoinedComplete DEF Sound
  <1> HIDE DEF V
  <1>3. /\ \A i \in 1 .. Len(A) : i \in 1 .. Len(V)
        /\ \A i \in 1 .. Len(B) : Len(A) + i \in 1 .. Len(V)
    BY <1>1
  <1>4. \A k \in 1 .. Len(V) : Allowed(c, V[k])
    BY <1>1 DEF Sound
  <1>5. Executed(V) \subseteq X \cup Y
    <2>1. ASSUME NEW p \in Executed(V)
          PROVE  p \in Executed(A) \cup Executed(B)
      <3>1. PICK k \in 1 .. Len(V) : p \in Unwiped /\ V[k].op = "execute" /\ V[k].path = p
        BY DEF Executed
      <3>2. CASE k \in 1 .. Len(A)
        BY <1>1, <3>1, <3>2 DEF Executed
      <3>3. CASE k \notin 1 .. Len(A)
        <4>1. PICK i \in 1 .. Len(B) : V[k] = B[i]
          BY <1>1, <3>3
        <4>2. QED
          BY <3>1, <4>1 DEF Executed
      <3>4. QED
        BY <3>2, <3>3
    <2>2. QED
      BY <2>1 DEF Sound
  <1>6. ASSUME NEW i \in 1 .. Len(A), NEW j \in 1 .. Len(B),
               A[i].op = "execute", B[j].op = "execute", A[i].path \in Unwiped
        PROVE  A[i].path # B[j].path
    BY <1>6 DEF Sound, Executed
  <1>7. Once(V)
    <2> SUFFICES ASSUME NEW j \in 1 .. Len(V), NEW k \in 1 .. Len(V),
                        V[j].op = "execute", V[k].op = "execute", V[j].path = V[k].path,
                        V[j].path \in Unwiped
                 PROVE  j = k
      BY DEF Once
    <2>1. CASE j \in 1 .. Len(A) /\ k \in 1 .. Len(A)
      <3>1. V[j] = A[j] /\ V[k] = A[k]
        BY <1>1, <2>1
      <3>2. Once(A)
        BY DEF Sound
      <3>3. QED
        BY <2>1, <3>1, <3>2 DEF Once
    <2>2. CASE j \in 1 .. Len(A) /\ k \notin 1 .. Len(A)
      <3>1. PICK m \in 1 .. Len(B) : V[k] = B[m]
        BY <1>1, <2>2
      <3>2. V[j] = A[j]
        BY <1>1, <2>2
      <3>3. QED
        BY <1>6, <2>2, <3>1, <3>2
    <2>3. CASE j \notin 1 .. Len(A) /\ k \in 1 .. Len(A)
      <3>1. PICK m \in 1 .. Len(B) : V[j] = B[m]
        BY <1>1, <2>3
      <3>2. V[k] = A[k]
        BY <1>1, <2>3
      <3>3. QED
        BY <1>6, <2>3, <3>1, <3>2
    <2>4. CASE j \notin 1 .. Len(A) /\ k \notin 1 .. Len(A)
      <3>1. PICK i \in 1 .. Len(B) : j = Len(A) + i
        BY <1>1, <2>4
      <3>2. PICK m \in 1 .. Len(B) : k = Len(A) + m
        BY <1>1, <2>4
      <3>3. B[i] = V[j] /\ B[m] = V[k]
        BY <1>1, <3>1, <3>2
      <3>4. i = m
        BY <3>3 DEF Sound, Once
      <3>5. QED
        BY <3>1, <3>2, <3>4
    <2>5. QED
      BY <2>1, <2>2, <2>3, <2>4
  <1>8. ToSet(A) \subseteq ToSet(V) /\ ToSet(B) \subseteq ToSet(V)
    <2>1. /\ ToSet(A) = {A[i] : i \in 1 .. Len(A)} /\ ToSet(B) = {B[i] : i \in 1 .. Len(B)}
          /\ ToSet(V) = {V[i] : i \in 1 .. Len(V)}
      BY <1>0, <1>1, Elements
    <2>2. QED
      BY <1>1, <1>3, <2>1
  <1>9. QED
    BY <1>1, <1>2, <1>4, <1>5, <1>7, <1>8 DEF Sound, V

LEMMA SoundWeaker ==
    ASSUME NEW c, NEW V, NEW H, NEW X, NEW H2, NEW X2, Sound(c, V, H, X),
           H \subseteq H2, X \subseteq X2
    PROVE  Sound(c, V, H2, X2)
  BY DEF Sound, Complete

LEMMA NothingIsSound == \A c, H, X : Sound(c, <<>>, H, X)
  BY DEF Sound, Complete, Once, Executed

LEMMA FlattenedSound ==
    ASSUME NEW c, NEW H, NEW blocks \in Seq(Seq(Ops)), NEW X,
           \A n \in 1 .. Len(blocks) : Sound(c, blocks[n], H, X[n]),
           \A m, n \in 1 .. Len(blocks) : m # n => X[m] \cap X[n] = {}
    PROVE  /\ Sound(c, FlattenSeq(blocks), H, UNION {X[n] : n \in 1 .. Len(blocks)})
           /\ \A n \in 1 .. Len(blocks) : ToSet(blocks[n]) \subseteq ToSet(FlattenSeq(blocks))
  <1> DEFINE N == Len(blocks)
             Upto(n) == UNION {X[m] : m \in 1 .. n}
             T == [n \in 0 .. N |->
                     {V \in Seq(Ops) : /\ Sound(c, V, H, Upto(n))
                                       /\ \A m \in 1 .. n : ToSet(blocks[m]) \subseteq ToSet(V)}]
  <1>1. N \in Nat
    OBVIOUS
  <1>2. <<>> \in T[0]
    BY <1>1, NothingIsSound
  <1>3. ASSUME NEW n \in 1 .. N, NEW V \in Seq(Ops), V \in T[n - 1]
        PROVE  V \o blocks[n] \in T[n]
    <2>1. n - 1 \in 0 .. N /\ n \in 0 .. N
      BY <1>1
    <2>2. Sound(c, V, H, Upto(n - 1)) /\ \A m \in 1 .. n - 1 : ToSet(blocks[m]) \subseteq ToSet(V)
      BY <1>3, <2>1
    <2>3. Sound(c, blocks[n], H \cup ToSet(V), X[n])
      BY SoundWeaker
    <2>4. Upto(n - 1) \cap X[n] = {}
      <3>1. \A m \in 1 .. n - 1 : m \in 1 .. N /\ m # n
        BY <1>1
      <3>2. QED
        BY <3>1
    <2>5. Upto(n) = Upto(n - 1) \cup X[n]
      <3>1. \A m \in Int : m \in 1 .. n <=> m \in 1 .. n - 1 \/ m = n
        BY <1>1
      <3>2. QED
        BY <3>1
    <2> HIDE DEF Upto
    <2>6. /\ Sound(c, V \o blocks[n], H, Upto(n - 1) \cup X[n])
          /\ ToSet(V) \subseteq ToSet(V \o blocks[n])
          /\ ToSet(blocks[n]) \subseteq ToSet(V \o blocks[n])
      BY <2>2, <2>3, <2>4, JoinedSound
    <2>7. V \o blocks[n] \in Seq(Ops)
      BY <2>6 DEF Sound
    <2>8. \A m \in 1 .. n : m \in 1 .. n - 1 \/ m = n
      BY <1>1
    <2>9. \A m \in 1 .. n : ToSet(blocks[m]) \subseteq ToSet(V \o blocks[n])
      BY <2>2, <2>6, <2>8
    <2>10. QED
      BY <2>1, <2>5, <2>6, <2>7, <2>9
  <1> HIDE DEF T
  <1>4. FlattenSeq(blocks) \in T[N]
    BY <1>2, <1>3, Flattened
  <1>5. QED
    BY <1>1, <1>4 DEF T

\* One program for each scenario of a list, each in directories of its own.
LEMMA EachSound ==
    ASSUME NEW c, NEW H, NEW list \in Seq(Scenarios), NEW areas, NEW blocks,
           blocks = [i \in 1 .. Len(list) |-> blocks[i]],
           \A i \in 1 .. Len(list) : Sound(c, blocks[i], H, areas \X {list[i]}),
           IsInjective(list)
    PROVE  /\ Sound(c, FlattenSeq(blocks), H, areas \X ToSet(list))
           /\ \A i \in 1 .. Len(list) : ToSet(blocks[i]) \subseteq ToSet(FlattenSeq(blocks))
  <1> DEFINE X == [i \in 1 .. Len(list) |-> areas \X {list[i]}]
             V == FlattenSeq(blocks)
  <1>1. Len(list) \in Nat /\ DOMAIN list = 1 .. Len(list)
    OBVIOUS
  <1>2. ToSet(list) = {list[i] : i \in 1 .. Len(list)}
    BY Elements
  <1>3. blocks \in Seq(Seq(Ops)) /\ Len(blocks) = Len(list)
    <2>1. \A i \in 1 .. Len(list) : blocks[i] \in Seq(Ops)
      BY DEF Sound
    <2>2. QED
      BY <1>1, <2>1
  <1>4. \A i \in 1 .. Len(list) : X[i] = areas \X {list[i]}
    OBVIOUS
  <1>5. \A i, j \in 1 .. Len(list) : i # j => X[i] \cap X[j] = {}
    <2>1. \A i, j \in 1 .. Len(list) : i # j => list[i] # list[j]
      BY <1>1 DEF IsInjective
    <2>2. QED
      BY <1>4, <2>1
  <1> HIDE DEF X, V
  <1>6. /\ Sound(c, V, H, UNION {X[n] : n \in 1 .. Len(blocks)})
        /\ \A n \in 1 .. Len(blocks) : ToSet(blocks[n]) \subseteq ToSet(V)
    <2>1. \A n \in 1 .. Len(blocks) : Sound(c, blocks[n], H, X[n])
      BY <1>3, <1>4
    <2>2. \A m, n \in 1 .. Len(blocks) : m # n => X[m] \cap X[n] = {}
      BY <1>3, <1>5
    <2>3. QED
      BY <1>3, <2>1, <2>2, FlattenedSound DEF V
  <1>7. UNION {X[n] : n \in 1 .. Len(blocks)} \subseteq areas \X ToSet(list)
    BY <1>2, <1>3, <1>4
  <1>8. Sound(c, V, H, areas \X ToSet(list))
    BY <1>6, <1>7, SoundWeaker
  <1>9. QED
    BY <1>3, <1>6, <1>8 DEF V

\* The same, of programs that use no directory that nobody wipes.
LEMMA EachWiped ==
    ASSUME NEW c, NEW H, NEW n \in Nat, NEW blocks,
           blocks = [i \in 1 .. n |-> blocks[i]],
           \A i \in 1 .. n : Sound(c, blocks[i], H, {})
    PROVE  /\ Sound(c, FlattenSeq(blocks), H, {})
           /\ \A i \in 1 .. n : ToSet(blocks[i]) \subseteq ToSet(FlattenSeq(blocks))
  <1> DEFINE X == [i \in 1 .. n |-> {}]
             V == FlattenSeq(blocks)
  <1>1. blocks \in Seq(Seq(Ops)) /\ Len(blocks) = n
    <2>1. \A i \in 1 .. n : blocks[i] \in Seq(Ops)
      BY DEF Sound
    <2>2. QED
      BY <2>1
  <1>2. \A i \in 1 .. Len(blocks) : X[i] = {}
    BY <1>1
  <1> HIDE DEF X, V
  <1>3. \A i \in 1 .. Len(blocks) : Sound(c, blocks[i], H, X[i])
    BY <1>1, <1>2
  <1>4. \A i, k \in 1 .. Len(blocks) : i # k => X[i] \cap X[k] = {}
    BY <1>2
  <1>5. /\ Sound(c, V, H, UNION {X[k] : k \in 1 .. Len(blocks)})
        /\ \A i \in 1 .. Len(blocks) : ToSet(blocks[i]) \subseteq ToSet(V)
    BY <1>1, <1>3, <1>4, FlattenedSound DEF V
  <1>6. UNION {X[k] : k \in 1 .. Len(blocks)} = {}
    BY <1>2
  <1>7. QED
    BY <1>1, <1>5, <1>6 DEF V

-----------------------------------------------------------------------------
(***************************************************************************)
(* The programs' parts.                                                    *)
(***************************************************************************)
LEMMA OpsAre ==
    ASSUME NEW op \in Kinds, NEW s \in Scenarios \cup {None}
    PROVE  /\ \A area \in Areas : s \in Scenarios => Op(op, <<area, s>>, s) \in Ops
           /\ Op(op, Root, s) \in Ops
  BY DEF Op, Ops, Paths, Root

LEMMA AreaOf == \A area, s : <<area, s>>[1] = area /\ <<area, s>>[2] = s
  OBVIOUS

\* Programs of a few operations.
LEMMA Three ==
    ASSUME NEW S, NEW a \in S, NEW b \in S, NEW c \in S
    PROVE  /\ LET V == <<a>> \o <<b, c>>
              IN  V \in Seq(S) /\ Len(V) = 3 /\ V[1] = a /\ V[2] = b /\ V[3] = c
           /\ LET V == <<a, b>> \o <<c>>
              IN  V \in Seq(S) /\ Len(V) = 3 /\ V[1] = a /\ V[2] = b /\ V[3] = c
           /\ LET V == <<a, b, c>>
              IN  V \in Seq(S) /\ Len(V) = 3 /\ V[1] = a /\ V[2] = b /\ V[3] = c
  OBVIOUS

LEMMA OneMore ==
    ASSUME NEW S, NEW e \in S, NEW W \in Seq(S)
    PROVE  /\ W \o <<e>> \in Seq(S) /\ Len(W \o <<e>>) = Len(W) + 1
           /\ \A i \in 1 .. Len(W) : (W \o <<e>>)[i] = W[i]
           /\ (W \o <<e>>)[Len(W) + 1] = e
  <1>1. <<e>> \in Seq(S) /\ Len(<<e>>) = 1 /\ <<e>>[1] = e
    OBVIOUS
  <1>2. QED
    BY <1>1

LEMMA Five ==
    ASSUME NEW S, NEW a \in S, NEW b \in S, NEW c \in S, NEW d \in S, NEW e \in S
    PROVE  LET V == <<a, b>> \o <<c, d>> \o <<e>>
           IN  /\ V \in Seq(S) /\ Len(V) = 5
               /\ V[1] = a /\ V[2] = b /\ V[3] = c /\ V[4] = d /\ V[5] = e
  <1> DEFINE W == <<a, b>> \o <<c, d>>
  <1>1. W \in Seq(S) /\ Len(W) = 4 /\ W[1] = a /\ W[2] = b /\ W[3] = c /\ W[4] = d
    OBVIOUS
  <1> HIDE DEF W
  <1>2. /\ W \o <<e>> \in Seq(S) /\ Len(W \o <<e>>) = Len(W) + 1
        /\ \A i \in 1 .. Len(W) : (W \o <<e>>)[i] = W[i]
        /\ (W \o <<e>>)[Len(W) + 1] = e
    BY <1>1, OneMore
  <1>3. /\ W \o <<e>> \in Seq(S) /\ Len(W \o <<e>>) = 5
        /\ \A i \in 1 .. 4 : (W \o <<e>>)[i] = W[i]
        /\ (W \o <<e>>)[5] = e
    BY <1>1, <1>2
  <1>4. QED
    BY <1>1, <1>3 DEF W

\* What an operation rests on.
LEMMA OpHas ==
    \A op, path, s : Op(op, path, s).op = op /\ Op(op, path, s).path = path /\ Op(op, path, s).s = s
  BY DEF Op

LEMMA DemandHas == \A place, x : Demand(place, x).place = place /\ Demand(place, x).of = x
  BY DEF Demand

LEMMA Rests ==
    ASSUME NEW c, NEW x, NEW d \in Demands(c, x)
    PROVE  \/ /\ x.op = "execute" /\ x.path[1] \in Fresh(c)
              /\ d = Demand("just-before", Op("wipe", x.path, x.s))
           \/ /\ x.op = "execute" /\ x.path[1] \in Twice
              /\ d = Demand("just-after", Op("transcribe", x.path, x.s))
           \/ /\ x.op \in Changing /\ c.name = "verify" /\ x.path[1] = "scenarios"
              /\ d = Demand("after", Op("judge-scenario", x.path, x.s))
           \/ /\ x.op \in Changing /\ x.path[1] \in Twice
              /\ d = Demand("after", Op("judge-harness", <<"second", x.s>>, x.s))
           \/ /\ x.op = "judge-scenario"
              /\ d = Demand("just-before", Op("execute", x.path, x.s))
           \/ /\ x.op \in {"transcribe", "judge-verdict", "judge-release", "judge-build"}
              /\ d = Demand("before", Op("execute", x.path, x.s))
           \/ /\ x.op = "judge-harness"
              /\ \E y \in BothRuns(x.s) : d = Demand("before", y)
  BY DEF Demands

LEMMA WipeRests ==
    ASSUME NEW c, NEW area, NEW s, NEW d \in Demands(c, Op("wipe", <<area, s>>, s))
    PROVE  \/ /\ c.name = "verify" /\ area = "scenarios"
              /\ d = Demand("after", Op("judge-scenario", <<area, s>>, s))
           \/ /\ area \in Twice
              /\ d = Demand("after", Op("judge-harness", <<"second", s>>, s))
  <1> DEFINE x == Op("wipe", <<area, s>>, s)
  <1>1. x.op = "wipe" /\ x.path = <<area, s>> /\ x.s = s /\ <<area, s>>[1] = area
    BY OpHas
  <1>2. d \in Demands(c, x)
    OBVIOUS
  <1> HIDE DEF x
  <1>3. QED
    BY <1>1, <1>2, Rests

LEMMA ExecuteRests ==
    ASSUME NEW c, NEW area, NEW s, NEW d \in Demands(c, Op("execute", <<area, s>>, s))
    PROVE  \/ /\ area \in Fresh(c)
              /\ d = Demand("just-before", Op("wipe", <<area, s>>, s))
           \/ /\ area \in Twice
              /\ d = Demand("just-after", Op("transcribe", <<area, s>>, s))
           \/ /\ c.name = "verify" /\ area = "scenarios"
              /\ d = Demand("after", Op("judge-scenario", <<area, s>>, s))
           \/ /\ area \in Twice
              /\ d = Demand("after", Op("judge-harness", <<"second", s>>, s))
  <1> DEFINE x == Op("execute", <<area, s>>, s)
  <1>1. x.op = "execute" /\ x.path = <<area, s>> /\ x.s = s /\ <<area, s>>[1] = area
    BY OpHas
  <1>2. d \in Demands(c, x)
    OBVIOUS
  <1> HIDE DEF x
  <1>3. QED
    BY <1>1, <1>2, Rests

LEMMA TranscribeRests ==
    ASSUME NEW c, NEW area, NEW s, NEW d \in Demands(c, Op("transcribe", <<area, s>>, s))
    PROVE  \/ d = Demand("before", Op("execute", <<area, s>>, s))
           \/ /\ c.name = "verify" /\ area = "scenarios"
              /\ d = Demand("after", Op("judge-scenario", <<area, s>>, s))
           \/ /\ area \in Twice
              /\ d = Demand("after", Op("judge-harness", <<"second", s>>, s))
  <1> DEFINE x == Op("transcribe", <<area, s>>, s)
  <1>1. x.op = "transcribe" /\ x.path = <<area, s>> /\ x.s = s /\ <<area, s>>[1] = area
    BY OpHas
  <1>2. d \in Demands(c, x)
    OBVIOUS
  <1> HIDE DEF x
  <1>3. QED
    BY <1>1, <1>2, Rests

LEMMA ScenarioRests ==
    ASSUME NEW c, NEW p, NEW s, NEW d \in Demands(c, Op("judge-scenario", p, s))
    PROVE  d = Demand("just-before", Op("execute", p, s))
  <1> DEFINE x == Op("judge-scenario", p, s)
  <1>1. x.op = "judge-scenario" /\ x.path = p /\ x.s = s
    BY OpHas
  <1>2. d \in Demands(c, x)
    OBVIOUS
  <1> HIDE DEF x
  <1>3. QED
    BY <1>1, <1>2, Rests DEF Changing

LEMMA HarnessRests ==
    ASSUME NEW c, NEW p, NEW s, NEW d \in Demands(c, Op("judge-harness", p, s))
    PROVE  \E y \in BothRuns(s) : d = Demand("before", y)
  <1> DEFINE x == Op("judge-harness", p, s)
  <1>1. x.op = "judge-harness" /\ x.path = p /\ x.s = s
    BY OpHas
  <1>2. d \in Demands(c, x)
    OBVIOUS
  <1>3. BothRuns(x.s) = BothRuns(s)
    BY <1>1
  <1> HIDE DEF x
  <1>4. x.op = "judge-harness" => \E y \in BothRuns(x.s) : d = Demand("before", y)
    BY <1>2, Rests DEF Changing
  <1>5. QED
    BY <1>1, <1>3, <1>4

LEMMA VerdictRests ==
    ASSUME NEW c, NEW p, NEW s, NEW d \in Demands(c, Op("judge-verdict", p, s))
    PROVE  d = Demand("before", Op("execute", p, s))
  <1> DEFINE x == Op("judge-verdict", p, s)
  <1>1. x.op = "judge-verdict" /\ x.path = p /\ x.s = s
    BY OpHas
  <1>2. d \in Demands(c, x)
    OBVIOUS
  <1> HIDE DEF x
  <1>3. QED
    BY <1>1, <1>2, Rests DEF Changing

LEMMA ReleaseRests ==
    ASSUME NEW c, NEW p, NEW s, NEW d \in Demands(c, Op("judge-release", p, s))
    PROVE  d = Demand("before", Op("execute", p, s))
  <1> DEFINE x == Op("judge-release", p, s)
  <1>1. x.op = "judge-release" /\ x.path = p /\ x.s = s
    BY OpHas
  <1>2. d \in Demands(c, x)
    OBVIOUS
  <1> HIDE DEF x
  <1>3. QED
    BY <1>1, <1>2, Rests DEF Changing

LEMMA BuildRests ==
    ASSUME NEW c, NEW p, NEW s, NEW d \in Demands(c, Op("judge-build", p, s))
    PROVE  d = Demand("before", Op("execute", p, s))
  <1> DEFINE x == Op("judge-build", p, s)
  <1>1. x.op = "judge-build" /\ x.path = p /\ x.s = s
    BY OpHas
  <1>2. d \in Demands(c, x)
    OBVIOUS
  <1> HIDE DEF x
  <1>3. QED
    BY <1>1, <1>2, Rests DEF Changing

LEMMA OthersRest ==
    ASSUME NEW c, NEW kind \in {"show", "judge-surface", "judge-refusal"}, NEW p, NEW s
    PROVE  Demands(c, Op(kind, p, s)) = {}
  <1> SUFFICES ASSUME NEW d \in Demands(c, Op(kind, p, s))
               PROVE  FALSE
    OBVIOUS
  <1> DEFINE x == Op(kind, p, s)
  <1>1. x.op = kind
    BY OpHas
  <1>2. d \in Demands(c, x)
    OBVIOUS
  <1> HIDE DEF x
  <1>3. QED
    BY <1>1, <1>2, Rests DEF Changing

\* A row of the matrix.
LEMMA MatrixRow ==
    ASSUME NEW c, NEW area, NEW s \in Scenarios, s \in ToSet(Reachable(c)),
           (c.name = "verify" /\ area = "matrix") \/ (c.name = "compare" /\ area = "scenarios")
    PROVE  LET V == <<Op("wipe", <<area, s>>, s)>> \o RunIn(area, s)
           IN  Sound(c, V, {}, {}) /\ Op("execute", <<area, s>>, s) \in ToSet(V)
  <1> DEFINE w == Op("wipe", <<area, s>>, s)
             e == Op("execute", <<area, s>>, s)
             t == Op("transcribe", <<area, s>>, s)
             V == <<w>> \o <<e, t>>
  <1>1. w \in Ops /\ e \in Ops /\ t \in Ops
    BY OpsAre DEF Areas, Kinds
  <1>2. /\ w.op = "wipe" /\ e.op = "execute" /\ t.op = "transcribe"
        /\ w.path = <<area, s>> /\ e.path = <<area, s>> /\ t.path = <<area, s>>
        /\ w.s = s /\ e.s = s /\ t.s = s
    BY OpHas
  <1>3. \A d \in Demands(c, w) : FALSE
    BY WipeRests DEF Twice
  <1>4. \A d \in Demands(c, e) : d = Demand("just-before", w)
    BY ExecuteRests DEF Twice
  <1>5. \A d \in Demands(c, t) : d = Demand("before", e)
    BY TranscribeRests DEF Twice
  <1>6. area \in Fresh(c) /\ <<area, s>> # Root /\ <<area, s>> \notin Unwiped
    BY DEF Fresh, Root, Unwiped
  <1> HIDE DEF w, e, t
  <1>7. V \in Seq(Ops) /\ Len(V) = 3 /\ V[1] = w /\ V[2] = e /\ V[3] = t
    BY ONLY <1>1, Three
  <1> HIDE DEF V
  <1>8. /\ \A k \in 1 .. Len(V) : k = 1 \/ k = 2 \/ k = 3
        /\ 1 \in 1 .. Len(V) /\ 2 \in 1 .. Len(V) /\ 3 \in 1 .. Len(V)
    BY <1>7
  <1>9. Allowed(c, w) /\ Allowed(c, e) /\ Allowed(c, t)
    BY <1>2, <1>6, AreaOf DEF Allowed
  <1>10. Met(V, 2, Demand("just-before", w)) /\ Met(V, 3, Demand("before", e))
    BY <1>7, <1>8, DemandHas DEF Met, Placed
  <1>11. Complete(c, V, {})
    BY <1>3, <1>4, <1>5, <1>7, <1>8, <1>10 DEF Complete
  <1>12. Once(V) /\ Executed(V) = {}
    BY <1>2, <1>6, <1>7, <1>8 DEF Once, Executed
  <1>13. ToSet(V) = {V[k] : k \in 1 .. Len(V)}
    BY <1>7, Elements
  <1>14. Sound(c, V, {}, {}) /\ e \in ToSet(V)
    BY <1>7, <1>8, <1>9, <1>11, <1>12, <1>13 DEF Sound
  <1>15. QED
    BY <1>14 DEF RunIn, V, w, e, t

\* A scenario run once, and one run twice.
LEMMA ScenarioRow ==
    ASSUME NEW c, NEW s \in Scenarios, s \in ToSet(Reachable(c)), c.name = "verify"
    PROVE  /\ Sound(c, VerifyScenario(s), {}, {})
           /\ Op("judge-scenario", <<"scenarios", s>>, s) \in ToSet(VerifyScenario(s))
  <1> DEFINE w == Op("wipe", <<"scenarios", s>>, s)
             e == Op("execute", <<"scenarios", s>>, s)
             j == Op("judge-scenario", <<"scenarios", s>>, s)
             V == <<w, e, j>>
  <1>1. w \in Ops /\ e \in Ops /\ j \in Ops
    BY OpsAre DEF Areas, Kinds
  <1>2. /\ w.op = "wipe" /\ e.op = "execute" /\ j.op = "judge-scenario"
        /\ w.path = <<"scenarios", s>> /\ e.path = <<"scenarios", s>>
        /\ j.path = <<"scenarios", s>>
        /\ w.s = s /\ e.s = s /\ j.s = s
    BY OpHas
  <1>3. \A d \in Demands(c, w) : d = Demand("after", j)
    BY WipeRests DEF Twice
  <1>4. \A d \in Demands(c, e) : d = Demand("just-before", w) \/ d = Demand("after", j)
    BY ExecuteRests DEF Twice
  <1>5. \A d \in Demands(c, j) : d = Demand("just-before", e)
    BY ScenarioRests
  <1>6. "scenarios" \in Fresh(c) /\ <<"scenarios", s>> # Root /\ <<"scenarios", s>> \notin Unwiped
    BY DEF Fresh, Root, Unwiped
  <1> HIDE DEF w, e, j
  <1>7. V \in Seq(Ops) /\ Len(V) = 3 /\ V[1] = w /\ V[2] = e /\ V[3] = j
    BY ONLY <1>1, Three
  <1> HIDE DEF V
  <1>8. /\ \A k \in 1 .. Len(V) : k = 1 \/ k = 2 \/ k = 3
        /\ 1 \in 1 .. Len(V) /\ 2 \in 1 .. Len(V) /\ 3 \in 1 .. Len(V)
    BY <1>7
  <1>9. Allowed(c, w) /\ Allowed(c, e) /\ Allowed(c, j)
    BY <1>2, <1>6, AreaOf DEF Allowed
  <1>10. /\ Met(V, 1, Demand("after", j)) /\ Met(V, 2, Demand("after", j))
         /\ Met(V, 2, Demand("just-before", w)) /\ Met(V, 3, Demand("just-before", e))
    BY <1>7, <1>8, DemandHas DEF Met, Placed
  <1>11. Complete(c, V, {})
    BY <1>3, <1>4, <1>5, <1>7, <1>8, <1>10 DEF Complete
  <1>12. Once(V) /\ Executed(V) = {}
    BY <1>2, <1>6, <1>7, <1>8 DEF Once, Executed
  <1>13. ToSet(V) = {V[k] : k \in 1 .. Len(V)}
    BY <1>7, Elements
  <1>14. Sound(c, V, {}, {}) /\ j \in ToSet(V)
    BY <1>7, <1>8, <1>9, <1>11, <1>12, <1>13 DEF Sound
  <1>15. QED
    BY <1>14 DEF VerifyScenario, V, w, e, j

LEMMA HarnessRow ==
    ASSUME NEW c, NEW s \in Scenarios, c.name = "verify"
    PROVE  /\ Sound(c, VerifyHarness(s), {}, Twice \X {s})
           /\ Op("judge-harness", <<"second", s>>, s) \in ToSet(VerifyHarness(s))
  <1> DEFINE e1 == Op("execute", <<"first", s>>, s)
             t1 == Op("transcribe", <<"first", s>>, s)
             e2 == Op("execute", <<"second", s>>, s)
             t2 == Op("transcribe", <<"second", s>>, s)
             j == Op("judge-harness", <<"second", s>>, s)
             V == <<e1, t1>> \o <<e2, t2>> \o <<j>>
  <1>1. e1 \in Ops /\ t1 \in Ops /\ e2 \in Ops /\ t2 \in Ops /\ j \in Ops
    BY OpsAre DEF Areas, Kinds
  <1>2. /\ e1.op = "execute" /\ t1.op = "transcribe" /\ e2.op = "execute"
        /\ t2.op = "transcribe" /\ j.op = "judge-harness"
        /\ e1.path = <<"first", s>> /\ t1.path = <<"first", s>>
        /\ e2.path = <<"second", s>> /\ t2.path = <<"second", s>> /\ j.path = <<"second", s>>
        /\ e1.s = s /\ t1.s = s /\ e2.s = s /\ t2.s = s /\ j.s = s
    BY OpHas
  <1>3. /\ \A d \in Demands(c, e1) : d = Demand("just-after", t1) \/ d = Demand("after", j)
        /\ \A d \in Demands(c, e2) : d = Demand("just-after", t2) \/ d = Demand("after", j)
    <2>1. "first" \notin Fresh(c) /\ "second" \notin Fresh(c)
      BY DEF Fresh
    <2>2. QED
      BY <2>1, ExecuteRests
  <1>4. /\ \A d \in Demands(c, t1) : d = Demand("before", e1) \/ d = Demand("after", j)
        /\ \A d \in Demands(c, t2) : d = Demand("before", e2) \/ d = Demand("after", j)
    BY TranscribeRests
  <1>5. \A d \in Demands(c, j) : \E y \in {e1, t1, e2, t2} : d = Demand("before", y)
    BY HarnessRests DEF BothRuns
  <1>6. <<"first", s>> # <<"second", s>> /\ <<"first", s>> # Root /\ <<"second", s>> # Root
        /\ <<"first", s>> \in Twice \X {s} /\ <<"second", s>> \in Twice \X {s}
    BY DEF Root, Twice
  <1> HIDE DEF e1, t1, e2, t2, j
  <1>7. /\ V \in Seq(Ops) /\ Len(V) = 5
        /\ V[1] = e1 /\ V[2] = t1 /\ V[3] = e2 /\ V[4] = t2 /\ V[5] = j
    BY ONLY <1>1, Five
  <1> HIDE DEF V
  <1>8. /\ \A k \in 1 .. Len(V) : k = 1 \/ k = 2 \/ k = 3 \/ k = 4 \/ k = 5
        /\ 1 \in 1 .. Len(V) /\ 2 \in 1 .. Len(V) /\ 3 \in 1 .. Len(V) /\ 4 \in 1 .. Len(V)
        /\ 5 \in 1 .. Len(V)
    BY <1>7
  <1>9. Allowed(c, e1) /\ Allowed(c, t1) /\ Allowed(c, e2) /\ Allowed(c, t2) /\ Allowed(c, j)
    BY <1>2, <1>6, AreaOf DEF Allowed
  <1>10. /\ \A k \in 1 .. 4 : Met(V, k, Demand("after", j))
         /\ Met(V, 1, Demand("just-after", t1)) /\ Met(V, 3, Demand("just-after", t2))
         /\ Met(V, 2, Demand("before", e1)) /\ Met(V, 4, Demand("before", e2))
         /\ \A y \in {e1, t1, e2, t2} : Met(V, 5, Demand("before", y))
    BY <1>7, <1>8, DemandHas DEF Met, Placed
  <1>11. Complete(c, V, {})
    <2>1. \A k \in 1 .. Len(V) : \A d \in Demands(c, V[k]) : Met(V, k, d)
      BY <1>3, <1>4, <1>5, <1>7, <1>8, <1>10
    <2>2. QED
      BY <2>1 DEF Complete
  <1>12. \A k \in 1 .. Len(V) : V[k].op = "execute" => k = 1 \/ k = 3
    BY <1>2, <1>7, <1>8
  <1>13. Once(V)
    BY <1>2, <1>6, <1>7, <1>12 DEF Once
  <1>14. Executed(V) \subseteq Twice \X {s}
    BY <1>2, <1>6, <1>7, <1>12 DEF Executed
  <1>15. ToSet(V) = {V[k] : k \in 1 .. Len(V)}
    BY <1>7, Elements
  <1>16. Sound(c, V, {}, Twice \X {s}) /\ j \in ToSet(V)
    <2>1. \A k \in 1 .. Len(V) : Allowed(c, V[k])
      BY <1>7, <1>8, <1>9
    <2>2. QED
      BY <1>7, <1>8, <1>11, <1>13, <1>14, <1>15, <2>1 DEF Sound
  <1>17. QED
    BY <1>16 DEF VerifyHarness, RunIn, V, e1, t1, e2, t2, j

\* What `verify` does for each row of the table.
LEMMA OutcomeRow ==
    ASSUME NEW c, NEW s \in Scenarios, s \in ToSet(Reachable(c)), c.name = "verify"
    PROVE  LET V == VerifyScenario(s) \o VerifyHarness(s)
           IN  /\ Sound(c, V, {}, Twice \X {s})
               /\ Op("judge-scenario", <<"scenarios", s>>, s) \in ToSet(V)
               /\ Op("judge-harness", <<"second", s>>, s) \in ToSet(V)
  <1> DEFINE A == VerifyScenario(s)
             B == VerifyHarness(s)
  <1>1. /\ Sound(c, A, {}, {}) /\ Op("judge-scenario", <<"scenarios", s>>, s) \in ToSet(A)
        /\ Sound(c, B, {}, Twice \X {s}) /\ Op("judge-harness", <<"second", s>>, s) \in ToSet(B)
    BY ScenarioRow, HarnessRow
  <1> HIDE DEF A, B
  <1>2. Sound(c, B, {} \cup ToSet(A), Twice \X {s})
    BY <1>1, SoundWeaker
  <1>3. {} \cap (Twice \X {s}) = {} /\ {} \cup (Twice \X {s}) = Twice \X {s}
    OBVIOUS
  <1>4. /\ Sound(c, A \o B, {}, {} \cup (Twice \X {s}))
        /\ ToSet(A) \subseteq ToSet(A \o B) /\ ToSet(B) \subseteq ToSet(A \o B)
    BY ONLY <1>1, <1>2, <1>3, JoinedSound
  <1>5. QED
    BY <1>1, <1>3, <1>4 DEF A, B

\* An operation alone.
LEMMA OneSound ==
    ASSUME NEW c, NEW x \in Ops, NEW H, x.op # "execute", Allowed(c, x),
           \A d \in Demands(c, x) : d.place = "before" /\ d.of \in H
    PROVE  Sound(c, <<x>>, H, {})
  <1> DEFINE V == <<x>>
  <1>1. V \in Seq(Ops) /\ Len(V) = 1 /\ V[1] = x /\ \A k \in 1 .. Len(V) : k = 1
    OBVIOUS
  <1> HIDE DEF V
  <1>2. Complete(c, V, H)
    BY <1>1 DEF Complete
  <1>3. Once(V) /\ Executed(V) = {}
    BY <1>1 DEF Once, Executed
  <1>4. Sound(c, V, H, {})
    BY <1>1, <1>2, <1>3 DEF Sound
  <1>5. QED
    BY <1>4 DEF V

\* A run, in a directory that nobody wipes before it or looks at after it.
LEMMA RunRow ==
    ASSUME NEW c, NEW area \in Areas \ Twice, NEW s \in Scenarios,
           area \notin Fresh(c), c.name = "verify" => area # "scenarios"
    PROVE  /\ Sound(c, RunIn(area, s), {}, {area} \X {s})
           /\ Op("execute", <<area, s>>, s) \in ToSet(RunIn(area, s))
  <1> DEFINE e == Op("execute", <<area, s>>, s)
             t == Op("transcribe", <<area, s>>, s)
             V == <<e, t>>
  <1>1. e \in Ops /\ t \in Ops
    BY OpsAre DEF Kinds
  <1>2. /\ e.op = "execute" /\ t.op = "transcribe"
        /\ e.path = <<area, s>> /\ t.path = <<area, s>> /\ e.s = s /\ t.s = s
    BY OpHas
  <1>3. \A d \in Demands(c, e) : FALSE
    BY ExecuteRests
  <1>4. \A d \in Demands(c, t) : d = Demand("before", e)
    BY TranscribeRests
  <1>5. area # "release"
    BY DEF Areas
  <1>6. <<area, s>> # Root /\ <<area, s>> \in {area} \X {s}
    BY <1>5 DEF Root
  <1> HIDE DEF e, t
  <1>7. V \in Seq(Ops) /\ Len(V) = 2 /\ V[1] = e /\ V[2] = t
    BY ONLY <1>1
  <1> HIDE DEF V
  <1>8. /\ \A k \in 1 .. Len(V) : k = 1 \/ k = 2
        /\ 1 \in 1 .. Len(V) /\ 2 \in 1 .. Len(V)
    BY <1>7
  <1>9. Allowed(c, e) /\ Allowed(c, t)
    BY <1>2, <1>6, AreaOf DEF Allowed
  <1>10. Met(V, 2, Demand("before", e))
    BY <1>7, <1>8, DemandHas DEF Met, Placed
  <1>11. Complete(c, V, {})
    BY <1>3, <1>4, <1>7, <1>8, <1>10 DEF Complete
  <1>12. \A k \in 1 .. Len(V) : V[k].op = "execute" => k = 1
    BY <1>2, <1>7, <1>8
  <1>13. Once(V) /\ Executed(V) \subseteq {area} \X {s}
    BY <1>2, <1>6, <1>7, <1>12 DEF Once, Executed
  <1>14. ToSet(V) = {V[k] : k \in 1 .. Len(V)}
    BY <1>7, Elements
  <1>15. Sound(c, V, {}, {area} \X {s}) /\ e \in ToSet(V)
    BY <1>7, <1>8, <1>9, <1>11, <1>13, <1>14 DEF Sound
  <1>16. QED
    BY <1>15 DEF RunIn, V, e, t

\* What a run should have come to.
LEMMA VerdictRow ==
    ASSUME NEW c, NEW area \in Areas, NEW s \in Scenarios, NEW H, NEW j,
           \/ j = Op("judge-verdict", <<area, s>>, s)
           \/ j = Op("judge-release", <<area, s>>, s) /\ Data[s].verdict = "APPROVE",
           Op("execute", <<area, s>>, s) \in H
    PROVE  Sound(c, <<j>>, H, {})
  <1>1. j \in Ops
    BY OpsAre DEF Kinds
  <1>2. /\ j.op \in {"judge-verdict", "judge-release"}
        /\ j.op = "judge-release" => Data[s].verdict = "APPROVE"
        /\ j.path = <<area, s>> /\ j.s = s
    BY OpHas
  <1>3. <<area, s>> # Root
    BY DEF Root, Areas
  <1>4. Allowed(c, j)
    BY <1>2, <1>3, AreaOf DEF Allowed
  <1>5. \A d \in Demands(c, j) : d = Demand("before", Op("execute", <<area, s>>, s))
    BY VerdictRests, ReleaseRests
  <1>6. QED
    BY <1>1, <1>2, <1>4, <1>5, DemandHas, OneSound

LEMMA RunForRow ==
    ASSUME NEW c, NEW area \in Areas \ Twice, NEW s \in Scenarios,
           area \notin Fresh(c), c.name = "verify" => area # "scenarios",
           NEW judgement \in {"judge-verdict", "judge-release"},
           judgement = "judge-release" => Data[s].verdict = "APPROVE"
    PROVE  Sound(c, RunFor(judgement, area, s), {}, {area} \X {s})
  <1> DEFINE A == RunIn(area, s)
             j == Op(judgement, <<area, s>>, s)
  <1>1. Sound(c, A, {}, {area} \X {s}) /\ Op("execute", <<area, s>>, s) \in {} \cup ToSet(A)
    BY RunRow
  <1> HIDE DEF A
  <1>2. Sound(c, <<j>>, {} \cup ToSet(A), {})
    BY <1>1, VerdictRow
  <1> HIDE DEF j
  <1>3. ({area} \X {s}) \cap {} = {} /\ ({area} \X {s}) \cup {} = {area} \X {s}
    OBVIOUS
  <1>4. Sound(c, A \o <<j>>, {}, ({area} \X {s}) \cup {})
    BY ONLY <1>1, <1>2, <1>3, JoinedSound
  <1>5. QED
    BY <1>3, <1>4 DEF RunFor, A, j

-----------------------------------------------------------------------------
(***************************************************************************)
(* The programs.                                                           *)
(***************************************************************************)
LEMMA Lists ==
    /\ ToSet(Defaults) \cup ToSet(Guarded) = Scenarios
    /\ \A c : /\ Reachable(c) \in Seq(Scenarios)
              /\ ToSet(Reachable(c)) =
                    IF Check(c.controls) THEN Scenarios ELSE ToSet(Defaults)
              /\ ToSet(Defaults) \subseteq ToSet(Reachable(c))
  <1>1. Defaults \in Seq(Scenarios) /\ Guarded \in Seq(Scenarios)
    BY ScenariosAreListedOnce
  <1>2. Defaults \o Guarded \in Seq(Scenarios)
    BY <1>1
  <1>3. ToSet(Defaults \o Guarded) = Scenarios
    BY DEF Scenarios
  <1>4. ToSet(Defaults \o Guarded) = ToSet(Defaults) \cup ToSet(Guarded)
    <2>1. /\ Len(Defaults) \in Nat /\ Len(Guarded) \in Nat
          /\ Len(Defaults \o Guarded) = Len(Defaults) + Len(Guarded)
          /\ \A i \in 1 .. Len(Defaults) : (Defaults \o Guarded)[i] = Defaults[i]
          /\ \A i \in 1 .. Len(Guarded) : (Defaults \o Guarded)[Len(Defaults) + i] = Guarded[i]
          /\ \A k \in 1 .. Len(Defaults \o Guarded) :
                k \in 1 .. Len(Defaults) \/ \E i \in 1 .. Len(Guarded) : k = Len(Defaults) + i
      BY ONLY <1>1, Joined
    <2>2. /\ \A i \in 1 .. Len(Defaults) : i \in 1 .. Len(Defaults \o Guarded)
          /\ \A i \in 1 .. Len(Guarded) : Len(Defaults) + i \in 1 .. Len(Defaults \o Guarded)
      BY <2>1
    <2>3. /\ ToSet(Defaults) = {Defaults[i] : i \in 1 .. Len(Defaults)}
          /\ ToSet(Guarded) = {Guarded[i] : i \in 1 .. Len(Guarded)}
          /\ ToSet(Defaults \o Guarded) =
                {(Defaults \o Guarded)[i] : i \in 1 .. Len(Defaults \o Guarded)}
      BY <1>1, <1>2, Elements
    <2>4. ToSet(Defaults) \cup ToSet(Guarded) \subseteq ToSet(Defaults \o Guarded)
      BY <2>1, <2>2, <2>3
    <2>5. ToSet(Defaults \o Guarded) \subseteq ToSet(Defaults) \cup ToSet(Guarded)
      <3>1. ASSUME NEW k \in 1 .. Len(Defaults \o Guarded)
            PROVE  (Defaults \o Guarded)[k] \in ToSet(Defaults) \cup ToSet(Guarded)
        BY <2>1, <2>3
      <3>2. QED
        BY <2>3, <3>1
    <2>6. QED
      BY <2>4, <2>5
  <1>5. QED
    BY <1>1, <1>2, <1>3, <1>4 DEF Reachable

LEMMA Listed ==
    ASSUME NEW list \in Seq(Scenarios)
    PROVE  /\ DOMAIN list = 1 .. Len(list)
           /\ ToSet(list) = {list[i] : i \in 1 .. Len(list)}
           /\ \A i \in 1 .. Len(list) : list[i] \in ToSet(list) /\ list[i] \in Scenarios
  BY Elements

LEMMA OutcomesSound ==
    ASSUME NEW c, c.name = "verify", NEW list \in Seq(Scenarios), IsInjective(list),
           ToSet(list) \subseteq ToSet(Reachable(c))
    PROVE  /\ Sound(c, VerifyOutcomes(list), {}, Twice \X ToSet(list))
           /\ \A s \in ToSet(list) :
                 /\ Op("judge-scenario", <<"scenarios", s>>, s) \in ToSet(VerifyOutcomes(list))
                 /\ Op("judge-harness", <<"second", s>>, s) \in ToSet(VerifyOutcomes(list))
  <1> DEFINE blocks == [i \in DOMAIN list |-> VerifyScenario(list[i]) \o VerifyHarness(list[i])]
  <1>1. VerifyOutcomes(list) = FlattenSeq(blocks)
    BY DEF VerifyOutcomes, ForEach
  <1>2. /\ DOMAIN list = 1 .. Len(list)
        /\ ToSet(list) = {list[i] : i \in 1 .. Len(list)}
        /\ \A i \in 1 .. Len(list) : list[i] \in Scenarios /\ list[i] \in ToSet(Reachable(c))
    BY Listed
  <1>3. blocks = [i \in 1 .. Len(list) |-> blocks[i]]
    BY <1>2
  <1>4. \A i \in 1 .. Len(list) :
           /\ Sound(c, blocks[i], {}, Twice \X {list[i]})
           /\ Op("judge-scenario", <<"scenarios", list[i]>>, list[i]) \in ToSet(blocks[i])
           /\ Op("judge-harness", <<"second", list[i]>>, list[i]) \in ToSet(blocks[i])
    BY <1>2, OutcomeRow
  <1> HIDE DEF blocks
  <1>5. /\ Sound(c, FlattenSeq(blocks), {}, Twice \X ToSet(list))
        /\ \A i \in 1 .. Len(list) : ToSet(blocks[i]) \subseteq ToSet(FlattenSeq(blocks))
    BY <1>3, <1>4, EachSound
  <1>6. QED
    BY <1>1, <1>2, <1>4, <1>5

LEMMA MatrixSound ==
    ASSUME NEW c, NEW area,
           (c.name = "verify" /\ area = "matrix") \/ (c.name = "compare" /\ area = "scenarios")
    PROVE  /\ Sound(c, Matrix(area, c), {}, {})
           /\ \A s \in ToSet(Reachable(c)) :
                 Op("execute", <<area, s>>, s) \in ToSet(Matrix(area, c))
  <1> DEFINE list == Reachable(c)
             blocks == [i \in DOMAIN list |->
                          <<Op("wipe", <<area, list[i]>>, list[i])>> \o RunIn(area, list[i])]
  <1>1. Matrix(area, c) = FlattenSeq(blocks)
    BY DEF Matrix, ForEach
  <1>2. /\ list \in Seq(Scenarios) /\ DOMAIN list = 1 .. Len(list)
        /\ ToSet(list) = {list[i] : i \in 1 .. Len(list)}
        /\ \A i \in 1 .. Len(list) : list[i] \in Scenarios /\ list[i] \in ToSet(Reachable(c))
    BY Lists, Listed
  <1>3. blocks = [i \in 1 .. Len(list) |-> blocks[i]]
    BY <1>2
  <1>4. \A i \in 1 .. Len(list) :
           /\ Sound(c, blocks[i], {}, {})
           /\ Op("execute", <<area, list[i]>>, list[i]) \in ToSet(blocks[i])
    BY <1>2, MatrixRow
  <1> HIDE DEF blocks
  <1>5. ToSet(list) = ToSet(Reachable(c)) /\ Len(list) \in Nat
    BY <1>2
  <1> HIDE DEF list
  <1>6. /\ Sound(c, FlattenSeq(blocks), {}, {})
        /\ \A i \in 1 .. Len(list) : ToSet(blocks[i]) \subseteq ToSet(FlattenSeq(blocks))
    BY <1>3, <1>4, <1>5, EachWiped
  <1>7. QED
    BY <1>1, <1>2, <1>4, <1>5, <1>6

LEMMA OptInSound == ASSUME NEW c PROVE Sound(c, VerifyOptIn(c), {}, {})
  <1>1. CASE Check(c.controls)
    BY <1>1, NothingIsSound DEF VerifyOptIn
  <1>2. CASE ~Check(c.controls)
    <2> DEFINE blocks == [i \in DOMAIN Guarded |-> <<Op("judge-refusal", Root, Guarded[i])>>]
    <2>1. VerifyOptIn(c) = FlattenSeq(blocks)
      BY <1>2 DEF VerifyOptIn, ForEach
    <2>0. /\ Guarded \in Seq(Scenarios) /\ DOMAIN Guarded = 1 .. Len(Guarded)
          /\ \A i \in 1 .. Len(Guarded) : Guarded[i] \in ToSet(Guarded)
      BY ScenariosAreListedOnce, Listed
    <2>2. ASSUME NEW s \in ToSet(Guarded)
          PROVE  Sound(c, <<Op("judge-refusal", Root, s)>>, {}, {})
      <3> DEFINE x == Op("judge-refusal", Root, s)
      <3>1. s \in Scenarios
        BY Lists
      <3>2. x \in Ops
        BY <3>1, OpsAre DEF Kinds
      <3>3. x.op = "judge-refusal" /\ x.s = s
        BY OpHas
      <3>4. Demands(c, x) = {}
        BY OthersRest
      <3> HIDE DEF x
      <3>5. Allowed(c, x)
        BY <1>2, <3>3 DEF Allowed
      <3>6. Sound(c, <<x>>, {}, {})
        BY <3>2, <3>3, <3>4, <3>5, OneSound
      <3>7. QED
        BY <3>6 DEF x
    <2>3. \A i \in 1 .. Len(Guarded) : Sound(c, blocks[i], {}, {})
      BY <2>0, <2>2
    <2>4. blocks = [i \in 1 .. Len(Guarded) |-> blocks[i]]
      BY <2>0
    <2> HIDE DEF blocks
    <2>5. Len(Guarded) \in Nat
      BY <2>0
    <2>6. Sound(c, FlattenSeq(blocks), {}, {})
      BY <2>3, <2>4, <2>5, EachWiped
    <2>7. QED
      BY <2>1, <2>6
  <1>3. QED
    BY <1>1, <1>2

LEMMA HalfFixesSound ==
    ASSUME NEW c, c.name = "verify"
    PROVE  Sound(c, VerifyHalfFixes, {}, {"half-fix"} \X ToSet(HalfFixes))
  <1> DEFINE runs == [i \in DOMAIN HalfFixes |-> RunIn("half-fix", HalfFixes[i])]
             judged == [i \in DOMAIN HalfFixes |->
                          <<Op("judge-verdict", <<"half-fix", HalfFixes[i]>>, HalfFixes[i])>>]
             A == FlattenSeq(runs)
             B == FlattenSeq(judged)
             X == {"half-fix"} \X ToSet(HalfFixes)
  <1>1. VerifyHalfFixes = A \o B
    BY DEF VerifyHalfFixes, ForEach
  <1>2. /\ HalfFixes \in Seq(Scenarios) /\ IsInjective(HalfFixes)
        /\ DOMAIN HalfFixes = 1 .. Len(HalfFixes)
        /\ \A i \in 1 .. Len(HalfFixes) : HalfFixes[i] \in Scenarios
    BY ChecksNameScenarios, Listed
  <1>3. "half-fix" \in Areas \ Twice /\ "half-fix" \notin Fresh(c) /\ "half-fix" \in Areas
    BY DEF Areas, Twice, Fresh
  <1>4. /\ runs = [i \in 1 .. Len(HalfFixes) |-> runs[i]]
        /\ judged = [i \in 1 .. Len(HalfFixes) |-> judged[i]]
    BY <1>2
  <1>5. \A i \in 1 .. Len(HalfFixes) :
           /\ Sound(c, runs[i], {}, {"half-fix"} \X {HalfFixes[i]})
           /\ Op("execute", <<"half-fix", HalfFixes[i]>>, HalfFixes[i]) \in ToSet(runs[i])
    BY <1>2, <1>3, RunRow
  <1> HIDE DEF runs
  <1>6. /\ Sound(c, A, {}, X)
        /\ \A i \in 1 .. Len(HalfFixes) : ToSet(runs[i]) \subseteq ToSet(A)
    BY <1>2, <1>4, <1>5, EachSound
  <1> HIDE DEF A
  <1>7. \A i \in 1 .. Len(HalfFixes) :
           Op("execute", <<"half-fix", HalfFixes[i]>>, HalfFixes[i]) \in {} \cup ToSet(A)
    BY <1>5, <1>6
  <1>8. \A i \in 1 .. Len(HalfFixes) : Sound(c, judged[i], {} \cup ToSet(A), {})
    BY <1>2, <1>3, <1>7, VerdictRow
  <1> HIDE DEF judged
  <1>9. Len(HalfFixes) \in Nat
    BY <1>2
  <1>10. Sound(c, B, {} \cup ToSet(A), {})
    BY <1>4, <1>8, <1>9, EachWiped
  <1> HIDE DEF B, X
  <1>11. X \cap {} = {} /\ X \cup {} = X
    OBVIOUS
  <1>12. Sound(c, A \o B, {}, X \cup {})
    BY <1>6, <1>10, <1>11, JoinedSound
  <1>13. QED
    BY <1>1, <1>11, <1>12 DEF X

LEMMA ControlsSound ==
    ASSUME NEW c, c.name = "verify"
    PROVE  Sound(c, VerifyNegativeControls, {}, {"controls"} \X ToSet(Controls))
  <1> DEFINE How(s) == IF s = Reviewed THEN "judge-release" ELSE "judge-verdict"
             blocks == [i \in DOMAIN Controls |->
                          RunFor(How(Controls[i]), "controls", Controls[i])]
  <1>1. VerifyNegativeControls = FlattenSeq(blocks)
    BY DEF VerifyNegativeControls, ForEach
  <1>2. /\ Controls \in Seq(Scenarios) /\ IsInjective(Controls)
        /\ DOMAIN Controls = 1 .. Len(Controls)
        /\ \A i \in 1 .. Len(Controls) : Controls[i] \in Scenarios
    BY ChecksNameScenarios, Listed
  <1>3. "controls" \in Areas \ Twice /\ "controls" \notin Fresh(c) /\ "controls" \in Areas
    BY DEF Areas, Twice, Fresh
  <1>4. \A s \in Scenarios : /\ How(s) \in {"judge-verdict", "judge-release"}
                             /\ How(s) = "judge-release" => Data[s].verdict = "APPROVE"
    BY ChecksNameScenarios
  <1> HIDE DEF How
  <1>5. blocks = [i \in 1 .. Len(Controls) |-> blocks[i]]
    BY <1>2
  <1>6. \A i \in 1 .. Len(Controls) : Sound(c, blocks[i], {}, {"controls"} \X {Controls[i]})
    BY <1>2, <1>3, <1>4, RunForRow
  <1> HIDE DEF blocks
  <1>7. QED
    BY <1>1, <1>2, <1>5, <1>6, EachSound

LEMMA ImpactSound ==
    ASSUME NEW c, c.name = "verify"
    PROVE  Sound(c, VerifyPublicShadowImpact, {}, {"public-shadow"} \X {Impact})
  <1>1. "public-shadow" \in Areas \ Twice /\ "public-shadow" \notin Fresh(c)
    BY DEF Areas, Twice, Fresh
  <1>2. Impact \in Scenarios /\ Data[Impact].verdict = "APPROVE"
    BY ChecksNameScenarios
  <1>3. QED
    BY <1>1, <1>2, RunForRow DEF VerifyPublicShadowImpact

LEMMA Appended ==
    ASSUME NEW c, NEW X, NEW Y, NEW A, NEW B, X \cap Y = {},
           Sound(c, A, {}, X), Sound(c, B, {}, Y)
    PROVE  /\ Sound(c, A \o B, {}, X \cup Y)
           /\ ToSet(A) \subseteq ToSet(A \o B) /\ ToSet(B) \subseteq ToSet(A \o B)
  <1>1. Sound(c, B, {} \cup ToSet(A), Y)
    BY SoundWeaker
  <1>2. QED
    BY <1>1, JoinedSound

\* What `verify` does only with both controls.
LEMMA AcknowledgedSound ==
    ASSUME NEW c, c.name = "verify", Check(c.controls)
    PROVE  LET V == VerifyOutcomes(Guarded) \o VerifyPublicShadowImpact \o VerifyHalfFixes
                    \o VerifyNegativeControls
           IN  /\ Sound(c, V, {}, (Twice \X ToSet(Guarded))
                                  \cup ({"public-shadow", "half-fix", "controls"} \X Scenarios))
               /\ ToSet(VerifyOutcomes(Guarded)) \subseteq ToSet(V)
  <1> DEFINE A == VerifyOutcomes(Guarded)
             X == Twice \X ToSet(Guarded)
             Y1 == {"public-shadow"} \X {Impact}
             Y2 == {"half-fix"} \X ToSet(HalfFixes)
             Y3 == {"controls"} \X ToSet(Controls)
  <1>1. /\ Guarded \in Seq(Scenarios) /\ IsInjective(Guarded)
        /\ ToSet(Guarded) \subseteq ToSet(Reachable(c))
    BY Lists, ScenariosAreListedOnce
  <1>2. Sound(c, A, {}, X)
    BY <1>1, OutcomesSound
  <1>3. Sound(c, VerifyPublicShadowImpact, {}, Y1)
    BY ImpactSound
  <1>4. Sound(c, VerifyHalfFixes, {}, Y2)
    BY HalfFixesSound
  <1>5. Sound(c, VerifyNegativeControls, {}, Y3)
    BY ControlsSound
  <1>6. X \cap Y1 = {} /\ (X \cup Y1) \cap Y2 = {} /\ (X \cup Y1 \cup Y2) \cap Y3 = {}
    BY DEF Twice
  <1>7. X \cup Y1 \cup Y2 \cup Y3
           \subseteq X \cup ({"public-shadow", "half-fix", "controls"} \X Scenarios)
    <2>1. Impact \in Scenarios /\ ToSet(HalfFixes) \subseteq Scenarios
          /\ ToSet(Controls) \subseteq Scenarios
      BY ChecksNameScenarios, Listed
    <2>2. QED
      BY <2>1
  <1> HIDE DEF A, X, Y1, Y2, Y3
  <1> DEFINE A1 == A \o VerifyPublicShadowImpact
             A2 == A1 \o VerifyHalfFixes
             A3 == A2 \o VerifyNegativeControls
  <1>8. Sound(c, A1, {}, X \cup Y1) /\ ToSet(A) \subseteq ToSet(A1)
    BY <1>2, <1>3, <1>6, Appended
  <1> HIDE DEF A1
  <1>9. Sound(c, A2, {}, X \cup Y1 \cup Y2) /\ ToSet(A1) \subseteq ToSet(A2)
    BY <1>4, <1>6, <1>8, Appended
  <1> HIDE DEF A2
  <1>10. Sound(c, A3, {}, X \cup Y1 \cup Y2 \cup Y3) /\ ToSet(A2) \subseteq ToSet(A3)
    BY <1>5, <1>6, <1>9, Appended
  <1> HIDE DEF A3
  <1>11. /\ Sound(c, A3, {}, X \cup ({"public-shadow", "half-fix", "controls"} \X Scenarios))
         /\ ToSet(A) \subseteq ToSet(A3)
    BY <1>7, <1>8, <1>9, <1>10, SoundWeaker
  <1>12. QED
    BY <1>11 DEF A, X, A1, A2, A3

\* A scenario's row is gone through if it is reachable.
LEMMA RunAllSound ==
    ASSUME NEW c, c.name = "verify"
    PROVE  /\ Sound(c, RunAll(c), {}, Areas \X Scenarios)
           /\ Surface \in ToSet(RunAll(c))
           /\ \A s \in ToSet(Reachable(c)) :
                 /\ Op("judge-scenario", <<"scenarios", s>>, s) \in ToSet(RunAll(c))
                 /\ Op("judge-harness", <<"second", s>>, s) \in ToSet(RunAll(c))
  <1> DEFINE A == <<Surface>>
             B == VerifyOutcomes(Defaults)
             M == Matrix("matrix", c)
             O == VerifyOptIn(c)
             E == IF Check(c.controls)
                  THEN VerifyOutcomes(Guarded) \o VerifyPublicShadowImpact \o VerifyHalfFixes
                       \o VerifyNegativeControls
                  ELSE <<>>
             X == Twice \X ToSet(Defaults)
             Y == IF Check(c.controls)
                  THEN (Twice \X ToSet(Guarded))
                       \cup ({"public-shadow", "half-fix", "controls"} \X Scenarios)
                  ELSE {}
  <1>1. Sound(c, A, {}, {})
    <2> DEFINE x == Surface
    <2>1. x \in Ops
      BY OpsAre DEF Kinds, Surface
    <2>2. x.op = "judge-surface"
      BY OpHas DEF Surface
    <2>3. Demands(c, x) = {}
      BY OthersRest DEF Surface
    <2> HIDE DEF x
    <2>4. Allowed(c, x)
      BY <2>2 DEF Allowed
    <2>5. Sound(c, <<x>>, {}, {})
      BY <2>1, <2>2, <2>3, <2>4, OneSound
    <2>6. QED
      BY <2>5 DEF x
  <1>0. Surface \in ToSet(A)
    BY DEF ToSet
  <1>2. /\ Defaults \in Seq(Scenarios) /\ IsInjective(Defaults)
        /\ ToSet(Defaults) \subseteq ToSet(Reachable(c))
        /\ ToSet(Defaults) \cap ToSet(Guarded) = {}
        /\ ToSet(Defaults) \cup ToSet(Guarded) = Scenarios
        /\ ToSet(Reachable(c)) = IF Check(c.controls) THEN Scenarios ELSE ToSet(Defaults)
    BY Lists, ScenariosAreListedOnce
  <1>3. /\ Sound(c, B, {}, X)
        /\ \A s \in ToSet(Defaults) :
              /\ Op("judge-scenario", <<"scenarios", s>>, s) \in ToSet(B)
              /\ Op("judge-harness", <<"second", s>>, s) \in ToSet(B)
    BY <1>2, OutcomesSound
  <1>4. Sound(c, M, {}, {})
    BY MatrixSound
  <1>5. Sound(c, O, {}, {})
    BY OptInSound
  <1>6. Sound(c, E, {}, Y)
    BY AcknowledgedSound, NothingIsSound
  <1>7. \A s \in ToSet(Guarded) : Check(c.controls) =>
              /\ Op("judge-scenario", <<"scenarios", s>>, s) \in ToSet(E)
              /\ Op("judge-harness", <<"second", s>>, s) \in ToSet(E)
    <2> SUFFICES ASSUME Check(c.controls)
                 PROVE  \A s \in ToSet(Guarded) :
                           /\ Op("judge-scenario", <<"scenarios", s>>, s) \in ToSet(E)
                           /\ Op("judge-harness", <<"second", s>>, s) \in ToSet(E)
      OBVIOUS
    <2>1. /\ Guarded \in Seq(Scenarios) /\ IsInjective(Guarded)
          /\ ToSet(Guarded) \subseteq ToSet(Reachable(c))
      BY <1>2, ScenariosAreListedOnce
    <2>2. \A s \in ToSet(Guarded) :
             /\ Op("judge-scenario", <<"scenarios", s>>, s) \in ToSet(VerifyOutcomes(Guarded))
             /\ Op("judge-harness", <<"second", s>>, s) \in ToSet(VerifyOutcomes(Guarded))
      BY <2>1, OutcomesSound
    <2>3. ToSet(VerifyOutcomes(Guarded)) \subseteq ToSet(E)
      BY AcknowledgedSound
    <2> HIDE DEF E
    <2>4. QED
      BY <2>2, <2>3
  <1>8. X \cap Y = {}
    BY <1>2 DEF Twice
  <1>9. X \cup Y \subseteq Areas \X Scenarios
    BY <1>2 DEF Twice, Areas
  <1> HIDE DEF A, B, M, O, E, X, Y
  <1> DEFINE V1 == A \o B
             V2 == V1 \o M
             V3 == V2 \o O
             V4 == V3 \o E
  <1>10. {} \cap X = {} /\ {} \cup X = X /\ X \cap {} = {} /\ X \cup {} = X
    OBVIOUS
  <1>11. /\ Sound(c, V1, {}, X)
         /\ ToSet(A) \subseteq ToSet(V1) /\ ToSet(B) \subseteq ToSet(V1)
    <2>1. Sound(c, A \o B, {}, {} \cup X) /\ ToSet(A) \subseteq ToSet(A \o B)
          /\ ToSet(B) \subseteq ToSet(A \o B)
      BY <1>1, <1>3, <1>10, Appended
    <2>2. QED
      BY <1>10, <2>1
  <1> HIDE DEF V1
  <1>12. Sound(c, V2, {}, X) /\ ToSet(V1) \subseteq ToSet(V2)
    BY <1>4, <1>10, <1>11, Appended
  <1> HIDE DEF V2
  <1>13. Sound(c, V3, {}, X) /\ ToSet(V2) \subseteq ToSet(V3)
    BY <1>5, <1>10, <1>12, Appended
  <1> HIDE DEF V3
  <1>14. /\ Sound(c, V4, {}, X \cup Y)
         /\ ToSet(V3) \subseteq ToSet(V4) /\ ToSet(E) \subseteq ToSet(V4)
    BY <1>6, <1>8, <1>13, Appended
  <1> HIDE DEF V4
  <1>15. Sound(c, V4, {}, Areas \X Scenarios)
    BY <1>9, <1>14, SoundWeaker
  <1>16. \A s \in ToSet(Reachable(c)) :
                 /\ Op("judge-scenario", <<"scenarios", s>>, s) \in ToSet(V4)
                 /\ Op("judge-harness", <<"second", s>>, s) \in ToSet(V4)
    BY <1>2, <1>3, <1>7, <1>11, <1>12, <1>13, <1>14
  <1>17. RunAll(c) = V4
    BY DEF RunAll, Surface, A, B, M, O, E, V1, V2, V3, V4
  <1>18. Surface \in ToSet(V4)
    BY <1>0, <1>11, <1>12, <1>13, <1>14
  <1>19. QED
    BY <1>15, <1>16, <1>17, <1>18

LEMMA ReleaseSound ==
    ASSUME NEW c, c.name = "release", c.s \in Scenarios
    PROVE  Sound(c, <<Op("execute", Root, c.s), Op("judge-build", Root, c.s)>>, {}, {})
  <1> DEFINE e == Op("execute", Root, c.s)
             j == Op("judge-build", Root, c.s)
             V == <<e, j>>
  <1>1. e \in Ops /\ j \in Ops
    BY OpsAre DEF Kinds
  <1>2. /\ e.op = "execute" /\ j.op = "judge-build"
        /\ e.path = Root /\ j.path = Root /\ e.s = c.s /\ j.s = c.s
    BY OpHas
  <1>3. Root[1] = "release" /\ Root \notin Unwiped
    BY DEF Root, Unwiped
  <1>4. \A d \in Demands(c, e) : FALSE
    <2>1. "release" \notin Fresh(c) /\ "release" \notin Twice
      BY DEF Fresh, Twice
    <2>2. QED
      BY <1>2, <1>3, <2>1, Rests
  <1>5. \A d \in Demands(c, j) : d = Demand("before", e)
    BY BuildRests
  <1> HIDE DEF e, j
  <1>6. V \in Seq(Ops) /\ Len(V) = 2 /\ V[1] = e /\ V[2] = j
    BY ONLY <1>1
  <1> HIDE DEF V
  <1>7. /\ \A k \in 1 .. Len(V) : k = 1 \/ k = 2
        /\ 1 \in 1 .. Len(V) /\ 2 \in 1 .. Len(V)
    BY <1>6
  <1>8. Allowed(c, e) /\ Allowed(c, j)
    BY <1>2 DEF Allowed
  <1>9. Met(V, 2, Demand("before", e))
    BY <1>6, <1>7, DemandHas DEF Met, Placed
  <1>10. Complete(c, V, {})
    BY <1>4, <1>5, <1>6, <1>7, <1>9 DEF Complete
  <1>11. \A k \in 1 .. Len(V) : V[k].path = Root
    BY <1>2, <1>6, <1>7
  <1>12. Once(V) /\ Executed(V) = {}
    BY <1>3, <1>11 DEF Once, Executed
  <1>13. Sound(c, V, {}, {})
    BY <1>6, <1>7, <1>8, <1>10, <1>12 DEF Sound
  <1>14. QED
    BY <1>13 DEF V, e, j

LEMMA ShowSound ==
    ASSUME NEW c, NEW p \in Paths, NEW s \in Scenarios \cup {None}
    PROVE  Sound(c, <<Op("show", p, s)>>, {}, {})
  <1> DEFINE x == Op("show", p, s)
  <1>1. x.op = "show" /\ x.path = p /\ x.s = s
    BY OpHas
  <1>2. x \in Ops
    BY DEF Op, Ops, Kinds
  <1>3. Demands(c, x) = {}
    BY OthersRest
  <1> HIDE DEF x
  <1>4. Allowed(c, x)
    BY <1>1 DEF Allowed
  <1>5. Sound(c, <<x>>, {}, {})
    BY <1>1, <1>2, <1>3, <1>4, OneSound
  <1>6. QED
    BY <1>5 DEF x

\* What the invariant needs of any command's program.
LEMMA ProgramSound ==
    ASSUME NEW c \in UserCommands
    PROVE  /\ Sound(c, Program(c), {}, Areas \X Scenarios)
           /\ c.name = "verify" => Surface \in ToSet(Program(c))
           /\ c.name = "verify" =>
                 \A s \in ToSet(Reachable(c)) :
                    /\ Op("judge-scenario", <<"scenarios", s>>, s) \in ToSet(Program(c))
                    /\ Op("judge-harness", <<"second", s>>, s) \in ToSet(Program(c))
           /\ c.name = "compare" =>
                 \A s \in ToSet(Reachable(c)) :
                    Op("execute", <<"scenarios", s>>, s) \in ToSet(Program(c))
           /\ Program(c) # <<>>
  <1>1. /\ c.name \in {"release", "harness", "compare", "verify"}
        /\ c.name \in {"release", "harness"} => c.s \in Scenarios
    BY DEF UserCommands
  <1>2. CASE c.name = "release"
    <2>1. Program(c) = <<Op("execute", Root, c.s), Op("judge-build", Root, c.s)>>
      BY <1>2 DEF Program
    <2>2. Sound(c, Program(c), {}, Areas \X Scenarios)
      BY <1>1, <1>2, <2>1, ReleaseSound, SoundWeaker
    <2>3. QED
      BY <1>2, <2>1, <2>2
  <1>3. CASE c.name = "harness"
    <2> DEFINE A == RunIn("scenarios", c.s)
               B == <<Op("show", <<"scenarios", c.s>>, c.s)>>
               X == {"scenarios"} \X {c.s}
    <2>1. Program(c) = A \o B
      BY <1>3 DEF Program
    <2>2. "scenarios" \in Areas \ Twice /\ "scenarios" \notin Fresh(c)
      BY <1>3 DEF Areas, Twice, Fresh
    <2>3. Sound(c, A, {}, X) /\ Op("execute", <<"scenarios", c.s>>, c.s) \in ToSet(A)
      BY <1>1, <1>3, <2>2, RunRow
    <2>4. <<"scenarios", c.s>> \in Paths
      BY <1>1, <1>3 DEF Paths, Areas
    <2>5. Sound(c, B, {}, {})
      BY <1>1, <1>3, <2>4, ShowSound
    <2>6. X \subseteq Areas \X Scenarios
      BY <1>1, <1>3, <2>2
    <2> HIDE DEF A, B, X
    <2>7. X \cap {} = {} /\ X \cup {} = X
      OBVIOUS
    <2>8. Sound(c, A \o B, {}, X) /\ ToSet(A) \subseteq ToSet(A \o B)
      BY <2>3, <2>5, <2>7, Appended
    <2>9. A \o B # <<>>
      <3>1. A \o B = <<>> => ToSet(A \o B) = {}
        BY DEF ToSet
      <3>2. QED
        BY <2>3, <2>8, <3>1
    <2>10. QED
      BY <1>3, <2>1, <2>6, <2>8, <2>9, SoundWeaker
  <1>4. CASE c.name = "compare"
    <2> DEFINE A == Matrix("scenarios", c)
               B == <<Op("show", Root, None)>>
    <2>1. Program(c) = A \o B
      BY <1>4 DEF Program
    <2>2. /\ Sound(c, A, {}, {})
          /\ \A s \in ToSet(Reachable(c)) : Op("execute", <<"scenarios", s>>, s) \in ToSet(A)
      BY <1>4, MatrixSound
    <2>3. Root \in Paths
      BY DEF Paths
    <2>4. Sound(c, B, {}, {}) /\ B # <<>> /\ ToSet(B) # {}
      <3>1. ToSet(B) # {}
        BY DEF ToSet
      <3>2. QED
        BY <2>3, <3>1, ShowSound
    <2> HIDE DEF A, B
    <2>5. /\ Sound(c, A \o B, {}, {})
          /\ ToSet(A) \subseteq ToSet(A \o B) /\ ToSet(B) \subseteq ToSet(A \o B)
      <3>1. {} \cap {} = {} /\ {} \cup {} = {}
        OBVIOUS
      <3>2. QED
        BY <2>2, <2>4, <3>1, Appended
    <2>6. A \o B # <<>>
      <3>1. A \o B = <<>> => ToSet(A \o B) = {}
        BY DEF ToSet
      <3>2. QED
        BY <2>4, <2>5, <3>1
    <2>7. QED
      BY <1>4, <2>1, <2>2, <2>5, <2>6, SoundWeaker
  <1>5. CASE c.name = "verify"
    <2>1. Program(c) = RunAll(c)
      BY <1>5 DEF Program
    <2>2. RunAll(c) # <<>>
      <3>1. ToSet(RunAll(c)) # {}
        BY <1>5, RunAllSound
      <3>2. RunAll(c) = <<>> => ToSet(RunAll(c)) = {}
        BY DEF ToSet
      <3>3. QED
        BY <3>1, <3>2
    <2>3. QED
      BY <1>5, <2>1, <2>2, RunAllSound
  <1>6. QED
    BY <1>1, <1>2, <1>3, <1>4, <1>5

-----------------------------------------------------------------------------
(***************************************************************************)
(* Outcomes.                                                               *)
(***************************************************************************)
LEMMA Records ==
    \A s, verdict, mutation, failure :
       LET o == Result(s, verdict, mutation, failure)
       IN  /\ o.scenario = s /\ o.verdict = verdict /\ o.mutation = mutation
           /\ o.failure = failure
           /\ o.result = IF failure = None THEN "BUILD_OK" ELSE "BUILD_FAILED"
  BY DEF Result

LEMMA OutcomesAre ==
    ASSUME NEW s \in Scenarios, NEW ledger, NEW answering
    PROVE  /\ Outcome(s, ledger, answering) \in Outcomes(s)
           /\ Outcome(s, ledger, answering) \in AllOutcomes
           /\ Outcome(s, ledger, answering).scenario = s
  <1>1. Data[s].verdict \in Verdicts
    BY VerdictsAreKnown DEF Verdicts
  <1>2. ASSUME NEW verdict \in Verdicts,
               NEW mutation \in {"none", "approved", "suppressed-duplicate"},
               NEW failure \in {None, "refused", "unreachable"}
        PROVE  Result(s, verdict, mutation, failure) \in Outcomes(s)
    BY <1>2 DEF Result, Outcomes
  <1>3. None \in Verdicts /\ "APPROVE" \in Verdicts /\ "REJECT" \in Verdicts
    BY DEF Verdicts
  <1>4. Outcome(s, ledger, answering) \in Outcomes(s)
    BY <1>2, <1>3 DEF Outcome
  <1>5. Outcomes(s) \subseteq AllOutcomes
    BY DEF AllOutcomes
  <1>6. \A o \in Outcomes(s) : o.scenario = s
    BY DEF Outcomes
  <1>7. QED
    BY <1>4, <1>5, <1>6

\* With registries that answer, all that decides is whether the candidate was in
\* the ledger.
LEMMA AsTheTableSays ==
    ASSUME NEW s \in Scenarios, NEW ledger, Entries(ledger) = {}, NEW answering,
           Data[s].asks \subseteq answering
    PROVE  Outcome(s, ledger, answering) = Expected(s)
  <1>1. Entries({}) = {}
    BY DEF Entries
  <1>2. Data[s].asks \subseteq Halves
    BY DefaultsAskDefaults
  <1>3. QED
    BY <1>1, <1>2 DEF Outcome, Expected

\* A scenario that is not refused asks registries that are to be running.
LEMMA AsksTheDue ==
    ASSUME NEW c, NEW s \in Scenarios, s \in ToSet(Guarded) => Check(c.controls)
    PROVE  Data[s].asks \subseteq Due(c)
  <1>1. ~Check(c.controls) => s \in ToSet(Defaults)
    BY Lists
  <1>2. QED
    BY <1>1, DefaultsAskDefaults DEF Due

LEMMA TheTable ==
    ASSUME NEW s \in Scenarios
    PROVE  /\ Heard(Expected(s))
           /\ Expected(s).verdict = Data[s].verdict
           /\ Data[s].verdict = "APPROVE" => Changed(Expected(s))
  <1>1. Entries({}) = {}
    BY DEF Entries
  <1>0. Data[s].asks \subseteq Halves
    BY DefaultsAskDefaults
  <1>2. Expected(s) =
           IF Data[s].verdict = None THEN Result(s, None, "none", "refused")
           ELSE IF Data[s].verdict = "REJECT" THEN Result(s, "REJECT", "none", None)
           ELSE Result(s, "APPROVE", "approved", None)
    BY <1>0, <1>1 DEF Expected, Outcome
  <1>3. /\ Data[s].verdict \in {None, "APPROVE", "REJECT"}
        /\ None # "APPROVE" /\ None # "REJECT" /\ None # "unreachable"
    BY VerdictsAreKnown
  <1>4. QED
    BY <1>2, <1>3, Records DEF Heard, Changed

\* An outcome that the registries heard of and that changed what it should have
\* is the table's.
LEMMA OutcomeDecided ==
    ASSUME NEW s \in Scenarios, NEW ledger, NEW answering,
           Heard(Outcome(s, ledger, answering)),
           Changed(Outcome(s, ledger, answering)) <=> Changed(Expected(s))
    PROVE  Outcome(s, ledger, answering) = Expected(s)
  <1>0. Data[s].asks \subseteq Halves
    BY DefaultsAskDefaults
  <1>1. Data[s].asks \subseteq answering
    <2>1. ~ (Data[s].asks \subseteq answering) =>
             Outcome(s, ledger, answering) = Result(s, None, "none", "unreachable")
      BY DEF Outcome
    <2>2. ~ Heard(Result(s, None, "none", "unreachable"))
      BY Records DEF Heard
    <2>3. QED
      BY <2>1, <2>2
  <1>2. Entries({}) = {}
    BY DEF Entries
  <1>3. CASE Data[s].verdict \in {None, "REJECT"}
    BY <1>0, <1>1, <1>3 DEF Outcome, Expected
  <1>4. CASE Data[s].verdict \notin {None, "REJECT"}
    <2>1. Outcome(s, ledger, answering) =
             Result(s, "APPROVE",
                    IF Data[s].candidate \in Entries(ledger) THEN "suppressed-duplicate"
                    ELSE "approved",
                    None)
      BY <1>1, <1>4 DEF Outcome
    <2>2. Expected(s) = Result(s, "APPROVE", "approved", None)
      BY <1>0, <1>2, <1>4 DEF Expected, Outcome
    <2>3. Changed(Expected(s)) /\ ~ Changed(Result(s, "APPROVE", "suppressed-duplicate", None))
      BY <2>2, Records DEF Changed
    <2>4. QED
      BY <2>1, <2>2, <2>3
  <1>5. QED
    BY <1>3, <1>4

LEMMA Ledgers ==
    ASSUME NEW s \in Scenarios, NEW ledger \in {NoFile} \cup SUBSET Candidates, NEW o,
           o.scenario = s
    PROVE  /\ Entries(ledger) \in SUBSET Candidates
           /\ Saved(ledger, o) \in SUBSET Candidates
  <1>1. Entries(ledger) \in SUBSET Candidates
    BY DEF Entries
  <1>2. Data[s].candidate \in Candidates
    BY DEF Candidates
  <1>3. QED
    BY <1>1, <1>2 DEF Saved

\* What is left of a program after its first operation.
LEMMA Left ==
    ASSUME NEW V \in Seq(Ops), V # <<>>
    PROVE  /\ Len(V) \in Nat /\ Len(V) > 0 /\ 1 \in 1 .. Len(V)
           /\ Head(V) = V[1] /\ Head(V) \in Ops
           /\ Tail(V) \in Seq(Ops) /\ Len(Tail(V)) = Len(V) - 1
           /\ \A k \in 1 .. Len(Tail(V)) : k + 1 \in 1 .. Len(V) /\ Tail(V)[k] = V[k + 1]
           /\ \A k \in 1 .. Len(V) :
                 k # 1 => k - 1 \in 1 .. Len(Tail(V)) /\ Tail(V)[k - 1] = V[k]
  <1>1. /\ Len(V) \in Nat /\ Len(V) > 0 /\ 1 \in 1 .. Len(V)
        /\ Head(V) = V[1] /\ Head(V) \in Ops
        /\ Tail(V) \in Seq(Ops) /\ Len(Tail(V)) = Len(V) - 1
    OBVIOUS
  <1>2. \A k \in 1 .. Len(Tail(V)) : k + 1 \in 1 .. Len(V) /\ Tail(V)[k] = V[k + 1]
    OBVIOUS
  <1>3. ASSUME NEW k \in 1 .. Len(V), k # 1
        PROVE  k - 1 \in 1 .. Len(Tail(V)) /\ Tail(V)[k - 1] = V[k]
    <2>1. k - 1 \in 1 .. Len(Tail(V)) /\ k - 1 + 1 = k
      BY <1>1, <1>3
    <2>2. QED
      BY <1>2, <2>1
  <1>4. QED
    BY <1>1, <1>2, <1>3

-----------------------------------------------------------------------------
(***************************************************************************)
(* The invariant, at first, and when a command begins or stops.            *)
(***************************************************************************)
LEMMA AbsentIsADirectory == Absent \in Directories
  BY DEF Absent, Directories

LEMMA InitInv == Init => IInv
  <1> SUFFICES ASSUME Init PROVE IInv
    OBVIOUS
  <1>1. /\ todo = <<>> /\ Len(todo) = 0 /\ ~Begun /\ ended = "ok"
        /\ DOMAIN held = {} /\ held = [p \in DOMAIN held |-> held[p]]
    BY DEF Init, Begun
  <1>2. TypeOK
    <2>1. dirs \in [Paths -> Directories]
      BY AbsentIsADirectory DEF Init
    <2>2. <<>> \in Seq(Ops) /\ commands \in Nat
      BY DEF Init
    <2>3. QED
      BY <1>1, <2>1, <2>2 DEF Init, TypeOK
  <1>3. OnTrack /\ HeldAreOutcomes
    BY <1>1 DEF OnTrack, HeldAreOutcomes
  <1>4. QED
    BY <1>1, <1>2, <1>3
       DEF IInv, OnceOnly, UnusedYet, HeldAsExpected, RunOrToRun, JudgedOrToJudge,
           FoundOrToFind, PassingUndisturbed, EndIsSaid

LEMMA BeginInv ==
    ASSUME IInv, NEW c \in UserCommands, Begin(c)
    PROVE  IInv'
  <1> DEFINE V == Program(c)
  <1>1. /\ Sound(c, V, {}, Areas \X Scenarios)
        /\ c.name = "verify" => Surface \in ToSet(V)
        /\ c.name = "verify" =>
                 \A s \in ToSet(Reachable(c)) :
                    /\ Op("judge-scenario", <<"scenarios", s>>, s) \in ToSet(V)
                    /\ Op("judge-harness", <<"second", s>>, s) \in ToSet(V)
        /\ c.name = "compare" =>
                 \A s \in ToSet(Reachable(c)) :
                    Op("execute", <<"scenarios", s>>, s) \in ToSet(V)
    BY ProgramSound
  <1> HIDE DEF V
  <1>2. /\ todo' = V /\ command' = c /\ ended' = "running" /\ passing' = TRUE
        /\ commands' = commands + 1 /\ seen' = {up} /\ dirs' = dirs /\ up' = up
        /\ unused' = \A p \in Unwiped : Entries(dirs[p].ledger) = {}
        /\ held' = [p \in {} |-> None]
    BY DEF Begin, V
  <1>3. DOMAIN held' = {} /\ held' = [p \in DOMAIN held' |-> held'[p]]
    BY <1>2
  <1>4. TypeOK /\ V \in Seq(Ops)
    BY <1>1 DEF IInv, Sound
  <1>5. commands' \in Nat /\ commands' > 0
    BY <1>2, <1>4 DEF TypeOK
  <1>6. TypeOK'
    <2>1. unused' \in BOOLEAN
      BY <1>2
    <2>2. /\ dirs' \in [Paths -> Directories] /\ up' \in SUBSET Halves
          /\ seen' \subseteq SUBSET Halves /\ up' \in seen'
      BY <1>2, <1>4 DEF TypeOK
    <2>3. QED
      BY <1>2, <1>3, <1>4, <1>5, <2>1, <2>2 DEF TypeOK, Begun
  <1>7. OnTrack'
    <2>1. ASSUME NEW k \in 1 .. Len(V), NEW d \in Demands(c, V[k])
          PROVE  Met(V, k, d)
      BY <1>1 DEF Sound, Complete
    <2>2. \A k \in 1 .. Len(V) : Allowed(c, V[k])
      BY <1>1 DEF Sound
    <2>3. QED
      BY <1>2, <2>1, <2>2 DEF OnTrack
  <1>8. HeldAreOutcomes' /\ HeldAsExpected'
    BY <1>3 DEF HeldAreOutcomes, HeldAsExpected
  <1>9. OnceOnly'
    BY <1>1, <1>2, <1>3 DEF OnceOnly, Sound
  <1>10. UnusedYet'
    BY <1>2 DEF UnusedYet
  <1>11. ToSet(V) = {V[k] : k \in 1 .. Len(V)}
    BY <1>4, Elements
  <1>12. RunOrToRun'
    BY <1>1, <1>2, <1>11 DEF RunOrToRun
  <1>13. JudgedOrToJudge'
    BY <1>1, <1>2, <1>11 DEF JudgedOrToJudge
  <1>14. FoundOrToFind'
    BY <1>1, <1>2, <1>11 DEF FoundOrToFind
  <1>15. PassingUndisturbed' /\ EndIsSaid'
    BY <1>2 DEF PassingUndisturbed, EndIsSaid
  <1>16. QED
    BY <1>6, <1>7, <1>8, <1>9, <1>10, <1>12, <1>13, <1>14, <1>15 DEF IInv

\* When the registries of one half stop or start.
LEMMA ChangeInv ==
    ASSUME IInv, NEW half \in Halves, Change(half)
    PROVE  IInv'
  <1>1. /\ UNCHANGED <<command, todo, ended, passing, held, dirs, unused, shown, commands>>
        /\ up' = IF half \in up THEN up \ {half} ELSE up \cup {half}
        /\ seen' = IF ended = "running" THEN seen \cup {up'} ELSE seen
    BY DEF Change
  <1>2. TypeOK'
    <2>1. up' \in SUBSET Halves
      BY <1>1 DEF IInv, TypeOK
    <2>2. seen' \subseteq SUBSET Halves /\ (ended = "running" => up' \in seen')
      BY <1>1, <2>1 DEF IInv, TypeOK
    <2>3. QED
      BY <1>1, <2>1, <2>2 DEF IInv, TypeOK, Begun
  <1>3. /\ seen \subseteq seen' /\ Due(command)' = Due(command)
        /\ Answering' => Answering
    BY <1>1 DEF Answering, Due
  <1>4. seen' = {Due(command)} => seen = {Due(command)} \/ seen = {}
    BY <1>3
  <1>5. ended = "running" => seen # {}
    BY DEF IInv, TypeOK
  <1>6. OnTrack'
    BY <1>1 DEF IInv, OnTrack, Done, Stands
  <1>7. HeldAreOutcomes' /\ OnceOnly' /\ UnusedYet'
    BY <1>1 DEF IInv, HeldAreOutcomes, OnceOnly, UnusedYet, Begun
  <1>8. HeldAsExpected'
    BY <1>1, <1>3 DEF IInv, HeldAsExpected, Begun
  <1>9. RunOrToRun'
    BY <1>1 DEF IInv, RunOrToRun, Begun
  <1>10. JudgedOrToJudge'
    BY <1>1 DEF IInv, JudgedOrToJudge, LeftAsExpected, ToldAsExpected, Begun
  <1>11. FoundOrToFind'
    BY <1>1, <1>3 DEF IInv, FoundOrToFind, Begun
  <1>12. PassingUndisturbed' /\ EndIsSaid'
    <2>1. CASE ended = "running"
      BY <1>1, <1>3, <1>4, <1>5, <2>1 DEF IInv, PassingUndisturbed, EndIsSaid, Begun
    <2>2. CASE ended # "running"
      BY <1>1, <1>3, <2>2 DEF IInv, PassingUndisturbed, EndIsSaid, Begun
    <2>3. QED
      BY <2>1, <2>2
  <1>13. QED
    BY <1>2, <1>6, <1>7, <1>8, <1>9, <1>10, <1>11, <1>12 DEF IInv

\* When a command stops.
LEMMA StopInv ==
    ASSUME IInv, ended = "running", Stop, dirs' \in [Paths -> Directories]
    PROVE  IInv'
  <1>1. /\ ended' = "stopped" /\ todo' = <<>> /\ Len(todo') = 0
        /\ UNCHANGED <<command, passing, held, up, seen, unused, shown, commands, changes>>
    BY DEF Stop
  <1>2. TypeOK'
    <2>1. <<>> \in Seq(Ops)
      OBVIOUS
    <2>2. QED
      BY <1>1, <2>1 DEF IInv, TypeOK, Begun
  <1>3. OnTrack'
    BY <1>1 DEF OnTrack
  <1>4. HeldAreOutcomes'
    BY <1>1 DEF IInv, HeldAreOutcomes
  <1>5. OnceOnly'
    BY <1>1 DEF OnceOnly, Once, Executed
  <1>6. HeldAsExpected'
    BY <1>1 DEF IInv, HeldAsExpected, Answering, Begun
  <1>7. UnusedYet' /\ RunOrToRun' /\ JudgedOrToJudge' /\ FoundOrToFind' /\ EndIsSaid'
    BY <1>1 DEF UnusedYet, RunOrToRun, JudgedOrToJudge, FoundOrToFind, EndIsSaid
  <1>8. PassingUndisturbed'
    BY <1>1 DEF IInv, PassingUndisturbed, Begun
  <1>9. QED
    BY <1>2, <1>3, <1>4, <1>5, <1>6, <1>7, <1>8 DEF IInv

-----------------------------------------------------------------------------
(***************************************************************************)
(* The invariant when an operation is done.                                *)
(***************************************************************************)
\* A demand is met by an operation that is left, and still is; or by the one that
\* is gone.
LEMMA MetStays ==
    ASSUME NEW V \in Seq(Ops), V # <<>>, NEW k \in 1 .. Len(Tail(V)), NEW d, Met(V, k + 1, d)
    PROVE  \/ Met(Tail(V), k, d)
           \/ d.place = "before" /\ d.of = Head(V)
           \/ d.place = "just-before" /\ k = 1 /\ d.of = Head(V)
  <1>1. PICK j \in 1 .. Len(V) : V[j] = d.of /\ Placed(d.place, j, k + 1)
    BY DEF Met
  <1>2. CASE j = 1
    <2>1. Head(V) = d.of /\ Len(Tail(V)) \in Nat
      BY <1>1, <1>2, Left
    <2>2. ~ (1 = k + 1 + 1) /\ ~ (1 > k + 1) /\ (1 + 1 = k + 1 => k = 1)
      BY <2>1
    <2>3. QED
      BY <1>1, <1>2, <2>1, <2>2 DEF Placed
  <1>3. CASE j # 1
    <2>1. j - 1 \in 1 .. Len(Tail(V)) /\ Tail(V)[j - 1] = d.of /\ Len(Tail(V)) \in Nat
      BY <1>1, <1>3, Left
    <2>2. /\ j + 1 = k + 1 => (j - 1) + 1 = k
          /\ j < k + 1 => j - 1 < k
          /\ j = k + 1 + 1 => j - 1 = k + 1
          /\ j > k + 1 => j - 1 > k
      BY <2>1
    <2>3. Placed(d.place, j - 1, k)
      BY <1>1, <2>2 DEF Placed
    <2>4. QED
      BY <2>1, <2>3 DEF Met
  <1>4. QED
    BY <1>2, <1>3

LEMMA RestsBefore ==
    ASSUME NEW c, NEW x, NEW d \in Demands(c, x), d.place \in {"before", "just-before"}
    PROVE  \/ x.op = "execute" /\ d = Demand("just-before", Op("wipe", x.path, x.s))
           \/ /\ x.op = "judge-scenario"
              /\ d = Demand("just-before", Op("execute", x.path, x.s))
           \/ d = Demand("before", Op("execute", x.path, x.s))
           \/ /\ x.op = "judge-harness"
              /\ \E y \in BothRuns(x.s) : d = Demand("before", y)
  <1>1. \A y : Demand("just-after", y).place = "just-after" /\ Demand("after", y).place = "after"
    BY DemandHas
  <1>2. \A y : d # Demand("just-after", y) /\ d # Demand("after", y)
    BY <1>1
  <1>3. QED
    BY <1>2 DEF Demands

\* The operations that are demanded before another.
LEMMA Before ==
    ASSUME NEW c, NEW x \in Ops, NEW d \in Demands(c, x), Allowed(c, x),
           d.place \in {"before", "just-before"}
    PROVE  /\ d.of.op \in {"wipe", "execute", "transcribe"}
           /\ d.of.op = "transcribe" =>
                 /\ x.op = "judge-harness" /\ d.place = "before"
                 /\ d.of.path[1] \in Twice /\ d.of = Op("transcribe", d.of.path, d.of.path[2])
           /\ d.of.op = "wipe" => d.place = "just-before"
           /\ d.place = "just-before" /\ d.of.op = "execute" =>
                 c.name = "verify" /\ d.of.path[1] = "scenarios"
  <1>1. \/ x.op = "execute" /\ d = Demand("just-before", Op("wipe", x.path, x.s))
        \/ /\ x.op = "judge-scenario"
           /\ d = Demand("just-before", Op("execute", x.path, x.s))
        \/ d = Demand("before", Op("execute", x.path, x.s))
        \/ /\ x.op = "judge-harness"
           /\ \E y \in BothRuns(x.s) : d = Demand("before", y)
    BY RestsBefore
  <1>2. CASE x.op = "execute" /\ d = Demand("just-before", Op("wipe", x.path, x.s))
    BY <1>2, DemandHas, OpHas
  <1>3. CASE x.op = "judge-scenario" /\ d = Demand("just-before", Op("execute", x.path, x.s))
    <2>1. c.name = "verify" /\ x.path[1] = "scenarios"
      BY <1>3, AreaOf DEF Allowed
    <2>2. QED
      BY <1>3, <2>1, DemandHas, OpHas
  <1>4. CASE d = Demand("before", Op("execute", x.path, x.s))
    BY <1>4, DemandHas, OpHas
  <1>5. CASE x.op = "judge-harness" /\ \E y \in BothRuns(x.s) : d = Demand("before", y)
    <2>1. PICK y \in BothRuns(x.s) : d = Demand("before", y)
      BY <1>5
    <2>2. y.op = "execute" \/ y = Op("transcribe", <<"first", x.s>>, x.s)
             \/ y = Op("transcribe", <<"second", x.s>>, x.s)
      BY OpHas DEF BothRuns
    <2>3. CASE y.op = "execute"
      BY <2>1, <2>3, DemandHas
    <2>4. CASE y = Op("transcribe", <<"first", x.s>>, x.s)
                  \/ y = Op("transcribe", <<"second", x.s>>, x.s)
      <3>1. PICK area \in Twice : y = Op("transcribe", <<area, x.s>>, x.s)
        BY <2>4 DEF Twice
      <3>2. y.op = "transcribe" /\ y.path = <<area, x.s>>
        BY <3>1, OpHas
      <3>3. y.path[1] \in Twice /\ y = Op("transcribe", y.path, y.path[2])
        BY <3>1, <3>2, AreaOf
      <3>4. QED
        BY <1>5, <2>1, <3>2, <3>3, DemandHas
    <2>5. QED
      BY <2>2, <2>3, <2>4
  <1>6. QED
    BY <1>1, <1>2, <1>3, <1>4, <1>5

\* What is left can rely on what it demands when the first operation has left its
\* effect, and undone nothing that an earlier one has left.
LEMMA TailOnTrack ==
    ASSUME TypeOK, OnTrack, todo # <<>>, todo' = Tail(todo), command' = command,
           NEW x \in Ops, x = Head(todo),
           x.op \in {"execute", "transcribe"} => Done(x)',
           x.op = "wipe" => Stands(x)',
           x.op = "execute" /\ command.name = "verify" /\ x.path[1] = "scenarios" => Stands(x)',
           \A y : y.op = "execute" /\ Done(y) => Done(y)',
           \A y : y.op = "transcribe" /\ y.path[1] \in Twice /\ Done(y)
                     => Done(y)' \/ (x.op = "execute" /\ x.path = y.path)
    PROVE  OnTrack'
  <1>1. todo \in Seq(Ops)
    BY DEF TypeOK
  <1>2. /\ Len(todo) \in Nat /\ 1 \in 1 .. Len(todo) /\ x = todo[1]
        /\ \A k \in 1 .. Len(todo') : k + 1 \in 1 .. Len(todo) /\ todo'[k] = todo[k + 1]
        /\ \A k \in 1 .. Len(todo') : todo'[k] \in Ops
        /\ \A k \in 1 .. Len(todo) : k # 1 => k - 1 \in 1 .. Len(todo') /\ todo'[k - 1] = todo[k]
        /\ Len(todo') \in Nat
    BY <1>1, Left
  <1>3. ASSUME NEW k \in 1 .. Len(todo')
        PROVE  Allowed(command', todo'[k])
    BY <1>2 DEF OnTrack
  <1>4. ASSUME NEW k \in 1 .. Len(todo'), NEW d \in Demands(command', todo'[k])
        PROVE  \/ Met(todo', k, d)
               \/ d.place = "before" /\ Done(d.of)'
               \/ d.place = "just-before" /\ k = 1 /\ Stands(d.of)'
    <2>1. d \in Demands(command, todo'[k]) /\ todo'[k] = todo[k + 1] /\ k + 1 \in 1 .. Len(todo)
          /\ todo'[k] \in Ops /\ Allowed(command, todo'[k]) /\ k + 1 # 1
      BY <1>2, <1>3, <1>4
    <2>2. \/ Met(todo, k + 1, d)
          \/ d.place = "before" /\ Done(d.of)
      BY <2>1 DEF OnTrack
    <2>3. d.place \in {"before", "just-before"} =>
             /\ d.of.op \in {"wipe", "execute", "transcribe"}
             /\ d.of.op = "transcribe" =>
                   /\ todo'[k].op = "judge-harness" /\ d.place = "before"
                   /\ d.of.path[1] \in Twice /\ d.of = Op("transcribe", d.of.path, d.of.path[2])
             /\ d.of.op = "wipe" => d.place = "just-before"
             /\ d.place = "just-before" /\ d.of.op = "execute" =>
                   command.name = "verify" /\ d.of.path[1] = "scenarios"
      BY <2>1, Before
    <2>4. CASE Met(todo, k + 1, d)
      <3>1. \/ Met(todo', k, d)
            \/ d.place = "before" /\ d.of = x
            \/ d.place = "just-before" /\ k = 1 /\ d.of = x
        BY <1>1, <2>4, MetStays
      <3>2. CASE d.place = "before" /\ d.of = x
        BY <2>3, <3>2
      <3>3. CASE d.place = "just-before" /\ k = 1 /\ d.of = x
        BY <2>3, <3>3
      <3>4. QED
        BY <3>1, <3>2, <3>3
    <2>5. CASE d.place = "before" /\ Done(d.of)
      <3>1. CASE d.of.op = "execute"
        BY <2>5, <3>1
      <3>2. CASE d.of.op = "transcribe"
        <4>1. Done(d.of)' \/ (x.op = "execute" /\ x.path = d.of.path)
          BY <2>3, <2>5, <3>2
        <4>2. CASE x.op = "execute" /\ x.path = d.of.path
          <5>1. x.path # Root /\ x.path[1] \in Twice
            BY <2>3, <2>5, <3>2, <4>2 DEF Root, Twice
          <5>2. x.s = x.path[2]
            BY <1>2, <4>2, <5>1 DEF OnTrack, Allowed
          <5> DEFINE e == Demand("just-after", Op("transcribe", x.path, x.s))
          <5>3. e \in Demands(command, todo[1])
            BY <1>2, <4>2, <5>1 DEF Demands
          <5>4. e.place = "just-after" /\ e.of = d.of
            BY <2>3, <2>5, <3>2, <4>2, <5>2, DemandHas
          <5> HIDE DEF e
          <5>5. Met(todo, 1, e)
            BY <1>2, <5>3, <5>4 DEF OnTrack
          <5>6. PICK j \in 1 .. Len(todo) : todo[j] = d.of /\ j = 1 + 1
            BY <5>4, <5>5 DEF Met, Placed
          <5>7. 1 \in 1 .. Len(todo') /\ todo'[1] = d.of
            BY <1>2, <5>6
          <5>8. k # 1
            BY <2>3, <2>5, <3>2, <5>7
          <5>9. 1 < k
            BY <1>2, <5>8
          <5>10. QED
            BY <2>5, <5>7, <5>9 DEF Met, Placed
        <4>3. QED
          BY <2>5, <4>1, <4>2
      <3>3. QED
        BY <2>3, <2>5, <3>1, <3>2
    <2>6. QED
      BY <2>2, <2>4, <2>5
  <1>5. QED
    BY <1>3, <1>4 DEF OnTrack

\* What does not depend on which operation it was.
LEMMA ProceedInv ==
    ASSUME IInv, ended = "running", todo # <<>>, Proceed, NEW x \in Ops, x = Head(todo),
           dirs' \in [Paths -> Directories], passing' \in BOOLEAN,
           held' = [p \in DOMAIN held' |-> held'[p]],
           DOMAIN held' = IF x.op = "execute" THEN DOMAIN held \cup {x.path} ELSE DOMAIN held,
           OnTrack', HeldAreOutcomes', UnusedYet', HeldAsExpected', JudgedOrToJudge',
           PassingUndisturbed',
           passing' => passing, passing' /\ x.op = "judge-surface" => up = Due(command)
    PROVE  IInv'
  <1>1. /\ todo' = Tail(todo) /\ UNCHANGED <<command, up, seen, unused, commands, changes>>
        /\ ended' = IF Len(todo) > 1 THEN "running" ELSE IF passing' THEN "ok" ELSE "failed"
    BY DEF Proceed
  <1>2. /\ todo \in Seq(Ops) /\ Len(todo) \in Nat /\ 1 \in 1 .. Len(todo) /\ x = todo[1]
        /\ todo' \in Seq(Ops) /\ Len(todo') = Len(todo) - 1
        /\ \A k \in 1 .. Len(todo') : k + 1 \in 1 .. Len(todo) /\ todo'[k] = todo[k + 1]
        /\ \A k \in 1 .. Len(todo) : k # 1 => k - 1 \in 1 .. Len(todo') /\ todo'[k - 1] = todo[k]
    BY <1>1, Left DEF IInv, TypeOK
  <1>3. TypeOK'
    <2>1. ended' # "running" => todo' = <<>>
      <3>1. ended' # "running" => Len(todo') = 0
        BY <1>1, <1>2
      <3>2. QED
        BY <1>2, <3>1
    <2>2. ended' \in {"running", "ok", "failed", "stopped"} /\ ended' # "stopped"
      BY <1>1
    <2>3. DOMAIN held' \subseteq Paths
      <3>1. x.path \in Paths /\ DOMAIN held \subseteq Paths
        BY DEF Ops, IInv, TypeOK
      <3>2. QED
        BY <3>1
    <2>4. QED
      BY <1>1, <1>2, <2>1, <2>2, <2>3 DEF IInv, TypeOK, Begun
  <1>4. OnceOnly'
    <2> SUFFICES ASSUME Begun
                 PROVE  Once(todo') /\ Executed(todo') \cap DOMAIN held' = {}
      BY <1>1 DEF OnceOnly, Begun
    <2>1. Once(todo) /\ Executed(todo) \cap DOMAIN held = {}
      BY DEF IInv, OnceOnly
    <2>2. Once(todo')
      <3> SUFFICES ASSUME NEW j \in 1 .. Len(todo'), NEW k \in 1 .. Len(todo'),
                          todo'[j].op = "execute", todo'[k].op = "execute",
                          todo'[j].path = todo'[k].path, todo'[j].path \in Unwiped
                   PROVE  j = k
        BY DEF Once
      <3>1. j + 1 = k + 1
        BY <1>2, <2>1 DEF Once
      <3>2. QED
        BY <3>1
    <2>3. ASSUME NEW p \in Executed(todo')
          PROVE  p \notin DOMAIN held'
      <3>1. PICK k \in 1 .. Len(todo') : todo'[k].op = "execute" /\ todo'[k].path = p
        BY <2>3 DEF Executed
      <3>2. p \in Unwiped
        BY <2>3 DEF Executed
      <3>3. k + 1 \in 1 .. Len(todo) /\ todo[k + 1].op = "execute" /\ todo[k + 1].path = p
        BY <1>2, <3>1
      <3>4. p \in Executed(todo)
        BY <3>2, <3>3 DEF Executed
      <3>5. p \notin DOMAIN held
        BY <2>1, <3>4
      <3>6. CASE x.op = "execute" /\ x.path = p
        <4>1. k + 1 = 1
          BY <1>2, <2>1, <3>2, <3>3, <3>6 DEF Once
        <4>2. QED
          BY <4>1
      <3>7. QED
        BY <3>5, <3>6
    <2>4. QED
      BY <2>2, <2>3
  <1>5. RunOrToRun'
    <2> SUFFICES ASSUME Begun, command.name = "compare", NEW s \in ToSet(Reachable(command))
                 PROVE  \/ <<"scenarios", s>> \in DOMAIN held'
                        \/ \E k \in 1 .. Len(todo') :
                              todo'[k] = Op("execute", <<"scenarios", s>>, s)
      BY <1>1 DEF RunOrToRun, Begun
    <2>1. CASE <<"scenarios", s>> \in DOMAIN held
      BY <2>1
    <2>2. CASE \E k \in 1 .. Len(todo) : todo[k] = Op("execute", <<"scenarios", s>>, s)
      <3>1. PICK k \in 1 .. Len(todo) : todo[k] = Op("execute", <<"scenarios", s>>, s)
        BY <2>2
      <3>2. CASE k = 1
        <4>1. x.op = "execute" /\ x.path = <<"scenarios", s>>
          BY <1>2, <3>1, <3>2, OpHas
        <4>2. QED
          BY <4>1
      <3>3. CASE k # 1
        BY <1>2, <3>1, <3>3
      <3>4. QED
        BY <3>2, <3>3
    <2>3. QED
      BY <2>1, <2>2 DEF IInv, RunOrToRun
  <1>6. EndIsSaid'
    BY <1>1 DEF EndIsSaid
  <1>7. FoundOrToFind'
    <2> SUFFICES ASSUME Begun, command.name = "verify", passing'
                 PROVE  Due(command) \in seen \/ \E k \in 1 .. Len(todo') : todo'[k] = Surface
      BY <1>1 DEF FoundOrToFind, Begun
    <2>1. CASE Due(command) \in seen
      BY <2>1
    <2>2. CASE \E k \in 1 .. Len(todo) : todo[k] = Surface
      <3>1. PICK k \in 1 .. Len(todo) : todo[k] = Surface
        BY <2>2
      <3>2. CASE k = 1
        <4>1. x.op = "judge-surface"
          BY <1>2, <3>1, <3>2, OpHas DEF Surface
        <4>2. up \in seen
          BY DEF IInv, TypeOK
        <4>3. QED
          BY <4>1, <4>2
      <3>3. CASE k # 1
        BY <1>2, <3>1, <3>3
      <3>4. QED
        BY <3>2, <3>3
    <2>3. ended # "stopped"
      OBVIOUS
    <2>4. QED
      BY <2>1, <2>2, <2>3 DEF IInv, FoundOrToFind
  <1>8. QED
    BY <1>3, <1>4, <1>5, <1>6, <1>7 DEF IInv

\* A directory is changed only if its assertion is still to come.
LEMMA JudgedStays ==
    ASSUME IInv, ended = "running", todo # <<>>, Proceed, NEW x \in Ops, x = Head(todo),
           x.op \notin {"judge-scenario", "judge-harness"}, passing' => passing,
           \A p : dirs'[p] # dirs[p] => p = x.path /\ x.op \in Changing
    PROVE  JudgedOrToJudge'
  <1>1. todo' = Tail(todo) /\ UNCHANGED <<command, up, seen, unused, commands, changes>>
    BY DEF Proceed
  <1>2. /\ todo \in Seq(Ops) /\ Len(todo) \in Nat /\ 1 \in 1 .. Len(todo) /\ x = todo[1]
        /\ \A k \in 1 .. Len(todo) : k # 1 => k - 1 \in 1 .. Len(todo') /\ todo'[k - 1] = todo[k]
    BY <1>1, Left DEF IInv, TypeOK
  <1>3. Allowed(command, x)
    BY <1>2 DEF IInv, OnTrack
  <1> SUFFICES ASSUME Begun, command.name = "verify", passing,
                      NEW s \in ToSet(Reachable(command))
               PROVE  /\ LeftAsExpected(s)'
                         \/ \E k \in 1 .. Len(todo') :
                               todo'[k] = Op("judge-scenario", <<"scenarios", s>>, s)
                      /\ ToldAsExpected(s)'
                         \/ \E k \in 1 .. Len(todo') :
                               todo'[k] = Op("judge-harness", <<"second", s>>, s)
    BY <1>1 DEF JudgedOrToJudge, Begun
  <1>4. ASSUME NEW y, NEW k \in 1 .. Len(todo), todo[k] = y,
               y.op \in {"judge-scenario", "judge-harness"}
        PROVE  \E m \in 1 .. Len(todo') : todo'[m] = y
    BY <1>2, <1>4
  <1>5. ASSUME NEW y, Demand("after", y) \in Demands(command, x)
        PROVE  \E k \in 1 .. Len(todo) : todo[k] = y
    <2> DEFINE d == Demand("after", y)
    <2>1. d.place = "after" /\ d.of = y /\ d \in Demands(command, todo[1])
      BY <1>2, <1>5, DemandHas
    <2> HIDE DEF d
    <2>2. Met(todo, 1, d)
      BY <1>2, <2>1 DEF IInv, OnTrack
    <2>3. QED
      BY <2>1, <2>2 DEF Met
  <1>6. LeftAsExpected(s)'
           \/ \E k \in 1 .. Len(todo') : todo'[k] = Op("judge-scenario", <<"scenarios", s>>, s)
    <2> DEFINE y == Op("judge-scenario", <<"scenarios", s>>, s)
    <2>1. y.op = "judge-scenario"
      BY OpHas
    <2>2. CASE \E k \in 1 .. Len(todo) : todo[k] = y
      BY <1>4, <2>1, <2>2
    <2>3. CASE LeftAsExpected(s) /\ dirs'[<<"scenarios", s>>] = dirs[<<"scenarios", s>>]
      BY <2>3 DEF LeftAsExpected
    <2>4. CASE dirs'[<<"scenarios", s>>] # dirs[<<"scenarios", s>>]
      <3>1. x.path = <<"scenarios", s>> /\ x.op \in Changing
        BY <2>4
      <3>2. x.path[1] = "scenarios" /\ x.path[2] = s /\ x.path # Root
        BY <3>1, AreaOf DEF Root
      <3>3. x.s = s
        BY <1>3, <3>1, <3>2 DEF Allowed, Changing
      <3>4. Demand("after", y) \in Demands(command, x)
        BY <3>1, <3>2, <3>3 DEF Demands
      <3>5. QED
        BY <1>5, <2>2, <3>4
    <2>5. QED
      BY <2>2, <2>3, <2>4 DEF IInv, JudgedOrToJudge
  <1>7. ToldAsExpected(s)'
           \/ \E k \in 1 .. Len(todo') : todo'[k] = Op("judge-harness", <<"second", s>>, s)
    <2> DEFINE y == Op("judge-harness", <<"second", s>>, s)
    <2>1. y.op = "judge-harness"
      BY OpHas
    <2>2. CASE \E k \in 1 .. Len(todo) : todo[k] = y
      BY <1>4, <2>1, <2>2
    <2>3. CASE /\ ToldAsExpected(s)
               /\ \A area \in Twice : dirs'[<<area, s>>] = dirs[<<area, s>>]
      BY <2>3 DEF ToldAsExpected, Twice
    <2>4. ASSUME NEW area \in Twice, dirs'[<<area, s>>] # dirs[<<area, s>>]
          PROVE  \E k \in 1 .. Len(todo) : todo[k] = y
      <3>1. x.path = <<area, s>> /\ x.op \in Changing
        BY <2>4
      <3>2. x.path[1] \in Twice /\ x.path[2] = s /\ x.path # Root
        BY <3>1, AreaOf DEF Root, Twice
      <3>3. x.s = s
        BY <1>3, <3>1, <3>2 DEF Allowed, Changing
      <3>4. Demand("after", y) \in Demands(command, x)
        BY <3>1, <3>2, <3>3 DEF Demands
      <3>5. QED
        BY <1>5, <3>4
    <2>5. QED
      BY <2>2, <2>3, <2>4 DEF IInv, JudgedOrToJudge
  <1>8. QED
    BY <1>6, <1>7

LEMMA AtHead ==
    ASSUME IInv, NEW op, Running(op)
    PROVE  /\ ended = "running" /\ todo # <<>> /\ Begun
           /\ Head(todo) \in Ops /\ Head(todo).op = op /\ Head(todo) = todo[1]
           /\ 1 \in 1 .. Len(todo)
           /\ Head(todo).path \in Paths /\ Head(todo).s \in Scenarios \cup {None}
           /\ Allowed(command, Head(todo))
           /\ Here \in Directories
  <1>1. ended = "running" /\ todo # <<>> /\ Head(todo).op = op /\ Begun /\ todo \in Seq(Ops)
    BY DEF Running, IInv, TypeOK
  <1>2. Head(todo) \in Ops /\ Head(todo) = todo[1] /\ 1 \in 1 .. Len(todo)
    BY <1>1, Left
  <1>3. Head(todo).path \in Paths /\ Head(todo).s \in Scenarios \cup {None}
    BY <1>2 DEF Ops
  <1>4. Allowed(command, Head(todo))
    BY <1>2 DEF IInv, OnTrack
  <1>5. Here \in Directories
    BY <1>3 DEF IInv, TypeOK, Here
  <1>6. QED
    BY <1>1, <1>2, <1>3, <1>4, <1>5

\* What the head demands is no longer ahead of it.
LEMMA HeadDemands ==
    ASSUME IInv, NEW op, Running(op), NEW d \in Demands(command, Head(todo))
    PROVE  /\ d.place = "before" => Done(d.of)
           /\ d.place = "just-before" => Stands(d.of)
  <1>1. Head(todo) = todo[1] /\ 1 \in 1 .. Len(todo)
    BY AtHead
  <1>2. \/ Met(todo, 1, d)
        \/ d.place = "before" /\ Done(d.of)
        \/ d.place = "just-before" /\ Stands(d.of)
    BY <1>1 DEF IInv, OnTrack
  <1>3. d.place \in {"before", "just-before"} => ~ Met(todo, 1, d)
    BY DEF Met, Placed
  <1>4. QED
    BY <1>2, <1>3

LEMMA DirectoryFields ==
    \A dir \in Directories :
       /\ dir.ledger \in {NoFile} \cup SUBSET Candidates /\ dir.records \in Nat
       /\ dir.transcript \in {None, Partial} \cup AllOutcomes
  BY DEF Directories

LEMMA Emptied ==
    ASSUME NEW dir \in Directories, NEW l \in {NoFile, dir.ledger}, NEW n \in {0, dir.records},
           NEW t \in {None, dir.transcript}
    PROVE  [ledger |-> l, records |-> n, transcript |-> t] \in Directories
  BY DEF Directories

LEMMA SetTo ==
    ASSUME TypeOK, Head(todo).path \in Paths, NEW dir \in Directories, SetHere(dir)
    PROVE  /\ dirs' \in [Paths -> Directories]
           /\ dirs'[Head(todo).path] = dir
           /\ \A p : p # Head(todo).path => dirs'[p] = dirs[p]
  <1>1. dirs' = [dirs EXCEPT ![Head(todo).path] = dir] /\ dirs \in [Paths -> Directories]
    BY DEF SetHere, TypeOK
  <1>2. QED
    BY <1>1

LEMMA WipeInv ==
    ASSUME IInv, Wipe
    PROVE  IInv'
  <1>0. Running("wipe")
    BY DEF Wipe
  <1> PICK x : x = Head(todo)
    OBVIOUS
  <1>1. /\ ended = "running" /\ todo # <<>> /\ Begun /\ x \in Ops /\ x.op = "wipe"
        /\ x.path \in Paths /\ Allowed(command, x) /\ Here \in Directories /\ TypeOK
    BY <1>0, AtHead DEF IInv
  <1>2. x.path[1] \in {"scenarios", "matrix"}
    BY <1>1 DEF Allowed, Fresh
  <1>3. CASE SetHere(Absent) /\ UNCHANGED <<passing, held, shown>> /\ Proceed
    <2>1. /\ dirs' \in [Paths -> Directories] /\ dirs'[x.path] = Absent
          /\ \A p : p # x.path => dirs'[p] = dirs[p]
      BY <1>1, <1>3, AbsentIsADirectory, SetTo
    <2>2. /\ todo' = Tail(todo) /\ passing' = passing /\ held' = held
          /\ UNCHANGED <<command, up, seen, unused, commands, changes>>
          /\ ended' = IF Len(todo) > 1 THEN "running" ELSE IF passing' THEN "ok" ELSE "failed"
      BY <1>3 DEF Proceed
    <2>3. x.op \in Changing /\ x.op \notin {"execute", "transcribe", "judge-scenario", "judge-harness"}
      BY <1>1 DEF Changing
    <2>4. OnTrack'
      <3>1. Stands(x)'
        BY <1>1, <2>1 DEF Stands
      <3>2. \A y : y.op = "execute" /\ Done(y) => Done(y)'
        BY <2>2 DEF Done
      <3>3. ASSUME NEW y, y.op = "transcribe", y.path[1] \in Twice, Done(y)
            PROVE  Done(y)'
        <4>1. y.path # x.path
          BY <1>2, <3>3 DEF Twice
        <4>2. QED
          BY <2>1, <2>2, <3>3, <4>1 DEF Done
      <3>4. OnTrack
        BY DEF IInv
      <3>5. QED
        BY <1>1, <2>2, <2>3, <3>1, <3>2, <3>3, <3>4, TailOnTrack
    <2>5. HeldAreOutcomes' /\ HeldAsExpected' /\ PassingUndisturbed'
      BY <2>2 DEF IInv, HeldAreOutcomes, HeldAsExpected, Answering, PassingUndisturbed, Begun
    <2>6. UnusedYet'
      <3>1. x.path \notin Unwiped
        BY <1>2 DEF Unwiped
      <3>2. ended # "stopped"
        BY <1>1
      <3>3. \A p \in Unwiped : dirs'[p] = dirs[p]
        BY <2>1, <3>1
      <3>4. QED
        BY <2>2, <3>2, <3>3 DEF IInv, UnusedYet, Begun
    <2>7. JudgedOrToJudge'
      BY <1>1, <1>3, <2>1, <2>2, <2>3, JudgedStays
    <2>8. /\ passing' \in BOOLEAN /\ held' = [p \in DOMAIN held' |-> held'[p]]
          /\ DOMAIN held' = DOMAIN held
      BY <1>1, <2>2 DEF TypeOK
    <2>9. QED
      BY <1>1, <1>3, <2>1, <2>3, <2>4, <2>5, <2>6, <2>7, <2>8, ProceedInv
  <1>4. CASE /\ \E l \in {NoFile, Here.ledger}, n \in {0, Here.records}, t \in {None, Here.transcript} :
                   SetHere([ledger |-> l, records |-> n, transcript |-> t])
             /\ Stop
    <2>1. PICK l \in {NoFile, Here.ledger}, n \in {0, Here.records}, t \in {None, Here.transcript} :
                   SetHere([ledger |-> l, records |-> n, transcript |-> t])
      BY <1>4
    <2>2. [ledger |-> l, records |-> n, transcript |-> t] \in Directories
      BY <1>1, Emptied
    <2>3. dirs' \in [Paths -> Directories]
      BY <1>1, <2>1, <2>2, SetTo
    <2>4. QED
      BY <1>1, <1>4, <2>3, StopInv
  <1>5. QED
    BY <1>3, <1>4 DEF Wipe

LEMMA ShowInv ==
    ASSUME IInv, Show
    PROVE  IInv'
  <1>0. Running("show")
    BY DEF Show
  <1> PICK x : x = Head(todo)
    OBVIOUS
  <1>1. /\ ended = "running" /\ todo # <<>> /\ Begun /\ x \in Ops /\ x.op = "show" /\ TypeOK
        /\ OnTrack
    BY <1>0, AtHead DEF IInv
  <1>2. /\ todo' = Tail(todo) /\ passing' = passing /\ held' = held /\ dirs' = dirs /\ Proceed
        /\ UNCHANGED <<command, up, seen, unused, commands, changes>>
        /\ ended' = IF Len(todo) > 1 THEN "running" ELSE IF passing' THEN "ok" ELSE "failed"
    BY DEF Proceed, Show
  <1>3. x.op \notin {"wipe", "execute", "transcribe", "judge-scenario", "judge-harness"}
    BY <1>1
  <1>4. \A y : Done(y) => Done(y)'
    BY <1>2 DEF Done
  <1>5. HeldAreOutcomes' /\ HeldAsExpected' /\ PassingUndisturbed'
    BY <1>2 DEF IInv, HeldAreOutcomes, HeldAsExpected, Answering, PassingUndisturbed, Begun
  <1>6. UnusedYet'
    BY <1>1, <1>2 DEF IInv, UnusedYet, Begun
  <1>7. /\ passing' \in BOOLEAN /\ held' = [p \in DOMAIN held' |-> held'[p]]
        /\ dirs' \in [Paths -> Directories]
    BY <1>1, <1>2 DEF TypeOK
  <1>8. OnTrack'
    BY <1>1, <1>2, <1>3, <1>4, TailOnTrack
  <1>9. JudgedOrToJudge'
    BY <1>1, <1>2, <1>3, JudgedStays
  <1>10. QED
    BY <1>1, <1>2, <1>3, <1>5, <1>6, <1>7, <1>8, <1>9, ProceedInv

\* What Execute and Transcribe may write.
LEMMA Written ==
    ASSUME NEW dir \in Directories, NEW ledger \in {NoFile} \cup SUBSET Candidates,
           NEW records \in Nat, NEW transcript \in {None, Partial} \cup AllOutcomes
    PROVE  /\ [dir EXCEPT !.ledger = ledger] \in Directories
           /\ [dir EXCEPT !.ledger = ledger, !.records = records] \in Directories
           /\ [dir EXCEPT !.transcript = transcript] \in Directories
  BY DEF Directories

\* A run that is done.
LEMMA ExecutedInv ==
    ASSUME IInv, Running("execute"), Proceed, UNCHANGED <<passing, shown>>,
           NEW x, x = Head(todo), ~Refused(x),
           NEW o, o = Outcome(x.s, Here.ledger, up),
           SetHere([Here EXCEPT !.ledger = Saved(@, o), !.records = @ + 1]),
           held' = [p \in DOMAIN held \cup {x.path} |-> IF p = x.path THEN o ELSE held[p]]
    PROVE  IInv'
  <1>1. /\ ended = "running" /\ todo # <<>> /\ Begun /\ x \in Ops /\ x.op = "execute"
        /\ x.path \in Paths /\ Allowed(command, x) /\ Here \in Directories /\ TypeOK /\ OnTrack
        /\ HeldAreOutcomes
    BY AtHead DEF IInv
  <1>2. /\ todo' = Tail(todo) /\ passing' = passing
        /\ UNCHANGED <<command, up, seen, unused, commands, changes>>
    BY DEF Proceed
  <1>3. /\ x.s \in Scenarios /\ (x.path = Root \/ x.path[2] = x.s)
        /\ x.path = Root => command.name = "release"
    BY <1>1 DEF Allowed
  <1>4. /\ Here = dirs[x.path] /\ Here.ledger \in {NoFile} \cup SUBSET Candidates
        /\ Here.records \in Nat /\ Here.transcript \in {None, Partial} \cup AllOutcomes
    BY <1>1, DirectoryFields DEF Here
  <1>5. o \in AllOutcomes /\ o.scenario = x.s
    BY <1>3, OutcomesAre
  <1>6. Saved(Here.ledger, o) \in SUBSET Candidates
    BY <1>3, <1>4, <1>5, Ledgers
  <1> DEFINE dir == [Here EXCEPT !.ledger = Saved(@, o), !.records = @ + 1]
  <1>7. /\ dir \in Directories /\ dir.ledger = Saved(Here.ledger, o)
        /\ dir.records = Here.records + 1
    <2>1. PICK h : h = Here
      OBVIOUS
    <2>2. PICK l : l = Saved(Here.ledger, o)
      OBVIOUS
    <2>3. PICK n : n = Here.records + 1
      OBVIOUS
    <2>4. /\ h \in Directories /\ l \in {NoFile} \cup SUBSET Candidates /\ n \in Nat
          /\ h.transcript \in {None, Partial} \cup AllOutcomes
      BY <1>1, <1>4, <1>6, <2>1, <2>2, <2>3
    <2>5. dir = [h EXCEPT !.ledger = l, !.records = n]
      BY <2>1, <2>2, <2>3, <2>4 DEF Directories
    <2> HIDE DEF dir
    <2>6. dir \in Directories /\ dir.ledger = l /\ dir.records = n
      BY ONLY <2>4, <2>5 DEF Directories
    <2>7. QED
      BY <2>2, <2>3, <2>6
  <1>8. SetHere(dir)
    OBVIOUS
  <1> HIDE DEF dir
  <1>9. /\ dirs' \in [Paths -> Directories] /\ dirs'[x.path] = dir
        /\ \A p : p # x.path => dirs'[p] = dirs[p]
    BY <1>1, <1>7, <1>8, SetTo
  <1>10. /\ DOMAIN held' = DOMAIN held \cup {x.path} /\ held'[x.path] = o
         /\ \A p \in DOMAIN held : p # x.path => held'[p] = held[p]
         /\ held' = [p \in DOMAIN held' |-> held'[p]]
    OBVIOUS
  <1>11. x.path[1] \in Fresh(command) => dirs[x.path] = Absent
    <2> SUFFICES ASSUME x.path[1] \in Fresh(command)
                 PROVE  dirs[x.path] = Absent
      OBVIOUS
    <2> DEFINE w == Op("wipe", x.path, x.s)
    <2>1. Demand("just-before", w) \in Demands(command, x)
      BY <1>1 DEF Demands
    <2>2. w.op = "wipe" /\ w.path = x.path
      BY OpHas
    <2> HIDE DEF w
    <2>3. Stands(w)
      BY <2>1, HeadDemands, DemandHas
    <2>4. QED
      BY <2>2, <2>3 DEF Stands
  <1>12. Entries(NoFile) = {} /\ Entries({}) = {} /\ Absent.ledger = NoFile /\ Absent.records = 0
    BY DEF Entries, Absent
  <1>13. OnTrack'
    <2>1. Done(x)'
      BY <1>1, <1>10 DEF Done
    <2>2. ASSUME command.name = "verify", x.path[1] = "scenarios"
          PROVE  Stands(x)'
      <3>1. dirs[x.path] = Absent
        BY <1>11, <2>2 DEF Fresh
      <3>2. dir.ledger = Saved(NoFile, o) /\ dir.records = 1
        BY <1>4, <1>7, <1>12, <3>1
      <3>3. Saved(NoFile, o) = Saved({}, o)
        BY <1>12 DEF Saved
      <3>4. QED
        BY <1>1, <1>9, <1>10, <3>2, <3>3 DEF Stands
    <2>3. \A y : y.op = "execute" /\ Done(y) => Done(y)'
      BY <1>10 DEF Done
    <2>4. ASSUME NEW y, y.op = "transcribe", Done(y), x.path # y.path
          PROVE  Done(y)'
      BY <1>9, <1>10, <2>4 DEF Done
    <2>5. x.op # "wipe"
      BY <1>1
    <2>6. QED
      BY <1>1, <1>2, <2>1, <2>2, <2>3, <2>4, <2>5, TailOnTrack
  <1>14. HeldAreOutcomes'
    <2> SUFFICES ASSUME NEW p \in DOMAIN held'
                 PROVE  /\ p = Root => held'[p] \in AllOutcomes /\ command.name = "release"
                        /\ p # Root =>
                              /\ \E ledger \in {NoFile} \cup SUBSET Candidates, answering \in SUBSET Halves :
                                    held'[p] = Outcome(p[2], ledger, answering)
                              /\ p[2] \in ToSet(Guarded) => Check(command.controls)
      BY <1>2 DEF HeldAreOutcomes
    <2>1. CASE p = x.path
      <3>1. up \in SUBSET Halves
        BY <1>1 DEF TypeOK
      <3>2. x.s \in ToSet(Guarded) => Check(command.controls)
        BY DEF Refused
      <3>3. held'[p] = Outcome(x.s, Here.ledger, up)
        BY <1>10, <2>1
      <3>4. QED
        BY <1>3, <1>4, <1>5, <1>10, <2>1, <3>1, <3>2, <3>3
    <2>2. CASE p # x.path
      <3>1. p \in DOMAIN held /\ held'[p] = held[p]
        BY <1>10, <2>2
      <3>2. QED
        BY <1>1, <3>1 DEF HeldAreOutcomes
    <2>3. QED
      BY <2>1, <2>2
  <1>15. UnusedYet'
    <2> SUFFICES ASSUME unused, NEW p \in Unwiped, p # x.path
                 PROVE  p \in DOMAIN held \/ Entries(dirs[p].ledger) = {}
      BY <1>2, <1>9, <1>10 DEF UnusedYet, Begun
    <2>1. ended # "stopped"
      BY <1>1
    <2>2. QED
      BY <1>1, <2>1 DEF IInv, UnusedYet
  <1>16. HeldAsExpected'
    <2> SUFFICES ASSUME command.name \in {"compare", "verify"}, Answering,
                        NEW p \in DOMAIN held', unused \/ p \notin Unwiped
                 PROVE  held'[p] = Expected(p[2])
      BY <1>2 DEF HeldAsExpected, Answering, Begun
    <2>1. CASE p # x.path
      <3>1. p \in DOMAIN held /\ held'[p] = held[p]
        BY <1>10, <2>1
      <3>2. QED
        BY <1>1, <3>1 DEF IInv, HeldAsExpected
    <2>2. CASE p = x.path
      <3>1. x.path # Root /\ x.path[2] = x.s
        BY <1>3
      <3>0. Data[x.s].asks \subseteq up
        <4>1. Due(command) \subseteq up
          BY <1>1 DEF TypeOK, Answering
        <4>2. x.s \in ToSet(Guarded) => Check(command.controls)
          BY DEF Refused
        <4>3. QED
          BY <1>3, <4>1, <4>2, AsksTheDue
      <3>2. Entries(Here.ledger) = {}
        <4>1. CASE x.path[1] \in Fresh(command)
          BY <1>4, <1>11, <1>12, <4>1
        <4>2. CASE x.path[1] \notin Fresh(command)
          <5>1. x.path \in Unwiped
            BY <1>1, <3>1, <4>2 DEF Paths, Areas, Unwiped, Fresh
          <5>2. todo \in Seq(Ops) /\ Head(todo) = todo[1] /\ 1 \in 1 .. Len(todo)
            BY <1>1, AtHead DEF TypeOK
          <5>3. x.path \in Executed(todo)
            BY <1>1, <5>1, <5>2 DEF Executed
          <5>4. x.path \notin DOMAIN held
            BY <1>1, <5>3 DEF IInv, OnceOnly
          <5>5. unused
            BY <2>2, <5>1
          <5>6. ended # "stopped"
            BY <1>1
          <5>7. QED
            BY <1>1, <1>4, <5>1, <5>4, <5>5, <5>6 DEF IInv, UnusedYet
        <4>3. QED
          BY <4>1, <4>2
      <3>3. Outcome(x.s, Here.ledger, up) = Expected(x.s)
        BY <1>3, <3>0, <3>2, AsTheTableSays
      <3>4. QED
        BY <1>10, <2>2, <3>1, <3>3
    <2>3. QED
      BY <2>1, <2>2
  <1>17. JudgedOrToJudge'
    <2>1. x.op \in Changing /\ x.op \notin {"judge-scenario", "judge-harness"}
      BY <1>1 DEF Changing
    <2>2. QED
      BY <1>1, <1>2, <1>9, <2>1, JudgedStays
  <1>18. PassingUndisturbed'
    BY <1>2 DEF IInv, PassingUndisturbed, Begun
  <1>19. passing' \in BOOLEAN
    BY <1>1, <1>2 DEF TypeOK
  <1>20. DOMAIN held' = IF x.op = "execute" THEN DOMAIN held \cup {x.path} ELSE DOMAIN held
    BY <1>1, <1>10
  <1>21. QED
    BY <1>1, <1>9, <1>10, <1>13, <1>14, <1>15, <1>16, <1>17, <1>18, <1>19, <1>20, ProceedInv

LEMMA ExecuteInv ==
    ASSUME IInv, Execute
    PROVE  IInv'
  <1>0. Running("execute")
    BY DEF Execute
  <1>1. PICK x : x = Head(todo)
    OBVIOUS
  <1>2. PICK o : o = Outcome(x.s, Here.ledger, up)
    OBVIOUS
  <1>3. /\ ended = "running" /\ x.op = "execute" /\ Allowed(command, x) /\ Here \in Directories
        /\ TypeOK /\ x.path \in Paths /\ Head(todo).path \in Paths
    BY <1>0, <1>1, AtHead DEF IInv
  <1>4. CASE Refused(x) /\ Stop /\ UNCHANGED dirs
    BY <1>3, <1>4, StopInv DEF TypeOK
  <1>5. CASE /\ ~Refused(x)
             /\ SetHere([Here EXCEPT !.ledger = Saved(@, o), !.records = @ + 1])
             /\ held' = [p \in DOMAIN held \cup {x.path} |-> IF p = x.path THEN o ELSE held[p]]
             /\ UNCHANGED <<passing, shown>>
             /\ Proceed
    BY <1>0, <1>1, <1>2, <1>5, ExecutedInv
  <1>6. CASE /\ \/ UNCHANGED dirs
                \/ SetHere([Here EXCEPT !.ledger = Entries(@)])
                \/ SetHere([Here EXCEPT !.ledger = Saved(@, o)])
                \/ SetHere([Here EXCEPT !.ledger = Saved(@, o), !.records = @ + 1])
             /\ Stop
    <2>1. /\ Here.ledger \in {NoFile} \cup SUBSET Candidates /\ Here.records \in Nat
          /\ Here.transcript \in {None, Partial} \cup AllOutcomes /\ x.s \in Scenarios
      BY <1>3, DirectoryFields DEF Allowed
    <2>2. o.scenario = x.s
      BY <1>2, <2>1, OutcomesAre
    <2>3. Saved(Here.ledger, o) \in SUBSET Candidates /\ Entries(Here.ledger) \in SUBSET Candidates
      BY <2>1, <2>2, Ledgers
    <2>4. /\ [Here EXCEPT !.ledger = Entries(@)] = [Here EXCEPT !.ledger = Entries(Here.ledger)]
          /\ [Here EXCEPT !.ledger = Saved(@, o)] = [Here EXCEPT !.ledger = Saved(Here.ledger, o)]
          /\ [Here EXCEPT !.ledger = Saved(@, o), !.records = @ + 1]
                = [Here EXCEPT !.ledger = Saved(Here.ledger, o), !.records = Here.records + 1]
      BY <1>3 DEF Directories
    <2>5. Here.records + 1 \in Nat
      BY <2>1
    <2>6. /\ [Here EXCEPT !.ledger = Entries(@)] \in Directories
          /\ [Here EXCEPT !.ledger = Saved(@, o)] \in Directories
          /\ [Here EXCEPT !.ledger = Saved(@, o), !.records = @ + 1] \in Directories
      BY <1>3, <2>1, <2>3, <2>4, <2>5, Written
    <2>7. dirs' \in [Paths -> Directories]
      BY <1>3, <1>6, <2>6, SetTo DEF TypeOK
    <2>8. QED
      BY <1>3, <1>6, <2>7, StopInv
  <1>7. QED
    BY <1>1, <1>2, <1>4, <1>5, <1>6 DEF Execute

\* A transcript that is written in full.
LEMMA TranscribedInv ==
    ASSUME IInv, Running("transcribe"), Proceed, UNCHANGED <<passing, held, shown>>,
           NEW x, x = Head(todo), NEW t, t = held[x.path], t \in AllOutcomes,
           x.path \in DOMAIN held,
           SetHere([Here EXCEPT !.transcript = t])
    PROVE  IInv'
  <1>1. /\ ended = "running" /\ todo # <<>> /\ Begun /\ x \in Ops /\ x.op = "transcribe"
        /\ x.path \in Paths /\ Here \in Directories /\ TypeOK /\ OnTrack
    BY AtHead DEF IInv
  <1>2. /\ todo' = Tail(todo) /\ passing' = passing /\ held' = held
        /\ UNCHANGED <<command, up, seen, unused, commands, changes>>
    BY DEF Proceed
  <1> DEFINE dir == [Here EXCEPT !.transcript = t]
  <1>3. dir \in Directories /\ dir.transcript = t /\ dir.ledger = Here.ledger /\ Here = dirs[x.path]
    BY <1>1 DEF Directories, Here
  <1>4. SetHere(dir)
    OBVIOUS
  <1> HIDE DEF dir
  <1>5. /\ dirs' \in [Paths -> Directories] /\ dirs'[x.path] = dir
        /\ \A p : p # x.path => dirs'[p] = dirs[p]
    BY <1>1, <1>3, <1>4, SetTo
  <1>6. OnTrack'
    <2>1. Done(x)'
      BY <1>2, <1>3, <1>5 DEF Done
    <2>2. \A y : y.op = "execute" /\ Done(y) => Done(y)'
      BY <1>2 DEF Done
    <2>3. ASSUME NEW y, y.op = "transcribe", Done(y)
          PROVE  Done(y)'
      <3>1. CASE y.path = x.path
        BY <1>2, <1>3, <1>5, <2>3, <3>1 DEF Done
      <3>2. CASE y.path # x.path
        BY <1>2, <1>5, <2>3, <3>2 DEF Done
      <3>3. QED
        BY <3>1, <3>2
    <2>4. x.op # "wipe" /\ x.op # "execute"
      BY <1>1
    <2>5. QED
      BY <1>1, <1>2, <2>1, <2>2, <2>3, <2>4, TailOnTrack
  <1>7. HeldAreOutcomes' /\ HeldAsExpected' /\ PassingUndisturbed'
    BY <1>2 DEF IInv, HeldAreOutcomes, HeldAsExpected, Answering, PassingUndisturbed, Begun
  <1>8. UnusedYet'
    <2>1. ended # "stopped"
      BY <1>1
    <2>2. \A p \in Unwiped : dirs'[p].ledger = dirs[p].ledger
      BY <1>3, <1>5
    <2>3. QED
      BY <1>2, <2>1, <2>2 DEF IInv, UnusedYet, Begun
  <1>9. JudgedOrToJudge'
    <2>1. x.op \in Changing /\ x.op \notin {"judge-scenario", "judge-harness"}
      BY <1>1 DEF Changing
    <2>2. QED
      BY <1>1, <1>2, <1>5, <2>1, JudgedStays
  <1>10. /\ passing' \in BOOLEAN /\ held' = [p \in DOMAIN held' |-> held'[p]]
         /\ DOMAIN held' = IF x.op = "execute" THEN DOMAIN held \cup {x.path} ELSE DOMAIN held
    BY <1>1, <1>2 DEF TypeOK
  <1>11. QED
    BY <1>1, <1>5, <1>6, <1>7, <1>8, <1>9, <1>10, ProceedInv

LEMMA HeldIsAnOutcome ==
    ASSUME HeldAreOutcomes, NEW p \in DOMAIN held, p = Root \/ p[2] \in Scenarios
    PROVE  held[p] \in AllOutcomes
  <1>1. CASE p = Root
    BY <1>1 DEF HeldAreOutcomes
  <1>2. CASE p # Root
    <2>1. PICK ledger \in {NoFile} \cup SUBSET Candidates, answering \in SUBSET Halves :
             held[p] = Outcome(p[2], ledger, answering)
      BY <1>2 DEF HeldAreOutcomes
    <2>2. QED
      BY <1>2, <2>1, OutcomesAre
  <1>3. QED
    BY <1>1, <1>2

LEMMA TranscribeInv ==
    ASSUME IInv, Transcribe
    PROVE  IInv'
  <1>0. Running("transcribe")
    BY DEF Transcribe
  <1>1. PICK x : x = Head(todo)
    OBVIOUS
  <1>2. PICK t : t = held[x.path]
    OBVIOUS
  <1>3. /\ ended = "running" /\ x.op = "transcribe" /\ Allowed(command, x) /\ Here \in Directories
        /\ TypeOK /\ x.path \in Paths /\ Head(todo).path \in Paths
    BY <1>0, <1>1, AtHead DEF IInv
  <1>4. x.path \in DOMAIN held
    <2> DEFINE e == Op("execute", x.path, x.s)
    <2>1. Demand("before", e) \in Demands(command, x)
      BY <1>3 DEF Demands
    <2>2. e.path = x.path
      BY OpHas
    <2> HIDE DEF e
    <2>3. Done(e)
      BY <1>0, <1>1, <2>1, HeadDemands, DemandHas
    <2>4. QED
      BY <2>2, <2>3 DEF Done
  <1>5. t \in AllOutcomes
    <2>1. x.path = Root \/ x.path[2] \in Scenarios
      BY <1>3 DEF Allowed
    <2>2. QED
      BY <1>2, <1>4, <2>1, HeldIsAnOutcome DEF IInv
  <1>6. CASE /\ SetHere([Here EXCEPT !.transcript = t])
             /\ UNCHANGED <<passing, held, shown>>
             /\ Proceed
    BY <1>0, <1>1, <1>2, <1>4, <1>5, <1>6, TranscribedInv
  <1>7. CASE /\ UNCHANGED dirs \/ \E file \in {Partial, t} : SetHere([Here EXCEPT !.transcript = file])
             /\ Stop
    <2>1. CASE UNCHANGED dirs
      BY <1>3, <1>7, <2>1, StopInv DEF TypeOK
    <2>2. CASE \E file \in {Partial, t} : SetHere([Here EXCEPT !.transcript = file])
      <3>1. PICK file \in {Partial, t} : SetHere([Here EXCEPT !.transcript = file])
        BY <2>2
      <3>2. [Here EXCEPT !.transcript = file] \in Directories
        BY <1>3, <1>5 DEF Directories
      <3>3. dirs' \in [Paths -> Directories]
        BY <1>3, <3>1, <3>2, SetTo
      <3>4. QED
        BY <1>3, <1>7, <3>3, StopInv
    <2>3. QED
      BY <1>7, <2>1, <2>2
  <1>8. QED
    BY <1>1, <1>2, <1>6, <1>7 DEF Transcribe

\* What an assertion found in memory is that of the run it is about.
LEMMA Ran ==
    ASSUME IInv, NEW op, Running(op), NEW x, x = Head(todo), NEW p, NEW s,
           Demand("before", Op("execute", p, s)) \in Demands(command, x)
           \/ Demand("just-before", Op("execute", p, s)) \in Demands(command, x)
    PROVE  p \in DOMAIN held
  <1> DEFINE e == Op("execute", p, s)
  <1>1. e.op = "execute" /\ e.path = p
    BY OpHas
  <1>2. Demand("before", e) \in Demands(command, x) \/ Demand("just-before", e) \in Demands(command, x)
    OBVIOUS
  <1> HIDE DEF e
  <1>3. Done(e) \/ Stands(e)
    BY <1>2, HeadDemands, DemandHas
  <1>4. QED
    BY <1>1, <1>3 DEF Done, Stands

\* The two runs of a scenario that an assertion compares.
LEMMA RanTwice ==
    ASSUME IInv, Running("judge-harness"), NEW x, x = Head(todo), NEW area \in Twice
    PROVE  /\ <<area, x.s>> \in DOMAIN held
           /\ dirs[<<area, x.s>>].transcript = held[<<area, x.s>>]
  <1> DEFINE y == Op("transcribe", <<area, x.s>>, x.s)
  <1>1. y.op = "transcribe" /\ y.path = <<area, x.s>>
    BY OpHas
  <1>2. y \in BothRuns(x.s)
    BY DEF BothRuns, Twice
  <1>3. x.op = "judge-harness"
    BY AtHead
  <1>4. Demand("before", y) \in Demands(command, x)
    BY <1>2, <1>3 DEF Demands
  <1> HIDE DEF y
  <1>5. Done(y)
    BY <1>4, HeadDemands, DemandHas
  <1>6. QED
    BY <1>1, <1>5 DEF Done

\* A scenario's two runs were first runs if they are alike and did what the table
\* says.
LEMMA HarnessSays ==
    ASSUME IInv, Running("judge-harness"), NEW s, Head(todo) = Op("judge-harness", <<"second", s>>, s),
           HarnessAsExpected(s)
    PROVE  ToldAsExpected(s)
  <1> PICK x : x = Head(todo)
    OBVIOUS
  <1>1. x.s = s /\ x.path = <<"second", s>> /\ x.op = "judge-harness"
    BY OpHas
  <1>2. s \in Scenarios
    BY <1>1, AtHead DEF Allowed
  <1>3. /\ <<"first", s>> \in DOMAIN held
        /\ dirs[<<"second", s>>].transcript = held[<<"second", s>>]
    BY <1>1, RanTwice DEF Twice
  <1>4. PICK first : first = held[<<"first", s>>]
    OBVIOUS
  <1>5. /\ held[<<"second", s>>] = first /\ dirs[<<"first", s>>].transcript = first
        /\ Changed(first) <=> Changed(Expected(s))
        /\ Heard(first)
    BY <1>1, <1>4 DEF HarnessAsExpected
  <1>6. <<"first", s>> # Root /\ <<"first", s>>[2] = s
    BY DEF Root
  <1>7. PICK ledger \in {NoFile} \cup SUBSET Candidates, answering \in SUBSET Halves :
           first = Outcome(s, ledger, answering)
    BY <1>3, <1>4, <1>6 DEF IInv, HeldAreOutcomes
  <1>8. first = Expected(s)
    BY <1>2, <1>5, <1>7, OutcomeDecided
  <1>9. QED
    BY <1>3, <1>5, <1>8 DEF ToldAsExpected

LEMMA JudgedNow ==
    ASSUME IInv, NEW op, Running(op), Proceed, dirs' = dirs, passing' => passing /\ AsExpected
    PROVE  JudgedOrToJudge'
  <1> PICK x : x = Head(todo)
    OBVIOUS
  <1>1. todo' = Tail(todo) /\ UNCHANGED <<command, up, seen, unused, commands, changes>>
    BY DEF Proceed
  <1>2. /\ ended = "running" /\ Begun /\ todo \in Seq(Ops) /\ todo # <<>> /\ x = todo[1] /\ x.op = op
        /\ Here = dirs[x.path]
    BY AtHead DEF IInv, TypeOK, Here
  <1>3. \A k \in 1 .. Len(todo) : k # 1 => k - 1 \in 1 .. Len(todo') /\ todo'[k - 1] = todo[k]
    BY <1>1, <1>2, Left
  <1> SUFFICES ASSUME command.name = "verify", passing, AsExpected,
                      NEW s \in ToSet(Reachable(command))
               PROVE  /\ LeftAsExpected(s)
                         \/ \E k \in 1 .. Len(todo') :
                               todo'[k] = Op("judge-scenario", <<"scenarios", s>>, s)
                      /\ ToldAsExpected(s)
                         \/ \E k \in 1 .. Len(todo') :
                               todo'[k] = Op("judge-harness", <<"second", s>>, s)
    BY <1>1 DEF JudgedOrToJudge, LeftAsExpected, ToldAsExpected, Begun
  <1>4. ASSUME NEW y, NEW k \in 1 .. Len(todo), todo[k] = y, y # x
        PROVE  \E m \in 1 .. Len(todo') : todo'[m] = y
    BY <1>2, <1>3, <1>4
  <1>5. ASSUME x = Op("judge-scenario", <<"scenarios", s>>, s)
        PROVE  LeftAsExpected(s)
    <2>1. x.op = "judge-scenario" /\ x.path = <<"scenarios", s>> /\ x.s = s
      BY <1>5, OpHas
    <2>2. ScenarioAsExpected(s)
      BY <2>1 DEF AsExpected
    <2>3. QED
      BY <1>2, <2>1, <2>2 DEF ScenarioAsExpected, LeftAsExpected
  <1>6. ASSUME x = Op("judge-harness", <<"second", s>>, s)
        PROVE  ToldAsExpected(s)
    <2>1. x.op = "judge-harness" /\ x.s = s
      BY <1>6, OpHas
    <2>2. HarnessAsExpected(s)
      BY <2>1 DEF AsExpected
    <2>3. Running("judge-harness")
      BY <1>2, <2>1
    <2>4. QED
      BY <1>6, <2>2, <2>3, HarnessSays
  <1>7. /\ \/ LeftAsExpected(s)
           \/ \E k \in 1 .. Len(todo) : todo[k] = Op("judge-scenario", <<"scenarios", s>>, s)
        /\ \/ ToldAsExpected(s)
           \/ \E k \in 1 .. Len(todo) : todo[k] = Op("judge-harness", <<"second", s>>, s)
    BY <1>2 DEF IInv, JudgedOrToJudge
  <1>8. QED
    BY <1>4, <1>5, <1>6, <1>7

\* With registries that answer, and nothing in the directories nobody wipes, every
\* assertion finds what it expects.
LEMMA AllAsExpected ==
    ASSUME IInv, NEW op \in Judgements, Running(op), command.name = "verify",
           seen = {Due(command)}, unused
    PROVE  AsExpected
  <1> PICK x : x = Head(todo)
    OBVIOUS
  <1>1. /\ ended = "running" /\ Begun /\ x.op = op /\ Here = dirs[x.path] /\ Allowed(command, x)
        /\ TypeOK
    BY AtHead DEF IInv, Here
  <1>2. \A p \in DOMAIN held : held[p] = Expected(p[2])
    BY <1>1 DEF IInv, HeldAsExpected, Answering
  <1>3. CASE x.op = "judge-surface"
    BY <1>1, <1>3 DEF AsExpected, SurfaceAsExpected, TypeOK
  <1>4. CASE x.op = "judge-refusal"
    BY <1>1, <1>4 DEF AsExpected, Allowed, Refused
  <1>5. CASE x.op = "judge-scenario"
    <2> DEFINE e == Op("execute", x.path, x.s)
    <2>1. Demand("just-before", e) \in Demands(command, x)
      BY <1>5 DEF Demands
    <2>2. e.op = "execute" /\ e.path = x.path
      BY OpHas
    <2> HIDE DEF e
    <2>3. Stands(e)
      BY <2>1, HeadDemands, DemandHas
    <2>4. /\ x.path \in DOMAIN held /\ Here.ledger = Saved({}, held[x.path])
          /\ Here.records = 1
      BY <1>1, <2>2, <2>3 DEF Stands
    <2>5. x.path = <<"scenarios", x.s>> /\ x.path[2] = x.s
      BY <1>1, <1>5, AreaOf DEF Allowed
    <2>6. held[x.path] = Expected(x.s)
      BY <1>2, <2>4, <2>5
    <2>7. ScenarioAsExpected(x.s)
      BY <2>4, <2>5, <2>6 DEF ScenarioAsExpected
    <2>8. QED
      BY <1>5, <2>7 DEF AsExpected
  <1>6. CASE x.op = "judge-harness"
    <2>1. x.s \in Scenarios /\ x.path = <<"second", x.s>>
      BY <1>1, <1>6 DEF Allowed
    <2>2. Running("judge-harness")
      BY <1>1, <1>6
    <2>3. \A area \in Twice : /\ <<area, x.s>> \in DOMAIN held
                              /\ dirs[<<area, x.s>>].transcript = held[<<area, x.s>>]
      BY <2>2, RanTwice
    <2>4. /\ held[<<"first", x.s>>] = Expected(x.s) /\ held[<<"second", x.s>>] = Expected(x.s)
          /\ dirs[<<"first", x.s>>].transcript = Expected(x.s)
      BY <1>2, <2>3, AreaOf DEF Twice
    <2>5. Heard(Expected(x.s))
      BY <2>1, TheTable
    <2>6. HarnessAsExpected(x.s)
      BY <2>1, <2>4, <2>5 DEF HarnessAsExpected
    <2>7. QED
      BY <1>6, <2>6 DEF AsExpected
  <1>7. ASSUME x.op \in {"judge-verdict", "judge-release"}
        PROVE  /\ x.s \in Scenarios /\ held[x.path] = Expected(x.s)
               /\ x.op = "judge-release" => Data[x.s].verdict = "APPROVE"
    <2>1. /\ x.s \in Scenarios /\ x.path[2] = x.s
          /\ x.op = "judge-release" => Data[x.s].verdict = "APPROVE"
      BY <1>1, <1>7 DEF Allowed
    <2>2. Demand("before", Op("execute", x.path, x.s)) \in Demands(command, x)
      BY <1>7 DEF Demands
    <2>3. x.path \in DOMAIN held
      BY <2>2, Ran
    <2>4. QED
      BY <1>2, <2>1, <2>3
  <1>8. CASE x.op = "judge-verdict"
    BY <1>7, <1>8, TheTable DEF AsExpected
  <1>9. CASE x.op = "judge-release"
    BY <1>7, <1>9, TheTable DEF AsExpected
  <1>10. CASE x.op = "judge-build"
    BY <1>1, <1>10 DEF Allowed
  <1>11. QED
    BY <1>1, <1>3, <1>4, <1>5, <1>6, <1>8, <1>9, <1>10 DEF Judgements

LEMMA JudgeInv ==
    ASSUME IInv, Judge
    PROVE  IInv'
  <1>1. PICK op \in Judgements : Running(op)
    BY DEF Judge, Judging, Judgements
  <1>2. PICK x : x = Head(todo)
    OBVIOUS
  <1>3. /\ ended = "running" /\ todo # <<>> /\ Begun /\ x \in Ops /\ x.op = op /\ TypeOK /\ OnTrack
        /\ x.op \notin {"wipe", "execute", "transcribe"}
    BY <1>1, <1>2, AtHead DEF IInv, Judgements
  <1>4. dirs' = dirs /\ dirs' \in [Paths -> Directories]
    BY <1>3 DEF Judge, TypeOK
  <1>5. CASE /\ passing' = (passing /\ AsExpected)
             /\ UNCHANGED <<held, shown>>
             /\ Proceed
    <2>1. /\ todo' = Tail(todo) /\ held' = held
          /\ UNCHANGED <<command, up, seen, unused, commands, changes>>
      BY <1>5 DEF Proceed
    <2>2. \A y : Done(y) => Done(y)'
      BY <1>4, <2>1 DEF Done
    <2>3. OnTrack'
      BY <1>2, <1>3, <2>1, <2>2, TailOnTrack
    <2>4. HeldAreOutcomes' /\ HeldAsExpected'
      BY <2>1 DEF IInv, HeldAreOutcomes, HeldAsExpected, Answering, Begun
    <2>5. UnusedYet'
      <3>1. ended # "stopped"
        BY <1>3
      <3>2. QED
        BY <1>4, <2>1, <3>1 DEF IInv, UnusedYet, Begun
    <2>6. JudgedOrToJudge'
      BY <1>1, <1>4, <1>5, JudgedNow
    <2>7. PassingUndisturbed'
      <3> SUFFICES ASSUME command.name = "verify", seen = {Due(command)}, unused
                   PROVE  passing'
        BY <2>1 DEF PassingUndisturbed, Begun
      <3>1. passing
        BY <1>3 DEF IInv, PassingUndisturbed
      <3>2. AsExpected
        BY <1>1, AllAsExpected
      <3>3. QED
        BY <1>5, <3>1, <3>2
    <2>8. /\ passing' \in BOOLEAN /\ held' = [p \in DOMAIN held' |-> held'[p]]
          /\ DOMAIN held' = IF x.op = "execute" THEN DOMAIN held \cup {x.path} ELSE DOMAIN held
      <3>1. passing' \in BOOLEAN
        BY <1>5
      <3>2. QED
        BY <1>3, <2>1, <3>1 DEF TypeOK
    <2>9. passing' => passing /\ (x.op = "judge-surface" => up = Due(command))
      BY <1>2, <1>5 DEF AsExpected, SurfaceAsExpected
    <2>10. QED
      BY <1>2, <1>3, <1>4, <1>5, <2>3, <2>4, <2>5, <2>6, <2>7, <2>8, <2>9, ProceedInv
  <1>6. CASE Stop
    BY <1>3, <1>4, <1>6, StopInv
  <1>7. QED
    BY <1>5, <1>6 DEF Judge

-----------------------------------------------------------------------------
(***************************************************************************)
(* Results.                                                                *)
(***************************************************************************)
\* What is left of a command's program finds what it rests on, and what is done
\* of it has come to what it should: for any scenarios, commands and changes.
THEOREM IInvIsInvariant == Spec => []IInv
  <1>1. Init => IInv
    BY InitInv
  <1>2. ASSUME IInv, [Next]_vars
        PROVE  IInv'
    <2>1. ASSUME NEW c \in UserCommands, Begin(c)
          PROVE  IInv'
      BY <1>2, <2>1, BeginInv
    <2>2. CASE Wipe
      BY <1>2, <2>2, WipeInv
    <2>3. CASE Execute
      BY <1>2, <2>3, ExecuteInv
    <2>4. CASE Transcribe
      BY <1>2, <2>4, TranscribeInv
    <2>5. CASE Show
      BY <1>2, <2>5, ShowInv
    <2>6. CASE Judge
      BY <1>2, <2>6, JudgeInv
    <2>7. ASSUME NEW half \in Halves, Change(half)
          PROVE  IInv'
      BY <1>2, <2>7, ChangeInv
    <2>8. CASE UNCHANGED vars
      <3>1. UNCHANGED <<command, todo, ended, passing, held, dirs, up, seen, unused, commands>>
        BY <2>8 DEF vars
      <3>2. TypeOK'
        BY <1>2, <3>1 DEF IInv, TypeOK, Begun
      <3>3. OnTrack'
        BY <1>2, <3>1 DEF IInv, OnTrack, Done, Stands
      <3>4. HeldAreOutcomes' /\ OnceOnly' /\ UnusedYet'
        BY <1>2, <3>1 DEF IInv, HeldAreOutcomes, OnceOnly, UnusedYet, Begun
      <3>5. HeldAsExpected' /\ RunOrToRun'
        BY <1>2, <3>1 DEF IInv, HeldAsExpected, Answering, RunOrToRun, Begun
      <3>6. JudgedOrToJudge'
        BY <1>2, <3>1 DEF IInv, JudgedOrToJudge, LeftAsExpected, ToldAsExpected, Begun
      <3>7. FoundOrToFind'
        BY <1>2, <3>1 DEF IInv, FoundOrToFind, Begun
      <3>8. PassingUndisturbed' /\ EndIsSaid'
        BY <1>2, <3>1 DEF IInv, PassingUndisturbed, EndIsSaid, Begun
      <3>9. QED
        BY <3>2, <3>3, <3>4, <3>5, <3>6, <3>7, <3>8 DEF IInv
    <2>9. QED
      BY <1>2, <2>1, <2>2, <2>3, <2>4, <2>5, <2>6, <2>7, <2>8 DEF Next
  <1>3. QED
    BY <1>1, <1>2, PTL DEF Spec

\* verify.AllPassed: a verification that passes leaves what the table expects of
\* every scenario, whatever the commands before it left, wherever they stopped,
\* and whenever the registries were down.
THEOREM PassedIsExpected == Spec => []PassedMeansExpected
  <1>1. IInv => PassedMeansExpected
    <2> SUFFICES ASSUME IInv, Finished("verify", "ok"), NEW s \in ToSet(Reachable(command))
                 PROVE  LeftAsExpected(s) /\ ToldAsExpected(s)
      BY DEF PassedMeansExpected, LeftAsExpected, ToldAsExpected
    <2>1. Begun /\ command.name = "verify" /\ ended = "ok"
      BY DEF Finished, Begun
    <2>2. passing /\ ended # "stopped"
      BY <2>1 DEF IInv, EndIsSaid
    <2>3. ~ \E k \in 1 .. Len(todo) : TRUE
      <3>1. todo = <<>>
        BY <2>1 DEF IInv, TypeOK
      <3>2. QED
        BY <3>1
    <2>4. QED
      BY <2>1, <2>2, <2>3 DEF IInv, JudgedOrToJudge
  <1>2. QED
    BY <1>1, IInvIsInvariant, PTL

\* verifyRegistrySurface: no verification passes that did not find each half of
\* the registries as it is to be, the vulnerable one absent without the opt-in,
\* whatever it asserts later and whatever stops or starts meanwhile.
THEOREM DueRegistriesPassed == Spec => []PassedMeansDueRegistries
  <1>1. IInv => PassedMeansDueRegistries
    <2> SUFFICES ASSUME IInv, Finished("verify", "ok")
                 PROVE  Due(command) \in seen
      BY DEF PassedMeansDueRegistries
    <2>1. Begun /\ command.name = "verify" /\ ended = "ok"
      BY DEF Finished, Begun
    <2>2. passing /\ ended # "stopped"
      BY <2>1 DEF IInv, EndIsSaid
    <2>3. ~ \E k \in 1 .. Len(todo) : TRUE
      <3>1. todo = <<>>
        BY <2>1 DEF IInv, TypeOK
      <3>2. QED
        BY <3>1
    <2>4. QED
      BY <2>1, <2>2, <2>3 DEF IInv, FoundOrToFind
  <1>2. QED
    BY <1>1, IInvIsInvariant, PTL

\* verify.RunAll: a verification fails only when registries other than those due
\* were up at some time, or a directory nobody wipes was not as new.
THEOREM FailedIsDisturbed == Spec => []FailedMeansDisturbed
  <1>1. IInv => FailedMeansDisturbed
    BY DEF IInv, EndIsSaid, PassingUndisturbed, FailedMeansDisturbed, Finished, Begun
  <1>2. QED
    BY <1>1, IInvIsInvariant, PTL

\* harness.Matrix: what a comparison shows is a first run of every reachable
\* scenario, whatever was run or interrupted in its directories before.
THEOREM ComparisonsAreFresh == Spec => []CompareIsFromFreshState
  <1>1. IInv => CompareIsFromFreshState
    <2> SUFFICES ASSUME IInv, Finished("compare", "ok"), Answering, NEW s \in ToSet(Reachable(command))
                 PROVE  held[<<"scenarios", s>>] = Expected(s)
      BY DEF CompareIsFromFreshState, Answering
    <2>1. Begun /\ command.name = "compare" /\ ended = "ok"
      BY DEF Finished, Begun
    <2>2. ~ \E k \in 1 .. Len(todo) : TRUE
      <3>1. todo = <<>>
        BY <2>1 DEF IInv, TypeOK
      <3>2. QED
        BY <3>1
    <2>3. <<"scenarios", s>> \in DOMAIN held
      BY <2>1, <2>2 DEF IInv, RunOrToRun
    <2>4. <<"scenarios", s>> \notin Unwiped /\ <<"scenarios", s>>[2] = s
      BY DEF Unwiped
    <2>5. QED
      BY <2>1, <2>3, <2>4 DEF IInv, HeldAsExpected
  <1>2. QED
    BY <1>1, IInvIsInvariant, PTL

LEMMA OnlyHere ==
    ASSUME TypeOK, NEW dir, SetHere(dir), NEW p \in Paths, dirs'[p] # dirs[p]
    PROVE  p = Head(todo).path
  BY DEF TypeOK, SetHere

\* vulnerable.Check, and the order in which commands call it: without both
\* controls nothing of a vulnerable scenario is left, or taken away, wherever.
THEOREM VulnerableIsAcknowledged == Spec => NothingVulnerableUnacknowledged
  <1> DEFINE Acknowledged ==
               \A p \in Paths :
                  /\ dirs'[p] # dirs[p]
                  /\ p[2] \in ToSet(Guarded) \/ (p = Root /\ command.s \in ToSet(Guarded))
                  => command.controls = {"profile", "acknowledgement"}
  <1>1. ASSUME IInv, [Next]_vars
        PROVE  Acknowledged
    <2> SUFFICES ASSUME NEW p \in Paths, dirs'[p] # dirs[p],
                        p[2] \in ToSet(Guarded) \/ (p = Root /\ command.s \in ToSet(Guarded))
                 PROVE  Check(command.controls)
      BY DEF Check
    <2> PICK x : x = Head(todo)
      OBVIOUS
    <2>0. TypeOK /\ HeldAreOutcomes
      BY <1>1 DEF IInv
    <2>1. p # Root => p[2] \in ToSet(Guarded)
      OBVIOUS
    <2>2. dirs' # dirs
      OBVIOUS
    <2>3. CASE Wipe
      <3>1. x.op = "wipe" /\ Allowed(command, x)
        BY <1>1, <2>3, AtHead DEF Wipe
      <3>2. p = x.path
        BY <2>0, <2>3, OnlyHere DEF Wipe
      <3>3. p # Root
        BY <3>1, <3>2 DEF Allowed, Fresh, Root
      <3>4. p[2] \in ToSet(Reachable(command))
        BY <3>1, <3>2 DEF Allowed
      <3>5. QED
        BY <2>1, <3>3, <3>4, Lists, ScenariosAreListedOnce
    <2>4. CASE Execute
      <3>1. x.op = "execute" /\ Allowed(command, x)
        BY <1>1, <2>4, AtHead DEF Execute
      <3>2. ~Refused(x)
        BY <2>2, <2>4 DEF Execute
      <3>3. p = x.path
        BY <2>0, <2>2, <2>4, OnlyHere DEF Execute
      <3>4. x.s \in ToSet(Guarded)
        <4>1. CASE p = Root
          <5>1. command.s \in ToSet(Guarded)
            <6>1. Root[2] \notin ToSet(Guarded)
              BY Lists, ScenariosAreListedOnce DEF Root
            <6>2. QED
              BY <4>1, <6>1
          <5>2. QED
            BY <3>1, <3>3, <4>1, <5>1 DEF Allowed
        <4>2. CASE p # Root
          BY <2>1, <3>1, <3>3, <4>2 DEF Allowed
        <4>3. QED
          BY <4>1, <4>2
      <3>5. QED
        BY <3>2, <3>4 DEF Refused
    <2>5. CASE Transcribe
      <3>1. x.op = "transcribe" /\ Running("transcribe") /\ Allowed(command, x)
        BY <1>1, <2>5, AtHead DEF Transcribe
      <3>2. p = x.path
        BY <2>0, <2>2, <2>5, OnlyHere DEF Transcribe
      <3>3. Demand("before", Op("execute", x.path, x.s)) \in Demands(command, x)
        BY <3>1 DEF Demands
      <3>4. p \in DOMAIN held
        BY <1>1, <3>1, <3>2, <3>3, Ran
      <3>5. p # Root
        BY <3>1, <3>2 DEF Allowed
      <3>6. QED
        BY <2>0, <2>1, <3>4, <3>5 DEF HeldAreOutcomes
    <2>6. CASE UNCHANGED dirs
      BY <2>2, <2>6
    <2>7. QED
      BY <1>1, <2>3, <2>4, <2>5, <2>6 DEF Next, Begin, Show, Judge, Change, vars
  <1>2. Acknowledged => [Acknowledged]_vars
    OBVIOUS
  <1>3. IInv /\ [Next]_vars => [Acknowledged]_vars
    BY <1>1
  <1>4. Spec => [][Acknowledged]_vars
    BY <1>3, IInvIsInvariant, PTL DEF Spec
  <1>5. QED
    BY <1>4 DEF NothingVulnerableUnacknowledged
=============================================================================
