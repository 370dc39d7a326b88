---------------------------- MODULE CanonicalJson ---------------------------
(***************************************************************************)
(* internal/canonicaljson: the walk over a document's tokens that refuses  *)
(* an object with the same member name twice.                              *)
(*                                                                         *)
(* checkValue and checkFrom call one another; `stack` holds the containers *)
(* whose calls have not returned, the innermost last.  json.Decoder gives  *)
(* only tokens the grammar allows where it stands, or an error.            *)
(***************************************************************************)
EXTENDS Naturals, Sequences, SequencesExt, FiniteSets

CONSTANTS
    Keys,                   \* member names
    MaxDepth,               \* checkValue refuses to go deeper than 32
    MaxTokens               \* bounds the documents

ASSUME DepthIsBounded == MaxDepth \in Nat

VARIABLES
    stack,                  \* open containers: [kind, seen]
    mode,                   \* which of the functions reads the next token
    verdict,                \* "reading", or how the walk ended
    document                \* the tokens read so far

vars == <<stack, mode, verdict, document>>

Init ==
    /\ stack = <<>>
    /\ mode = "value"
    /\ verdict = "reading"
    /\ document = <<>>

Open(kind) == [token |-> "open", kind |-> kind]
Close == [token |-> "close"]
Key(k) == [token |-> "key", key |-> k]
Scalar == [token |-> "scalar"]

Reading == verdict = "reading" /\ Len(document) < MaxTokens

Read(token) == document' = Append(document, token)

\* A call returns: the walk is over, or goes on in the container around it.
Return(outer) ==
    /\ stack' = outer
    /\ IF outer = <<>>
       THEN verdict' = "ok" /\ UNCHANGED mode
       ELSE mode' = Last(outer).kind /\ UNCHANGED verdict

\* checkFrom: a scalar is nothing to look at, a container is entered.
From(token) ==
    /\ Read(token)
    /\ \/ token = Scalar /\ Return(stack)
       \/ /\ token # Scalar
          /\ stack' = Append(stack, [kind |-> token.kind, seen |-> {}])
          /\ mode' = token.kind
          /\ UNCHANGED verdict

Values == {Scalar, Open("object"), Open("array")}

End(how) == verdict' = how /\ UNCHANGED <<stack, mode>>

\* Mutant: the depth of the document is not bounded.
ValueUnbounded ==
    /\ Reading
    /\ mode = "value"
    /\ \E token \in Values : From(token)

\* checkValue: the depth is looked at before the value.
Value ==
    /\ Reading
    /\ mode = "value"
    /\ \/ Len(stack) > MaxDepth /\ End("too deep") /\ UNCHANGED document
       \/ Len(stack) <= MaxDepth /\ \E token \in Values : From(token)

\* The end of the innermost container.
Closing == Read(Close) /\ Return(Front(stack))

\* Mutant: names are compared with those of every object around this one.
MemberOfAny ==
    /\ Reading
    /\ mode = "object"
    /\ \/ Closing
       \/ \E k \in Keys :
             /\ Read(Key(k))
             /\ IF \E i \in DOMAIN stack : k \in stack[i].seen
                THEN End("duplicate")
                ELSE /\ stack' = [stack EXCEPT ![Len(stack)].seen = @ \cup {k}]
                     /\ mode' = "value"
                     /\ UNCHANGED verdict

\* In an object: its end, or a member's name and then its value.
Member ==
    /\ Reading
    /\ mode = "object"
    /\ \/ Closing
       \/ \E k \in Keys :
             /\ Read(Key(k))
             /\ IF k \in Last(stack).seen
                THEN End("duplicate")
                ELSE /\ stack' = [stack EXCEPT ![Len(stack)].seen = @ \cup {k}]
                     /\ mode' = "value"
                     /\ UNCHANGED verdict

\* In an array: its end, or an element, whose depth is not looked at.
Element ==
    /\ Reading
    /\ mode = "array"
    /\ Closing \/ \E token \in Values : From(token)

\* The decoder's error: the text is no document, or ends here.
NoToken ==
    /\ Reading
    /\ End("error")
    /\ UNCHANGED document

Next == Value \/ Member \/ Element \/ NoToken

Spec == Init /\ [][Next]_vars

-----------------------------------------------------------------------------
\* The brackets of a text from its i-th token to its j-th.
Opens(text, i, j) == Cardinality({k \in i..j : text[k].token = "open"})
Closes(text, i, j) == Cardinality({k \in i..j : text[k].token = "close"})

\* The bracket that token i stands directly within: the last one before it that
\* is still open there.
Encloses(text, j, i) ==
    /\ text[j].token = "open"
    /\ Opens(text, j, i - 1) = Closes(text, j, i - 1) + 1
    /\ \A k \in j + 1..i - 1 : Opens(text, k, i - 1) <= Closes(text, k, i - 1)

Within(text, i) == CHOOSE j \in 1..i - 1 : Encloses(text, j, i)

Names(text) == {i \in DOMAIN text : text[i].token = "key"}

Repeats(text) ==
    {i \in Names(text) : \E j \in Names(text) :
        j < i /\ Within(text, i) = Within(text, j) /\ text[i].key = text[j].key}

\* The walk finds the repeated names there are: at the first member that repeats
\* a name of its own object the document is refused, however much is nested
\* between the two ("fails on any object that repeats a member name at the same
\* nesting level").  No other document is refused for it: the same name in an
\* object around this one, or beside it, is no repetition.
RepeatsAreRefused ==
    /\ verdict = "duplicate" <=> Repeats(document) # {}
    /\ Repeats(document) \subseteq {Len(document)}

\* How deep token i stands: in that many containers.
DepthAt(text, i) == Opens(text, 1, i) - Closes(text, 1, i)

\* "CheckDuplicateKeys accepted excessive nesting" (canonicaljson_test.go): the
\* value of a member too deep is never read, whatever containers it is nested in,
\* and a document is refused for its depth at such a member and nowhere else.
DeepMembersAreRefused ==
    /\ \A i \in Names(document) : DepthAt(document, i) > MaxDepth => i = Len(document)
    /\ verdict = "too deep" =>
          Last(document).token = "key" /\ DepthAt(document, Len(document)) > MaxDepth
=============================================================================
