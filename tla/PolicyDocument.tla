--------------------------- MODULE PolicyDocument ---------------------------
(***************************************************************************)
(* One source policy document while it is drawn up: what the decisions for *)
(* dependency names may not depend on, and what they keep.                 *)
(***************************************************************************)
EXTENDS SourcePolicy

CONSTANT DependencyNames

VARIABLE policy

Decides(p, name) == Verdict(p, name) = "decided"

\* The document with its two lists in other orders.
Permuted(p, s, m) ==
    [p EXCEPT !.sources = [k \in DOMAIN s |-> p.sources[s[k]]],
              !.mappings = [k \in DOMAIN m |-> p.mappings[m[k]]]]

Orders(seq) == SetToSeqs(DOMAIN seq)

\* "Sources is display order only.  It never decides trust": neither the order
\* of the sources nor that of the mappings changes any verdict or decision.
OrderNeverDecides ==
    \A s \in Orders(policy.sources), m \in Orders(policy.mappings) :
       LET other == Permuted(policy, s, m)
       IN  \A name \in DependencyNames :
              /\ Verdict(policy, name) = Verdict(other, name)
              /\ Decides(policy, name) => Decision(policy, name) = Decision(other, name)

\* Adding an entry to a policy never sends a name that was decided somewhere
\* else: it is decided alike, or refused ("a build that cannot say where a name
\* comes from must not guess").
AddingNeverRebinds ==
    [][\A name \in DependencyNames :
          Decides(policy, name) /\ Decides(policy', name) =>
             /\ Decision(policy', name).bound = Decision(policy, name).bound
             /\ Decision(policy', name).pool = Decision(policy, name).pool]_policy
=============================================================================
