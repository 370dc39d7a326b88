---------------------------- MODULE SourcePolicy ----------------------------
(***************************************************************************)
(* internal/sourcepolicy: which source a dependency name comes from.       *)
(*                                                                         *)
(* A policy document lists sources and mappings.  A mapping's pattern is a *)
(* name, or a prefix of names when it ends in Star; an exclusive mapping   *)
(* binds its names to one source, a combined one to a pool.  Names and     *)
(* patterns are sequences of characters (any set of values will do); NoId  *)
(* is the empty string in a field that was left out.                       *)
(***************************************************************************)
EXTENDS Naturals, Sequences, SequencesExt, Functions

CONSTANTS
    Star,               \* the wildcard character
    NoId                \* the empty source id

Exclusive == "exclusive"
Combined == "combined"

SourceIds(p) == {p.sources[i].id : i \in DOMAIN p.sources}

Unique(s) == \A i, j \in DOMAIN s : s[i] = s[j] => i = j

\* A source needs an id, a url and a known role, and no two sources share an id.
ValidSources(p) ==
    /\ p.sources # <<>>
    /\ \A i \in DOMAIN p.sources :
          /\ p.sources[i].id # NoId
          /\ p.sources[i].url # NoId
          /\ p.sources[i].role \in {"private", "public"}
    /\ \A i, j \in DOMAIN p.sources : p.sources[i].id = p.sources[j].id => i = j

\* At most one Star, and only at the end.
ValidPattern(pattern) ==
    pattern # <<>> /\ \A i \in DOMAIN pattern : pattern[i] = Star => i = Len(pattern)

ValidMapping(p, m) ==
    \/ /\ m.mode = Exclusive
       /\ m.sources = <<>>
       /\ m.source # NoId
       /\ m.source \in SourceIds(p)
    \/ /\ m.mode = Combined
       /\ m.source = NoId
       /\ Len(m.sources) >= 2
       /\ \A i \in DOMAIN m.sources : m.sources[i] \in SourceIds(p)
       /\ Unique(m.sources)

Valid(p) ==
    /\ p.formatKnown
    /\ ValidSources(p)
    /\ p.mappings # <<>>
    /\ \A i \in DOMAIN p.mappings :
          ValidPattern(p.mappings[i].pattern) /\ ValidMapping(p, p.mappings[i])
    /\ \A i, j \in DOMAIN p.mappings : p.mappings[i].pattern = p.mappings[j].pattern => i = j

Matches(pattern, name) ==
    IF Last(pattern) = Star THEN IsPrefix(Front(pattern), name) ELSE pattern = name

MatchedBy(p, name) == {i \in DOMAIN p.mappings : Matches(p.mappings[i].pattern, name)}

\* Mutant: the first of several matching mappings wins.
VerdictFirstMatch(p, name) ==
    IF ~Valid(p) THEN "invalid"
    ELSE IF MatchedBy(p, name) = {} THEN "unresolved"
    ELSE "decided"

\* Exactly one mapping must match; the other verdicts are refusals.
Verdict(p, name) ==
    IF ~Valid(p) THEN "invalid"
    ELSE IF MatchedBy(p, name) = {} THEN "unresolved"
    ELSE IF \E i \in DOMAIN p.mappings : MatchedBy(p, name) = {i} THEN "decided"
    ELSE "ambiguous"

TheMapping(p, name) == p.mappings[CHOOSE i \in DOMAIN p.mappings : i \in MatchedBy(p, name)]

\* The sources a mapping's names may come from, in the mapping's order.
Pool(m) == IF m.mode = Combined THEN m.sources ELSE <<m.source>>

\* The Decision of a decided name: the sources it may come from and those it
\* may not.  Only an exclusive mapping binds.
Decision(p, name) ==
    LET m == TheMapping(p, name)
    IN  [mode     |-> m.mode,
         bound    |-> IF m.mode = Combined THEN NoId ELSE m.source,
         pool     |-> Pool(m),
         excluded |-> SourceIds(p) \ ToSet(Pool(m))]
=============================================================================
