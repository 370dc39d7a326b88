------------------------------- MODULE Semver -------------------------------
(***************************************************************************)
(* internal/semver: the version model every resolver compares with.        *)
(*                                                                         *)
(* A version is a triple of unsigned components.  Its spelling is kept     *)
(* apart from its value because Parse is what makes it safe for the        *)
(* resolvers to compare versions as strings: a component spelled with a    *)
(* leading zero, with anything but digits, or above the width of a uint64  *)
(* is refused, so a value has one accepted spelling.                       *)
(***************************************************************************)
EXTENDS Integers, Sequences

CONSTANT
    MaxComponent        \* the largest uint64: strconv.ParseUint refuses more

ASSUME ComponentWidth == MaxComponent \in Nat

Version == [major: 0..MaxComponent, minor: 0..MaxComponent, patch: 0..MaxComponent]

\* One dot-separated part of a version's spelling: `digits` is FALSE for the
\* empty part and for a part with any other character; a part of digits is a
\* number written after some superfluous zeros.
Part == [digits: BOOLEAN, zeros: Nat, number: Nat]

ParsesPart(p) == p.digits /\ p.zeros = 0 /\ p.number <= MaxComponent

Parses(text) == Len(text) = 3 /\ \A i \in 1..3 : ParsesPart(text[i])

Parse(text) ==
    [major |-> text[1].number, minor |-> text[2].number, patch |-> text[3].number]

CmpUint(m, n) == IF m < n THEN -1 ELSE IF m > n THEN 1 ELSE 0

Compare(a, b) ==
    IF a.major # b.major THEN CmpUint(a.major, b.major)
    ELSE IF a.minor # b.minor THEN CmpUint(a.minor, b.minor)
    ELSE CmpUint(a.patch, b.patch)

RangeKinds == {"exact", "caret", "at-least"}

VersionRange == [kind: RangeKinds, base: Version]

Satisfies(r, v) ==
    \/ r.kind = "exact" /\ Compare(v, r.base) = 0
    \/ r.kind = "caret" /\ v.major = r.base.major /\ Compare(v, r.base) >= 0
    \/ r.kind = "at-least" /\ Compare(v, r.base) >= 0
=============================================================================
