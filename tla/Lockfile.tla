------------------------------ MODULE Lockfile ------------------------------
(***************************************************************************)
(* internal/lockfile: the record that pins a dependency alias to one       *)
(* artifact, and the check of an artifact's bytes against it.              *)
(*                                                                         *)
(* A version in a document is a Version or Unparsable: Parse accepts one   *)
(* spelling of each value (SemverProofs!SpellingIsUnique), so the text of  *)
(* an accepted version is its value.  An artifact's bytes are a blob: its  *)
(* length, its SHA-256 digest and what the archive parser reads in it.     *)
(***************************************************************************)
EXTENDS Semver, FiniteSets

CONSTANTS
    Unset,              \* a string field left empty
    Unparsable          \* any spelling semver.Parse refuses

ASSUME UnparsableIsNoVersion == Unparsable \notin Version

VersionText == Version \cup {Unparsable}

CompleteRecord(r) ==
    /\ r.alias # Unset
    /\ r.name # Unset
    /\ r.source # Unset
    /\ r.digest # Unset
    /\ r.size > 0
    /\ r.version # Unparsable
    /\ r.archiveFormat

ValidLock(l) ==
    /\ l.formatKnown
    /\ l.records # <<>>
    /\ \A i \in DOMAIN l.records : CompleteRecord(l.records[i])

RecordsFor(l, alias) == {i \in DOMAIN l.records : l.records[i].alias = alias}

\* Lock.Record: an alias with no record and one with several are both refused.
LockVerdict(l, alias) ==
    IF ~ValidLock(l) THEN "invalid"
    ELSE IF RecordsFor(l, alias) = {} THEN "missing"
    ELSE IF \E i \in DOMAIN l.records : RecordsFor(l, alias) = {i} THEN "found"
    ELSE "duplicate"

TheRecord(l, alias) == l.records[CHOOSE i \in DOMAIN l.records : i \in RecordsFor(l, alias)]

\* Mutant: bytes of the right length pass.
VerifySizeOnly(r, blob) == IF blob.size # r.size THEN "size" ELSE "verified"

\* Record.VerifyBytes: the size is compared before the digest is computed.
VerifyBytes(r, blob) ==
    IF blob.size # r.size THEN "size"
    ELSE IF blob.digest # r.digest THEN "digest"
    ELSE "verified"
=============================================================================
