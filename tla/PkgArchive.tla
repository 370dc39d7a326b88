----------------------------- MODULE PkgArchive -----------------------------
(***************************************************************************)
(* internal/pkgarchive: the archive a package is, how it is built, and the *)
(* checks Parse makes, in their order, before any content is believed.     *)
(*                                                                         *)
(* An entry is a tar header and a body; a body is the document the strict  *)
(* decoder reads in it, or Malformed.  Policy keys are numbers, in the     *)
(* order of their spelling.                                                *)
(***************************************************************************)
EXTENDS Naturals, Sequences, SequencesExt

CONSTANTS
    Schema,                 \* [kind -> [key -> values]]
    Malformed,              \* a body that is no such document
    Absent,                 \* what Lookup finds of a key that is not there
    MaxEntry, MaxArchive    \* the size limits

VARIABLE archive            \* the archive that is read: [size, entries, broken]

Want == <<"manifest.json", "policy.json">>

EntryMode == "0444"

\* The elements with something wrong, by their classes.
Faults(classes) == {i \in DOMAIN classes : classes[i] # "ok"}

\* Mutant: the check goes on and the last fault is returned.
LastFault(classes) ==
    IF Faults(classes) = {} THEN "ok" ELSE classes[Max(Faults(classes))]

\* A loop that returns at the first element with something wrong: its class.
FirstFault(classes) ==
    IF Faults(classes) = {} THEN "ok" ELSE classes[Min(Faults(classes))]

\* Parse's checks of an entry, those before it having passed.  A plain entry has
\* no link, owner, time or extended record.
EntryClass(entries, i) ==
    LET e == entries[i]
    IN  IF i > Len(Want) THEN "UnexpectedEntry"
        ELSE IF \E j \in 1..i - 1 : entries[j].name = e.name THEN "DuplicateEntry"
        ELSE IF e.name # Want[i]
             THEN IF e.name \in ToSet(Want) THEN "EntryOrder" ELSE "UnexpectedEntry"
        ELSE IF ~e.regular THEN "NotRegularFile"
        ELSE IF e.mode # EntryMode THEN "UnsafeEntryMode"
        ELSE IF ~e.plain THEN "EntryMetadata"
        ELSE IF e.size > MaxEntry THEN "EntryTooLarge"
        ELSE IF e.length # e.size THEN "MalformedContent"
        ELSE "ok"

ManifestClass(m) ==
    IF ~m.formatKnown THEN "FormatVersion"
    ELSE IF ~m.named THEN "MalformedContent"
    ELSE "ok"

\* Mutant: a key may follow itself.
PolicyEntryClassRepeating(p, i) ==
    LET e == p.entries[i]
    IN  IF e.key \notin DOMAIN Schema[p.kind] THEN "UnknownPolicyKey"
        ELSE IF i > 1 /\ e.key < p.entries[i - 1].key THEN "PolicyOrder"
        ELSE IF e.value \notin Schema[p.kind][e.key] THEN "PolicyValue"
        ELSE "ok"

PolicyEntryClass(p, i) ==
    LET e == p.entries[i]
    IN  IF e.key \notin DOMAIN Schema[p.kind] THEN "UnknownPolicyKey"
        ELSE IF i > 1 /\ e.key <= p.entries[i - 1].key THEN "PolicyOrder"
        ELSE IF e.value \notin Schema[p.kind][e.key] THEN "PolicyValue"
        ELSE "ok"

PolicyClass(p) ==
    IF ~p.formatKnown THEN "FormatVersion"
    ELSE IF p.kind \notin DOMAIN Schema THEN "UnsupportedKind"
    ELSE IF p.entries = <<>> THEN "MalformedContent"
    ELSE FirstFault([i \in DOMAIN p.entries |-> PolicyEntryClass(p, i)])

\* Both documents are decoded before either is validated.
ContentClass(m, p) ==
    IF m = Malformed \/ p = Malformed THEN "MalformedContent"
    ELSE IF ManifestClass(m) # "ok" THEN ManifestClass(m)
    ELSE PolicyClass(p)

\* Parse: "ok", or the class of the first thing wrong.  A broken archive is one
\* the tar reader fails on after the entries it lists.
Parse(data) ==
    LET entries == data.entries
        class == FirstFault([i \in DOMAIN entries |-> EntryClass(entries, i)])
    IN  IF data.size > MaxArchive THEN "ArchiveTooLarge"
        ELSE IF class # "ok" THEN class
        ELSE IF data.broken THEN "MalformedContent"
        ELSE IF Len(entries) < Len(Want) THEN "MissingEntry"
        ELSE ContentClass(entries[1].body, entries[2].body)

BuiltEntry(name, body, size) ==
    [name |-> name, regular |-> TRUE, mode |-> EntryMode, plain |-> TRUE,
     size |-> size, length |-> size, body |-> body]

Buildable(m, p) == ManifestClass(m) = "ok" /\ PolicyClass(p) = "ok"

\* Build's entries for documents whose encodings have the given sizes.
Build(m, p, sizes) == <<BuiltEntry(Want[1], m, sizes[1]), BuiltEntry(Want[2], p, sizes[2])>>

\* Policy.Lookup: the first entry of the key.
Lookup(p, key) ==
    LET found == {i \in DOMAIN p.entries : p.entries[i].key = key}
    IN  IF found = {} THEN Absent ELSE p.entries[Min(found)].value

-----------------------------------------------------------------------------
Ascending(p) == \A i, j \in DOMAIN p.entries : i < j => p.entries[i].key < p.entries[j].key

\* A package as the format's description has it: a policy says something, lists
\* its keys in order, none twice, and gives each a value its kind allows.
WellFormed(m, p) ==
    /\ m.formatKnown /\ m.named
    /\ p.formatKnown /\ p.kind \in DOMAIN Schema
    /\ p.entries # <<>>
    /\ Ascending(p)
    /\ \A i \in DOMAIN p.entries :
          /\ p.entries[i].key \in DOMAIN Schema[p.kind]
          /\ p.entries[i].value \in Schema[p.kind][p.entries[i].key]

\* Build can have written these entries: of a well-formed package, in its order
\* and with its headers, of whatever sizes the two documents have.
CanBeBuilt(entries) ==
    /\ Len(entries) = 2
    /\ LET m == entries[1].body
           p == entries[2].body
           sizes == <<entries[1].size, entries[2].size>>
       IN  /\ entries = Build(m, p, sizes)
           /\ sizes[1] <= MaxEntry /\ sizes[2] <= MaxEntry
           /\ Malformed \notin {m, p}
           /\ WellFormed(m, p)

\* Parse accepts exactly what Build can write: the two entries, in that order
\* and with those headers, of well-formed documents ("it accepts exactly two
\* regular, read-only, canonically ordered entries and rejects everything
\* else"), so that Lookup, which takes a key's first entry, takes its only one.
AcceptsExactlyTheBuilt ==
    /\ Parse(archive) = "ok" <=>
          archive.size <= MaxArchive /\ ~archive.broken /\ CanBeBuilt(archive.entries)
    /\ Parse(archive) = "ok" =>
          LET p == archive.entries[2].body
          IN  /\ Buildable(archive.entries[1].body, p)
              /\ \A i \in DOMAIN p.entries : Lookup(p, p.entries[i].key) = p.entries[i].value

\* The classes given when everything there is has been looked at.
LateClasses ==
    {"ok", "MissingEntry", "MalformedContent", "FormatVersion", "UnsupportedKind",
     "UnknownPolicyKey", "PolicyOrder", "PolicyValue"}

\* Nothing after the first fault has a say: an archive refused for an entry is
\* refused for the same reason whatever follows that entry.
FirstFaultDecides ==
    [][Parse(archive) \notin LateClasses => Parse(archive') = Parse(archive)]_archive
=============================================================================
