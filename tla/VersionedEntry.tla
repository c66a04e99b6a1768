--------------------------- MODULE VersionedEntry ---------------------------
(***************************************************************************)
(* What a DatastoreManager keeps for one key: a value and its version, or  *)
(* nothing.  The two ways the code writes an entry are operators, shared   *)
(* by the modules that model the datastore.                                *)
(***************************************************************************)
EXTENDS Naturals

CONSTANT NoValue        \* stands for "no entry": never the value of a put

\* Mutant: the pair is built the other way round.
SwappedEntry(v, n) == [val |-> n, ver |-> v]

Entry(v, n) == [val |-> v, ver |-> n]

Entries(V) == [val : V \cup {NoValue}, ver : Nat]

\* An absent key reads as version 0 (DatastoreManager::get and ::prepare).
Absent == Entry(NoValue, 0)

IsPresent(e) == e.val # NoValue

\* Mutant: only the version is replaced.
CommitVersionOnly(e, new) ==
    IF ~IsPresent(e) THEN new
    ELSE IF e.ver >= new.ver THEN e ELSE Entry(e.val, new.ver)

\* Mutant: the pair is emplaced the other way round.
CommitSwapped(e, new) ==
    IF IsPresent(e) /\ e.ver >= new.ver THEN e ELSE SwappedEntry(new.val, new.ver)

\* DatastoreManager::commit on one entry: a higher version replaces it.
CommitEntry(e, new) ==
    IF IsPresent(e) /\ e.ver >= new.ver THEN e ELSE new

\* Mutant: the entry is overwritten whatever is there.
Overwrite(e, new) == new

\* DatastoreManager::tryUpdate on one entry.  The iterator it compares with
\* end() is never assigned by a find, so an entry that is already there is
\* never looked at: only the emplace branch runs, and emplace keeps what it
\* finds.
TryUpdateEntry(e, new) == IF IsPresent(e) THEN e ELSE new

\* Coordinator::getLatestValue over the values in the order they arrived: the
\* first one with the highest version.
Latest(e, new) == IF new.ver > e.ver THEN new ELSE e
=============================================================================
