-------------------------- MODULE DatastoreManager --------------------------
(***************************************************************************)
(* The datastore of one replica process: the map in memory, the two-phase- *)
(* commit locks, and the thread that writes the map to its file.  The      *)
(* operations are called by the threads of the connections, which run at   *)
(* the same time as the writer; an operation that holds datastoreMutex     *)
(* from its first to its last access is one step, and the writer is cut    *)
(* where another thread can run in between.                                *)
(***************************************************************************)
EXTENDS VersionedEntry

CONSTANTS
    Keys,
    Transactions,     \* two-phase commits, of a coordinator or a participant
    Repairs,          \* REPAIR and UPDATE entries received
    KeyOf,            \* KeyOf[x]: the key of a transaction or repair
    MaxVersion,       \* bound on the versions
    LoadDatastore,    \* the "load-datastore" argument
    MaxStarts         \* bound on how often the process is started

Writes == Transactions \cup Repairs

ASSUME WritesAssumption ==
    /\ Transactions \cap Repairs = {}
    /\ NoValue \notin Writes
    /\ KeyOf \in [Writes -> Keys]
ASSUME BoundsAssumption == MaxVersion \in Nat \ {0} /\ MaxStarts \in Nat \ {0}
ASSUME LoadAssumption == LoadDatastore \in BOOLEAN

VARIABLES
    datastore,        \* datastore[k]: entry in memory
    owner2pc,         \* owner2pc[k]: the transaction that holds the lock, if any
    pending,          \* there is something to write
    stop,             \* close has been called
    file,             \* file[k]: entry on disk
    writer,           \* where dump stands; "off" before initialize
    localStop,        \* locals of dump
    localPending,
    localDatastore,
    calls,            \* calls[x]: "new", "prepared" or "over"
    seen,             \* seen[t]: the version prepare returned to t
    starts,           \* how often the process has been started
    saved             \* history: the datastore when close was called

memory == <<datastore, owner2pc>>
flags == <<pending, stop>>
locals == <<localStop, localPending, localDatastore>>
clients == <<calls, seen>>
history == <<starts, saved>>
vars == <<memory, flags, file, writer, locals, clients, history>>

Maps == [Keys -> Entries(Writes)]
EmptyMap == [k \in Keys |-> Absent]

TypeOK ==
    /\ datastore \in Maps
    /\ owner2pc \in [Keys -> SUBSET Transactions]
    /\ pending \in BOOLEAN
    /\ stop \in BOOLEAN
    /\ file \in Maps
    /\ writer \in {"off", "check", "read", "decide", "copy", "write", "ended"}
    /\ localStop \in BOOLEAN
    /\ localPending \in BOOLEAN
    /\ localDatastore \in Maps
    /\ calls \in [Writes -> {"new", "prepared", "over"}]
    /\ seen \in [Transactions -> Nat]
    /\ starts \in 0 .. MaxStarts
    /\ saved \in Maps

Init ==
    /\ datastore = EmptyMap
    /\ owner2pc = [k \in Keys |-> {}]
    /\ pending = FALSE
    /\ stop = FALSE
    /\ file = EmptyMap
    /\ writer = "off"
    /\ localStop = FALSE
    /\ localPending = FALSE
    /\ localDatastore = EmptyMap
    /\ calls = [x \in Writes |-> "new"]
    /\ seen = [t \in Transactions |-> 0]
    /\ starts = 0
    /\ saved = EmptyMap

Running == writer # "off"

\* dump holds pendingMutex, which tryUpdate takes and commit does not.
PendingMutexHeld == writer \in {"read", "decide", "copy"}

-----------------------------------------------------------------------------
(* The operations.                                                         *)

\* The constructor of Replica: initialize starts dump, then load.  What a
\* former process had in memory is gone, with the calls it was serving.
Open ==
    /\ writer \in {"off", "ended"}
    /\ starts < MaxStarts
    /\ datastore' = IF LoadDatastore THEN file ELSE EmptyMap
    /\ owner2pc' = [k \in Keys |-> {}]
    /\ pending' = FALSE
    /\ stop' = FALSE
    /\ writer' = "check"
    /\ localStop' = FALSE
    /\ localPending' = FALSE
    /\ localDatastore' = EmptyMap
    /\ calls' = [x \in Writes |-> IF calls[x] = "prepared" THEN "over" ELSE calls[x]]
    /\ starts' = starts + 1
    /\ UNCHANGED <<file, seen, saved>>

\* Mutant: the lock is not looked at.
PrepareAnyway(t) ==
    /\ Running
    /\ calls[t] = "new"
    /\ owner2pc' = [owner2pc EXCEPT ![KeyOf[t]] = {t}]
    /\ seen' = [seen EXCEPT ![t] = datastore[KeyOf[t]].ver]
    /\ calls' = [calls EXCEPT ![t] = "prepared"]
    /\ UNCHANGED <<datastore, flags, file, writer, locals, history>>

\* prepare returns false, and changes nothing, while the key is locked.
Prepare(t) ==
    /\ Running
    /\ calls[t] = "new"
    /\ owner2pc[KeyOf[t]] = {}
    /\ owner2pc' = [owner2pc EXCEPT ![KeyOf[t]] = {t}]
    /\ seen' = [seen EXCEPT ![t] = datastore[KeyOf[t]].ver]
    /\ calls' = [calls EXCEPT ![t] = "prepared"]
    /\ UNCHANGED <<datastore, flags, file, writer, locals, history>>

\* commit, with the version the quorum agreed on: a higher one than the key had
\* when it was locked.  pending is set under datastoreMutex alone.
Commit(t) ==
    /\ calls[t] = "prepared"
    /\ \E n \in seen[t] + 1 .. MaxVersion :
          LET k == KeyOf[t]
              new == CommitEntry(datastore[k], Entry(t, n))
          IN  /\ datastore' = [datastore EXCEPT ![k] = new]
              /\ pending' = (pending \/ new # datastore[k])
              /\ owner2pc' = [owner2pc EXCEPT ![k] = {}]
    /\ calls' = [calls EXCEPT ![t] = "over"]
    /\ UNCHANGED <<stop, file, writer, locals, seen, history>>

\* abort erases the owner only when it is the caller.
Abort(t) ==
    /\ calls[t] = "prepared"
    /\ owner2pc' = [owner2pc EXCEPT ![KeyOf[t]] = @ \ {t}]
    /\ calls' = [calls EXCEPT ![t] = "over"]
    /\ UNCHANGED <<datastore, flags, file, writer, locals, seen, history>>

\* tryUpdate waits for pendingMutex.
MayUpdate == Running /\ ~PendingMutexHeld

\* tryUpdate: pending is set even when the entry that is there is kept.
TryUpdate(x) ==
    /\ MayUpdate
    /\ calls[x] = "new"
    /\ \E n \in 1 .. MaxVersion :
          datastore' = [datastore EXCEPT
                           ![KeyOf[x]] = TryUpdateEntry(@, Entry(x, n))]
    /\ pending' = TRUE
    /\ calls' = [calls EXCEPT ![x] = "over"]
    /\ UNCHANGED <<owner2pc, stop, file, writer, locals, seen, history>>

\* close, called by Replica::shutdown; it returns when the writer has ended.
\* The threads of the connections are not stopped: their calls go on.
Close ==
    /\ Running
    /\ ~stop
    /\ stop' = TRUE
    /\ saved' = datastore
    /\ UNCHANGED <<memory, pending, file, writer, locals, clients, starts>>

-----------------------------------------------------------------------------
(* The writer thread: one round of the loop of dump.                       *)

\* pendingMutex is taken; stop and pending are copied, one after the other.
DumpReadStop ==
    /\ writer = "check"
    /\ localStop' = stop
    /\ writer' = "read"
    /\ UNCHANGED <<memory, flags, file, localPending, localDatastore, clients,
                   history>>

DumpReadPending ==
    /\ writer = "read"
    /\ localPending' = pending
    /\ writer' = "decide"
    /\ UNCHANGED <<memory, flags, file, localStop, localDatastore, clients,
                   history>>

\* "if (pending)" reads the flag a second time.
DumpDecide ==
    /\ writer = "decide"
    /\ writer' = IF pending THEN "copy" ELSE "write"
    /\ UNCHANGED <<memory, flags, file, locals, clients, history>>

\* The map is copied under datastoreMutex and the flag reset.
DumpCopy ==
    /\ writer = "copy"
    /\ localDatastore' = datastore
    /\ pending' = FALSE
    /\ writer' = "write"
    /\ UNCHANGED <<memory, stop, file, localStop, localPending, clients, history>>

\* Mutant: the file is written in every round.
DumpWriteAlways ==
    /\ writer = "write"
    /\ file' = localDatastore
    /\ localDatastore' = EmptyMap
    /\ writer' = IF localStop THEN "ended" ELSE "check"
    /\ UNCHANGED <<memory, flags, localStop, localPending, clients, history>>

\* Mutant: the thread only ends after it has written something.
DumpEndsWriting ==
    /\ writer = "write"
    /\ IF localPending
       THEN file' = localDatastore /\ localDatastore' = EmptyMap
       ELSE UNCHANGED <<file, localDatastore>>
    /\ writer' = IF localStop /\ localPending THEN "ended" ELSE "check"
    /\ UNCHANGED <<memory, flags, localStop, localPending, clients, history>>

\* The mutexes are released and, when localPending, the file is written; then
\* the thread ends or sleeps until the next round.
DumpWrite ==
    /\ writer = "write"
    /\ IF localPending
       THEN file' = localDatastore /\ localDatastore' = EmptyMap
       ELSE UNCHANGED <<file, localDatastore>>
    /\ writer' = IF localStop THEN "ended" ELSE "check"
    /\ UNCHANGED <<memory, flags, localStop, localPending, clients, history>>

Dump == DumpReadStop \/ DumpReadPending \/ DumpDecide \/ DumpCopy \/ DumpWrite

-----------------------------------------------------------------------------
Call(x) ==
    \/ x \in Transactions /\ (Prepare(x) \/ Commit(x) \/ Abort(x))
    \/ x \in Repairs /\ TryUpdate(x)

Next == Open \/ Close \/ Dump \/ \E x \in Writes : Call(x)

Spec == Init /\ [][Next]_vars

\* The writer thread is scheduled and gets the mutexes.
FairSpec == Spec /\ WF_vars(Dump)

-----------------------------------------------------------------------------
Prepared(k) == {t \in Transactions : KeyOf[t] = k /\ calls[t] = "prepared"}

\* A key is locked exactly while a transaction is between prepare and commit or
\* abort, by that transaction, and there is never a second one: commit erases
\* the owner without looking at who it is.
LockedByPrepared ==
    \A k \in Keys :
        /\ owner2pc[k] = Prepared(k)
        /\ \A s, t \in Prepared(k) : s = t

\* The disk is never ahead of the memory, nor has another value for a version
\* the memory has, whatever is written while the copy is on its way.
FileNotAhead ==
    LoadDatastore /\ Running =>
        \A k \in Keys :
            \/ file[k] = datastore[k]
            \/ file[k].ver < datastore[k].ver

\* A file is never overwritten with an older copy, and so a restart never gives
\* a replica less than an earlier restart did.
FileGrows ==
    [][LoadDatastore =>
          \A k \in Keys : file'[k].ver >= file[k].ver]_vars

\* close has "saved all data on disk" (DatastoreManager.cpp:22): what was in
\* memory when it was called is in the file when the writer thread has ended.
ClosedMeansSaved ==
    writer = "ended" => \A k \in Keys : file[k].ver >= saved[k].ver

\* close returns: the writer sees the flag, whatever the others do meanwhile.
CloseReturns == stop ~> writer = "ended"
=============================================================================
