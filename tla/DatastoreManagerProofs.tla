----------------------- MODULE DatastoreManagerProofs -----------------------
(***************************************************************************)
(* Theorems about DatastoreManager: the locks, and the file, for any keys, *)
(* any calls and any number of restarts.                                   *)
(***************************************************************************)
EXTENDS DatastoreManager, TLAPS

-----------------------------------------------------------------------------
(* Types.                                                                  *)

\* What the two ways to write an entry return is an entry.
LEMMA EntryTypes ==
    ASSUME NEW e \in Entries(Writes), NEW x \in Writes, NEW n \in Nat
    PROVE  /\ CommitEntry(e, Entry(x, n)) \in Entries(Writes)
           /\ TryUpdateEntry(e, Entry(x, n)) \in Entries(Writes)
BY DEF CommitEntry, TryUpdateEntry, Entry, Entries, IsPresent

LEMMA AbsentType == Absent \in Entries(Writes) /\ EmptyMap \in Maps
BY DEF Absent, Entry, Entries, EmptyMap, Maps

LEMMA TypeOKInit == Init => TypeOK
<1> SUFFICES ASSUME Init PROVE TypeOK
  OBVIOUS
<1>1. /\ pending \in BOOLEAN /\ stop \in BOOLEAN
      /\ localStop \in BOOLEAN /\ localPending \in BOOLEAN
  BY Zenon DEF Init
<1>2. owner2pc \in [Keys -> SUBSET Transactions] /\ starts \in 0 .. MaxStarts
  BY BoundsAssumption DEF Init
<1>3. datastore \in Maps /\ file \in Maps /\ localDatastore \in Maps /\ saved \in Maps
  BY AbsentType, Zenon DEF Init
<1> QED
  BY <1>1, <1>2, <1>3 DEF Init, TypeOK

LEMMA TypeOKStep == TypeOK /\ [Next]_vars => TypeOK'
<1> SUFFICES ASSUME TypeOK, [Next]_vars PROVE TypeOK'
  OBVIOUS
<1> USE DEF vars, memory, flags, locals, clients, history
<1>1. CASE Open
  <2>1. datastore' \in Maps /\ localDatastore' \in Maps
    BY <1>1, AbsentType DEF Open, TypeOK
  <2>2. owner2pc' \in [Keys -> SUBSET Transactions] /\ starts' \in 0 .. MaxStarts
    BY <1>1, BoundsAssumption DEF Open, TypeOK
  <2>3. calls' \in [Writes -> {"new", "prepared", "over"}]
    BY <1>1 DEF Open, TypeOK
  <2>4. /\ pending' \in BOOLEAN /\ stop' \in BOOLEAN
        /\ localStop' \in BOOLEAN /\ localPending' \in BOOLEAN
    BY <1>1, Zenon DEF Open
  <2> QED
    BY <1>1, <2>1, <2>2, <2>3, <2>4 DEF Open, TypeOK
<1>2. ASSUME NEW t \in Transactions, Prepare(t) PROVE TypeOK'
  <2>1. t \in Writes /\ KeyOf[t] \in Keys
    BY WritesAssumption DEF Writes
  <2>2. seen' \in [Transactions -> Nat]
    BY <1>2, <2>1 DEF Prepare, TypeOK, Maps, Entries
  <2> QED
    BY <1>2, <2>1, <2>2 DEF Prepare, TypeOK
<1>3. ASSUME NEW t \in Transactions, Commit(t) PROVE TypeOK'
  <2>1. t \in Writes /\ KeyOf[t] \in Keys
    BY WritesAssumption DEF Writes
  <2>2. datastore' \in Maps /\ pending' \in BOOLEAN
    <3>1. PICK n \in seen[t] + 1 .. MaxVersion :
             LET k == KeyOf[t]
                 new == CommitEntry(datastore[k], Entry(t, n))
             IN  /\ datastore' = [datastore EXCEPT ![k] = new]
                 /\ pending' = (pending \/ new # datastore[k])
      BY <1>3 DEF Commit
    <3>2. n \in Nat
      BY BoundsAssumption DEF TypeOK
    <3>3. CommitEntry(datastore[KeyOf[t]], Entry(t, n)) \in Entries(Writes)
      BY <2>1, <3>2, EntryTypes DEF TypeOK, Maps
    <3>4. datastore' \in Maps
      BY <2>1, <3>1, <3>3 DEF TypeOK, Maps
    <3>5. pending' \in BOOLEAN
      BY <3>1, Zenon
    <3> QED
      BY <3>4, <3>5
  <2> QED
    BY <1>3, <2>1, <2>2 DEF Commit, TypeOK
<1>4. ASSUME NEW t \in Transactions, Abort(t) PROVE TypeOK'
  BY <1>4 DEF Abort, TypeOK
<1>5. ASSUME NEW x \in Repairs, TryUpdate(x) PROVE TypeOK'
  <2>1. x \in Writes /\ KeyOf[x] \in Keys
    BY WritesAssumption DEF Writes
  <2>2. datastore' \in Maps
    <3>1. PICK n \in 1 .. MaxVersion :
             datastore' = [datastore EXCEPT
                              ![KeyOf[x]] = TryUpdateEntry(@, Entry(x, n))]
      BY <1>5 DEF TryUpdate
    <3> QED
      BY <2>1, <3>1, EntryTypes DEF TypeOK, Maps
  <2>3. pending' \in BOOLEAN
    BY <1>5, Zenon DEF TryUpdate
  <2> QED
    BY <1>5, <2>1, <2>2, <2>3 DEF TryUpdate, TypeOK
<1>6. CASE Close
  <2>1. stop' \in BOOLEAN
    BY <1>6, Zenon DEF Close
  <2> QED
    BY <1>6, <2>1 DEF Close, TypeOK
<1>7. CASE DumpReadStop
  BY <1>7 DEF DumpReadStop, TypeOK
<1>8. CASE DumpReadPending
  BY <1>8 DEF DumpReadPending, TypeOK
<1>9. CASE DumpDecide
  BY <1>9 DEF DumpDecide, TypeOK
<1>10. CASE DumpCopy
  <2>1. pending' \in BOOLEAN
    BY <1>10, Zenon DEF DumpCopy
  <2> QED
    BY <1>10, <2>1 DEF DumpCopy, TypeOK
<1>11. CASE DumpWrite
  BY <1>11, AbsentType DEF DumpWrite, TypeOK
<1>12. CASE UNCHANGED vars
  BY <1>12 DEF TypeOK
<1> QED
  BY <1>1, <1>2, <1>3, <1>4, <1>5, <1>6, <1>7, <1>8, <1>9, <1>10, <1>11, <1>12
     DEF Next, Call, Dump

\* The state of a datastore keeps its types, through every call, every pass of the
\* writer and every restart: what is saved is a map that the next start can load.
THEOREM TypeCorrect == Spec => []TypeOK
  BY TypeOKInit, TypeOKStep, PTL DEF Spec

-----------------------------------------------------------------------------
(* The locks.                                                              *)

LEMMA LockedStep == TypeOK /\ LockedByPrepared /\ [Next]_vars => LockedByPrepared'
<1> DEFINE Locked(j) == /\ owner2pc[j] = Prepared(j)
                        /\ \A s, t \in Prepared(j) : s = t
<1> SUFFICES ASSUME TypeOK, LockedByPrepared, [Next]_vars, NEW k \in Keys
             PROVE  Locked(k)'
  BY DEF LockedByPrepared
<1> USE DEF vars, memory, flags, locals, clients, history
<1>0. \A t \in Transactions : t \in Writes /\ KeyOf[t] \in Keys
  BY WritesAssumption DEF Writes
<1>1. CASE Open
  BY <1>0, <1>1 DEF Open, Prepared, TypeOK
<1>2. ASSUME NEW t \in Transactions, Prepare(t)
      PROVE  Locked(k)'
  BY <1>0, <1>2 DEF Prepare, LockedByPrepared, Prepared, TypeOK
<1>3. ASSUME NEW t \in Transactions, Commit(t) PROVE Locked(k)'
  <2>1. /\ owner2pc' = [owner2pc EXCEPT ![KeyOf[t]] = {}]
        /\ calls' = [calls EXCEPT ![t] = "over"]
        /\ calls[t] = "prepared"
    BY <1>3 DEF Commit
  <2> QED
    BY <1>0, <2>1 DEF LockedByPrepared, Prepared, TypeOK
<1>4. ASSUME NEW t \in Transactions, Abort(t) PROVE Locked(k)'
  BY <1>0, <1>4 DEF Abort, LockedByPrepared, Prepared, TypeOK
<1>5. ASSUME NEW x \in Repairs, TryUpdate(x) PROVE Locked(k)'
  <2>1. x \notin Transactions /\ x \in Writes
    BY WritesAssumption DEF Writes
  <2> QED
    BY <1>0, <1>5, <2>1 DEF TryUpdate, LockedByPrepared, Prepared, TypeOK
<1>6. CASE Close \/ Dump \/ UNCHANGED vars
  BY <1>6 DEF Close, Dump, DumpReadStop, DumpReadPending, DumpDecide, DumpCopy,
     DumpWrite, LockedByPrepared, Prepared
<1> QED
  BY <1>1, <1>2, <1>3, <1>4, <1>5, <1>6 DEF Next, Call

\* One transaction at a time holds the lock of a key, from its prepare to its
\* commit or abort, also across restarts.
THEOREM LocksHeld == Spec => []LockedByPrepared
<1>1. Init => LockedByPrepared
  BY WritesAssumption DEF Init, LockedByPrepared, Prepared, Writes
<1> QED
  BY <1>1, TypeOKInit, TypeOKStep, LockedStep, PTL DEF Spec

-----------------------------------------------------------------------------
(* The file.                                                               *)

\* The map n has every entry of the map m, or a newer one.
Covers(n, m) == \A k \in Keys : m[k] = n[k] \/ m[k].ver < n[k].ver

\* Only a key that has never been written is without a value.
Valued(m) == \A k \in Keys : IsPresent(m[k]) \/ m[k] = Absent

\* FileNotAhead, strengthened with what the copy of the writer holds on its way
\* to the file.  The writer copies whenever it has seen pending: nobody else
\* resets the flag.
FileInv ==
    /\ Valued(datastore) /\ Valued(file) /\ Valued(localDatastore)
    /\ LoadDatastore => Covers(datastore, file)
    /\ writer = "decide" /\ localPending => pending
    /\ writer = "write" /\ localPending =>
          /\ Covers(datastore, localDatastore)
          /\ LoadDatastore => Covers(localDatastore, file)

\* A write of one entry leaves a newer one or the same, and a value.
LEMMA EntryGrows ==
    ASSUME NEW e \in Entries(Writes), NEW x \in Writes, NEW n \in Nat, n > 0,
           IsPresent(e) \/ e = Absent
    PROVE  \A f \in {CommitEntry(e, Entry(x, n)), TryUpdateEntry(e, Entry(x, n))} :
              /\ e = f \/ e.ver < f.ver
              /\ IsPresent(f)
BY WritesAssumption DEF CommitEntry, TryUpdateEntry, Entry, Entries, IsPresent, Absent

\* Memory only grows while a process runs, so what it covered it still covers.
LEMMA CoversGrowing ==
    ASSUME NEW m \in Maps, NEW n \in Maps, NEW o \in Maps,
           Covers(n, m), Covers(o, n)
    PROVE  Covers(o, m)
BY DEF Covers, Maps, Entries

\* What a call does to the map.
LEMMA CallGrows ==
    ASSUME TypeOK, Valued(datastore), NEW x \in Writes, Call(x)
    PROVE  Covers(datastore', datastore) /\ Valued(datastore')
<1> USE DEF memory, flags, locals, clients, history
<1>0. KeyOf[x] \in Keys /\ Transactions \subseteq Writes
  BY WritesAssumption DEF Writes
<1>1. CASE Prepare(x) \/ Abort(x)
  BY <1>1 DEF Prepare, Abort, Covers
<1>2. CASE x \in Transactions /\ Commit(x)
  <2>1. PICK n \in seen[x] + 1 .. MaxVersion :
           datastore' = [datastore EXCEPT
                            ![KeyOf[x]] = CommitEntry(datastore[KeyOf[x]], Entry(x, n))]
    BY <1>2 DEF Commit
  <2>2. n \in Nat /\ n > 0
    BY <1>2, BoundsAssumption DEF TypeOK
  <2> QED
    BY <1>0, <2>1, <2>2, EntryGrows DEF TypeOK, Maps, Covers, Valued
<1>3. CASE TryUpdate(x)
  <2>1. PICK n \in 1 .. MaxVersion :
           datastore' = [datastore EXCEPT
                            ![KeyOf[x]] = TryUpdateEntry(datastore[KeyOf[x]], Entry(x, n))]
    BY <1>0, <1>3 DEF TryUpdate, TypeOK, Maps
  <2>2. n \in Nat /\ n > 0
    BY BoundsAssumption
  <2> QED
    BY <1>0, <2>1, <2>2, EntryGrows DEF TypeOK, Maps, Covers, Valued
<1> QED
  BY <1>1, <1>2, <1>3 DEF Call

LEMMA FileInvInit == Init => FileInv
BY AbsentType DEF Init, FileInv, Valued, Covers, EmptyMap

LEMMA FileInvStep == TypeOK /\ FileInv /\ [Next]_vars => FileInv'
<1> SUFFICES ASSUME TypeOK, FileInv, [Next]_vars PROVE FileInv'
  OBVIOUS
<1> USE DEF vars, memory, flags, locals, clients, history
<1>1. CASE Open
  BY <1>1 DEF Open, FileInv, Valued, Covers, EmptyMap
<1>2. ASSUME NEW x \in Writes, Call(x) PROVE FileInv'
  <2>1. Covers(datastore', datastore) /\ Valued(datastore')
    BY <1>2, CallGrows DEF FileInv
  <2>2. UNCHANGED <<file, writer, localPending, localDatastore>>
    BY <1>2 DEF Call, Prepare, Commit, Abort, TryUpdate
  <2>3. pending => pending'
    BY <1>2 DEF Call, Prepare, Commit, Abort, TryUpdate
  <2>4. datastore' \in Maps
    BY TypeOKStep DEF TypeOK
  <2>5. LoadDatastore => Covers(datastore', file)
    BY <2>1, <2>4, CoversGrowing DEF FileInv, TypeOK
  <2>6. writer = "write" /\ localPending => Covers(datastore', localDatastore)
    BY <2>1, <2>4, CoversGrowing DEF FileInv, TypeOK
  <2> QED
    BY <2>1, <2>2, <2>3, <2>5, <2>6 DEF FileInv
<1>3. CASE Close
  BY <1>3 DEF Close, FileInv
<1>4. CASE DumpReadStop
  BY <1>4 DEF DumpReadStop, FileInv
<1>5. CASE DumpReadPending
  BY <1>5 DEF DumpReadPending, FileInv
<1>6. CASE DumpDecide
  BY <1>6 DEF DumpDecide, FileInv
<1>7. CASE DumpCopy
  BY <1>7 DEF DumpCopy, FileInv, Covers
<1>8. CASE DumpWrite
  BY <1>8 DEF DumpWrite, FileInv, Valued, EmptyMap
<1>9. CASE UNCHANGED vars
  BY <1>9 DEF FileInv
<1> QED
  BY <1>1, <1>2, <1>3, <1>4, <1>5, <1>6, <1>7, <1>8, <1>9 DEF Next, Dump

\* No commit, repair, round of the writer or restart puts the disk ahead of the
\* memory.
THEOREM FileBehind == Spec => []FileNotAhead
<1>1. FileInv => FileNotAhead
  BY DEF FileInv, FileNotAhead, Covers
<1> QED
  BY <1>1, TypeOKInit, TypeOKStep, FileInvInit, FileInvStep, PTL DEF Spec

\* And no file is ever replaced by an older one.
THEOREM FileOnlyGrows == Spec => FileGrows
<1>1. TypeOK /\ FileInv /\ [Next]_vars =>
        [LoadDatastore => \A k \in Keys : file'[k].ver >= file[k].ver]_vars
  <2> SUFFICES ASSUME TypeOK, FileInv, Next, LoadDatastore, NEW k \in Keys
               PROVE  file'[k].ver >= file[k].ver
    OBVIOUS
  <2>1. file[k].ver \in Nat /\ localDatastore[k].ver \in Nat
    BY DEF TypeOK, Maps, Entries
  <2>2. CASE DumpWrite
    BY <2>1, <2>2 DEF DumpWrite, FileInv, Covers
  <2>3. CASE ~DumpWrite
    <3>1. file' = file
      BY <2>3 DEF Next, Open, Close, Dump, DumpReadStop, DumpReadPending,
         DumpDecide, DumpCopy, Call, Prepare, Commit, Abort, TryUpdate
    <3> QED
      BY <2>1, <3>1
  <2> QED
    BY <2>2, <2>3
<1> QED
  BY <1>1, TypeOKInit, TypeOKStep, FileInvInit, FileInvStep, PTL DEF Spec, FileGrows
=============================================================================
