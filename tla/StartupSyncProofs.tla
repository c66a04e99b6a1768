------------------------- MODULE StartupSyncProofs -------------------------
(***************************************************************************)
(* Theorems about StartupSync, for any replicas, keys, puts and files: a   *)
(* replica that starts learns what a write quorum has, puts agree while    *)
(* replicas start among them, and no datastore goes back.                  *)
(***************************************************************************)
EXTENDS StartupSync, FiniteSetTheorems, TLAPS

-----------------------------------------------------------------------------
(* Finite sets.                                                            *)

\* A finite set of natural numbers that is not empty has a largest one.
LEMMA MaxOfNaturals ==
    ASSUME NEW S \in SUBSET Nat, IsFiniteSet(S), S # {}
    PROVE  Max(S) \in S /\ \A n \in S : n <= Max(S)
<1> DEFINE HasMax(T) == \E m \in T : \A n \in T : m >= n
           Bad == {T \in SUBSET S : T # {} /\ ~HasMax(T)}
<1>1. Bad \subseteq FiniteSubsetsOf(S)
  BY FS_Subset DEF FiniteSubsetsOf
<1>2. Bad = {}
  <2> SUFFICES ASSUME Bad # {} PROVE FALSE
    OBVIOUS
  <2>1. PICK T \in Bad :
           \A U \in Bad : ~ (<<U, T>> \in StrictSubsetOrdering(S))
    BY <1>1, FS_StrictSubsetOrderingWellFounded, WFMin
  <2>2. PICK x \in T : TRUE
    OBVIOUS
  <2> DEFINE U == T \ {x}
  <2>3. U \notin Bad
    BY <2>1, <2>2 DEF StrictSubsetOrdering
  <2>4. T \subseteq Nat /\ x \in Nat
    OBVIOUS
  <2>5. CASE U = {}
    BY <2>2, <2>4, <2>5
  <2>6. CASE U # {}
    <3>1. PICK m \in U : \A n \in U : m >= n
      BY <2>3, <2>6
    <3>2. CASE x >= m
      BY <2>2, <2>4, <3>1, <3>2
    <3>3. CASE ~ (x >= m)
      BY <2>2, <2>4, <3>1, <3>3
    <3> QED
      BY <3>2, <3>3
  <2> QED
    BY <2>5, <2>6
<1>3. \E m \in S : \A n \in S : m >= n
  BY <1>2
<1> QED
  BY <1>3 DEF Max

\* The values of a function on a finite set.
LEMMA FiniteImage ==
    ASSUME NEW f, IsFiniteSet(DOMAIN f)
    PROVE  IsFiniteSet({f[x] : x \in DOMAIN f})
<1> DEFINE S == DOMAIN f
           T == {f[x] : x \in S}
           g == [x \in S |-> f[x]]
<1>1. g \in Surjection(S, T)
  BY DEF Surjection
<1> HIDE DEF g, T, S
<1> QED
  BY <1>1, FS_Surjection DEF T, S

LEMMA ReplicasFinite == IsFiniteSet(Replicas) /\ Cardinality(Replicas) = N
<1>1. N \in Int /\ N - 1 \in Int /\ ~(0 > N - 1)
  BY ReplicasAssumption
<1> QED
  BY <1>1, FS_Interval DEF Replicas

-----------------------------------------------------------------------------
(* Types.                                                                  *)

LEMMA LinkParts ==
    /\ \A l \in SyncLinks : l[1] \in Replicas /\ l[2] \in Replicas
    /\ \A p \in PutLinks : /\ p[1] \in Puts /\ p[2] \in Replicas
                           /\ p = <<p[1], p[2]>>
    /\ \A t \in Puts, r \in Replicas : <<t, r>> \in PutLinks
    /\ \A t \in Puts : KeyOf[t] \in Keys
  BY DataAssumption DEF SyncLinks, PutLinks

\* What the ways to write an entry return is an entry.
LEMMA EntryTypes ==
    ASSUME NEW e \in Entries(Puts \cup Data)
    PROVE  /\ \A t \in Puts, n \in Nat :
                 CommitEntry(e, Entry(t, n)) \in Entries(Puts \cup Data)
           /\ \A f \in Entries(Puts \cup Data) :
                 TryUpdateEntry(e, f) \in Entries(Puts \cup Data)
  BY DEF CommitEntry, TryUpdateEntry, Entry, Entries

LEMMA StoreTypes ==
    /\ Absent \in Entries(Puts \cup Data)
    /\ NoEntries \in [Keys -> Entries(Puts \cup Data)]
    /\ \A s \in Stores, r \in Replicas, k \in Keys : s[r][k].ver \in Nat
  BY DEF NoEntries, Absent, Entry, Entries, Stores

\* The replicas whose versions a put looks at, and the version it gets.
Voters(t) == {home[t]} \cup {p[2] : p \in Parts(t)}

LEMMA NextVersionAbove ==
    ASSUME TypeOK, NEW t \in Puts
    PROVE  /\ NextVersion(t) \in Nat
           /\ NextVersion(t) >= 1
           /\ \A r \in Voters(t) : store[r][KeyOf[t]].ver < NextVersion(t)
<1> DEFINE f == [r \in Voters(t) |-> store[r][KeyOf[t]].ver]
           S == {f[r] : r \in DOMAIN f}
<1>1. Voters(t) \subseteq Replicas
  BY LinkParts, PlacementAssumption DEF Voters, Parts, TypeOK
<1>2. S \in SUBSET Nat /\ S # {}
  <2>1. \A r \in Voters(t) : store[r][KeyOf[t]].ver \in Nat
    BY <1>1, LinkParts, StoreTypes DEF TypeOK
  <2>2. home[t] \in Voters(t)
    BY DEF Voters
  <2> QED
    BY <2>1, <2>2
<1>3. IsFiniteSet(S)
  <2>1. IsFiniteSet(Voters(t)) /\ DOMAIN f = Voters(t)
    BY <1>1, ReplicasFinite, FS_Subset
  <2> HIDE DEF f
  <2> QED
    BY <2>1, FiniteImage
<1>4. Max(S) \in Nat /\ \A n \in S : n <= Max(S)
  BY <1>2, <1>3, MaxOfNaturals
<1>5. {store[r][KeyOf[t]].ver : r \in Voters(t)} = S
  OBVIOUS
<1>6. NextVersion(t) = 1 + Max(S)
  BY <1>5 DEF NextVersion, Voters
<1>7. \A r \in Voters(t) : store[r][KeyOf[t]].ver \in S
  OBVIOUS
<1> HIDE DEF S, f
<1>8. NextVersion(t) \in Nat /\ NextVersion(t) >= 1
  BY <1>4, <1>6
<1>9. ASSUME NEW r \in Voters(t)
      PROVE  store[r][KeyOf[t]].ver < NextVersion(t)
  <2> DEFINE n == store[r][KeyOf[t]].ver
  <2>1. n \in S /\ n \in Nat /\ n <= Max(S)
    BY <1>2, <1>4, <1>7
  <2> QED
    BY <1>4, <1>6, <2>1
<1> QED
  BY <1>8, <1>9

LEMMA TypeOKInit == Init => TypeOK
<1> SUFFICES ASSUME Init PROVE TypeOK
  OBVIOUS
<1>1. store \in Stores
  BY DataAssumption DEF Init
<1>2. answer \in [SyncLinks -> [Keys -> Entries(Puts \cup Data)]]
  BY StoreTypes, Zenon DEF Init
<1> QED
  BY <1>1, <1>2 DEF Init, TypeOK

LEMMA CommitType ==
    ASSUME TypeOK, NEW r \in Replicas, NEW t \in Puts, NEW n \in Nat,
           Commit(r, t, n)
    PROVE  store' \in Stores /\ owner2pc' \in [Replicas -> [Keys -> SUBSET Puts]]
<1>1. KeyOf[t] \in Keys /\ store[r][KeyOf[t]] \in Entries(Puts \cup Data)
  BY LinkParts DEF TypeOK, Stores
<1>2. CommitEntry(store[r][KeyOf[t]], Entry(t, n)) \in Entries(Puts \cup Data)
  BY <1>1, EntryTypes
<1> QED
  BY <1>1, <1>2 DEF Commit, TypeOK, Stores

LEMMA TypeOKStep == TypeOK /\ [Next]_vars => TypeOK'
<1> SUFFICES ASSUME TypeOK, [Next]_vars PROVE TypeOK'
  OBVIOUS
<1> USE DEF startVars, putVars
<1>1. ASSUME NEW r \in Replicas, Listen(r) \/ Serve(r) PROVE TypeOK'
  BY <1>1 DEF Listen, Serve, TypeOK
<1>2. ASSUME NEW r \in Replicas, StartSync(r) PROVE TypeOK'
  <2>1. PICK Q \in kSubset(AmountToAsk(r), Accepting \ {r}) :
          /\ sync' = [l \in SyncLinks |->
                         IF l[1] = r /\ l[2] \in Q THEN "sync" ELSE sync[l]]
          /\ asked' = [l \in SyncLinks |->
                          IF l[1] = r /\ l[2] \in Q
                          THEN [k \in Keys |-> store[r][k].ver] ELSE asked[l]]
    BY <1>2 DEF StartSync
  <2>2. [k \in Keys |-> store[r][k].ver] \in [Keys -> Nat]
    BY StoreTypes DEF TypeOK
  <2>3. /\ sync' \in [SyncLinks -> {"unused", "sync", "reading", "closed"}]
        /\ asked' \in [SyncLinks -> [Keys -> Nat]]
    BY <2>1, <2>2 DEF TypeOK
  <2>4. owed' \in [Replicas -> SUBSET Keys]
    BY <1>2 DEF StartSync, TypeOK, QuorumKeys
  <2> QED
    BY <1>2, <2>3, <2>4 DEF StartSync, TypeOK
<1>3. ASSUME NEW l \in SyncLinks, HandleSync(l) PROVE TypeOK'
  BY <1>3 DEF HandleSync, NewerHere, TypeOK
<1>4. ASSUME NEW l \in SyncLinks, ReadForSync(l) PROVE TypeOK'
  <2>1. PICK k \in missing[l] :
          /\ answer' = [answer EXCEPT ![l][k] = store[l[2]][k]]
          /\ missing' = [missing EXCEPT ![l] = @ \ {k}]
    BY <1>4 DEF ReadForSync
  <2>2. k \in Keys /\ l[2] \in Replicas
    BY LinkParts DEF TypeOK
  <2>3. store[l[2]][k] \in Entries(Puts \cup Data)
    BY <2>2 DEF TypeOK, Stores
  <2>4. answer' \in [SyncLinks -> [Keys -> Entries(Puts \cup Data)]]
    BY <2>1, <2>2, <2>3 DEF TypeOK
  <2>5. missing' \in [SyncLinks -> SUBSET Keys]
    BY <2>1 DEF TypeOK
  <2> QED
    BY <1>4, <2>4, <2>5 DEF ReadForSync, TypeOK
<1>5. ASSUME NEW l \in SyncLinks, ReceiveUpdate(l) PROVE TypeOK'
  <2>0. l[1] \in Replicas
    BY LinkParts
  <2>1. store' \in Stores
    <3> DEFINE new == [k \in Keys |->
                          IF IsPresent(answer[l][k])
                          THEN TryUpdateEntry(store[l[1]][k], answer[l][k])
                          ELSE store[l[1]][k]]
    <3>1. \A k \in Keys : /\ store[l[1]][k] \in Entries(Puts \cup Data)
                          /\ answer[l][k] \in Entries(Puts \cup Data)
      BY <2>0 DEF TypeOK, Stores
    <3>2. new \in [Keys -> Entries(Puts \cup Data)]
      BY <3>1, EntryTypes
    <3>3. store' = [store EXCEPT ![l[1]] = new]
      BY <1>5 DEF ReceiveUpdate
    <3> HIDE DEF new
    <3> QED
      BY <2>0, <3>2, <3>3 DEF TypeOK, Stores
  <2> QED
    BY <1>5, <2>1, StoreTypes DEF ReceiveUpdate, TypeOK
<1>6. ASSUME NEW t \in Puts, StartPut(t) PROVE TypeOK'
  BY ZenonT(30), <1>6, LinkParts, PlacementAssumption DEF StartPut, TypeOK
<1>7. ASSUME NEW t \in Puts, CommitPut(t) PROVE TypeOK'
  <2>1. home[t] \in Replicas
    BY PlacementAssumption DEF TypeOK
  <2>2. version' = [version EXCEPT ![t] = NextVersion(t)] /\ NextVersion(t) \in Nat
    BY <1>7, NextVersionAbove DEF CommitPut
  <2>3. store' \in Stores /\ owner2pc' \in [Replicas -> [Keys -> SUBSET Puts]]
    BY <1>7, <2>1, <2>2, CommitType DEF CommitPut, TypeOK
  <2> QED
    BY <1>7, <2>2, <2>3 DEF CommitPut, TypeOK
<1>8. ASSUME NEW t \in Puts, AbortPut(t) PROVE TypeOK'
  BY <1>8, LinkParts, PlacementAssumption DEF AbortPut, TypeOK
<1>9. ASSUME NEW p \in PutLinks, Vote(p) PROVE TypeOK'
  <2>1. p[1] \in Puts /\ p[2] \in Replicas /\ KeyOf[p[1]] \in Keys
    BY LinkParts
  <2>2. part' \in [PutLinks -> {"unused", "prepare", "ready", "refused",
                                "commit", "abort"}]
    BY <1>9 DEF Vote, TypeOK
  <2>3. owner2pc' \in [Replicas -> [Keys -> SUBSET Puts]]
    BY <1>9, <2>1 DEF Vote, TypeOK
  <2> QED
    BY <1>9, <2>2, <2>3 DEF Vote, TypeOK
<1>10. ASSUME NEW p \in PutLinks, ParticipantCommit(p) PROVE TypeOK'
  <2>1. store' \in Stores /\ owner2pc' \in [Replicas -> [Keys -> SUBSET Puts]]
    BY <1>10, LinkParts, CommitType DEF ParticipantCommit, TypeOK
  <2> QED
    BY <1>10, <2>1 DEF ParticipantCommit, TypeOK
<1>11. ASSUME NEW p \in PutLinks, ParticipantAbort(p) PROVE TypeOK'
  BY <1>11, LinkParts DEF ParticipantAbort, TypeOK
<1>12. CASE UNCHANGED vars
  BY <1>12 DEF vars, TypeOK
<1> QED
  BY <1>1, <1>2, <1>3, <1>4, <1>5, <1>6, <1>7, <1>8, <1>9, <1>10, <1>11, <1>12
  DEF Next, StartStep, SyncStep, PutStep, PartStep

\* TypeOK: starting replicas, their messages and the puts keep the types of the state,
\* in whatever order answers, votes and decisions arrive.
THEOREM TypeCorrect == Spec => []TypeOK
  BY TypeOKInit, TypeOKStep, PTL DEF Spec

-----------------------------------------------------------------------------
(* The locks and the participants of the puts.                             *)

\* The put t has to have the lock of its key at r.
Locking(t, r) ==
    \/ home[t] = r /\ put[t] = "gathering"
    \/ part[<<t, r>>] \in {"ready", "commit", "abort"}

LockInv ==
    \A r \in Replicas, k \in Keys :
        /\ owner2pc[r][k] = {t \in Puts : KeyOf[t] = k /\ Locking(t, r)}
        /\ \A s, t \in owner2pc[r][k] : s = t

\* Where a participant stands tells where its put does.
PartInv ==
    \A p \in PutLinks :
        /\ part[p] # "unused" => p[2] # home[p[1]]
        /\ part[p] \in {"prepare", "ready", "refused"} => put[p[1]] = "gathering"
        /\ part[p] = "commit" => put[p[1]] = "done"
        /\ part[p] = "abort" => put[p[1]] = "idle"

\* A put that gathers votes has asked for as many as it needs.
QuorumInv ==
    \A t \in Puts :
        put[t] = "gathering" => Cardinality(Voters(t)) = WriteQuorum

\* Locks are taken only at replicas that serve, and those have done with their
\* synchronisation.
ServingInv ==
    /\ \A r \in Replicas, t \in Puts : Locking(t, r) => stage[r] = "serving"
    /\ \A l \in SyncLinks :
          stage[l[1]] = "serving" => sync[l] \in {"unused", "closed"}

PutInv == LockInv /\ PartInv /\ QuorumInv /\ ServingInv

LEMMA PutInvInit == Init => PutInv
<1> SUFFICES ASSUME Init PROVE PutInv
  OBVIOUS
<1>1. \A t \in Puts, r \in Replicas : ~Locking(t, r)
  BY LinkParts DEF Init, Locking
<1> QED
  BY <1>1 DEF Init, PutInv, LockInv, PartInv, QuorumInv, ServingInv

\* Who takes a lock, and who gives it back.
LEMMA LockSteps ==
    ASSUME TypeOK, PutInv, NEW t \in Puts, NEW r \in Replicas
    PROVE  /\ StartPut(t) =>
                 \A s \in Puts, q \in Replicas :
                    Locking(s, q)' <=> Locking(s, q) \/ (s = t /\ q = home[t])
           /\ CommitPut(t) \/ AbortPut(t) =>
                 \A s \in Puts, q \in Replicas :
                    Locking(s, q)' <=> Locking(s, q) /\ ~(s = t /\ q = home[t])
           /\ Vote(<<t, r>>) =>
                 \A s \in Puts, q \in Replicas :
                    Locking(s, q)' <=>
                        \/ Locking(s, q)
                        \/ s = t /\ q = r /\ owner2pc[r][KeyOf[t]] = {}
           /\ ParticipantCommit(<<t, r>>) \/ ParticipantAbort(<<t, r>>) =>
                 /\ Locking(t, r)
                 /\ \A s \in Puts, q \in Replicas :
                    Locking(s, q)' <=> Locking(s, q) /\ ~(s = t /\ q = r)
<1> USE LinkParts DEF TypeOK, PutInv, PartInv
<1>1. ASSUME StartPut(t), NEW s \in Puts, NEW q \in Replicas
      PROVE  Locking(s, q)' <=> Locking(s, q) \/ (s = t /\ q = home[t])
  <2>1. PICK Q \in kSubset(WriteQuorum - 1, Accepting \ {home[t]}) :
          part' = [p \in PutLinks |->
                      IF p[1] = t /\ p[2] \in Q THEN "prepare" ELSE part[p]]
    BY <1>1 DEF StartPut
  <2>2. /\ put' = [put EXCEPT ![t] = "gathering"] /\ home' = home
        /\ put[t] = "idle" /\ Parts(t) = {}
    BY <1>1 DEF StartPut
  <2>3. part'[<<s, q>>] \in {"ready", "commit", "abort"} <=>
           part[<<s, q>>] \in {"ready", "commit", "abort"}
    BY <2>1, <2>2 DEF Parts
  <2> QED
    BY <2>2, <2>3 DEF Locking
<1>2. ASSUME CommitPut(t) \/ AbortPut(t), NEW s \in Puts, NEW q \in Replicas
      PROVE  Locking(s, q)' <=> Locking(s, q) /\ ~(s = t /\ q = home[t])
  <2>1. /\ put' = [put EXCEPT ![t] = IF CommitPut(t) THEN "done" ELSE "idle"]
        /\ home' = home /\ put[t] = "gathering"
    BY <1>2 DEF CommitPut, AbortPut
  <2>2. part'[<<s, q>>] \in {"ready", "commit", "abort"} <=>
           part[<<s, q>>] \in {"ready", "commit", "abort"}
    BY <1>2 DEF CommitPut, AbortPut, Parts
  <2>3. part[<<t, home[t]>>] = "unused"
    BY PlacementAssumption
  <2> QED
    BY ZenonT(30), <2>1, <2>2, <2>3 DEF Locking
<1>3. ASSUME Vote(<<t, r>>), NEW s \in Puts, NEW q \in Replicas
      PROVE  Locking(s, q)' <=>
                \/ Locking(s, q)
                \/ s = t /\ q = r /\ owner2pc[r][KeyOf[t]] = {}
  BY <1>3 DEF Vote, Locking
<1>4. ASSUME ParticipantCommit(<<t, r>>) \/ ParticipantAbort(<<t, r>>),
             NEW s \in Puts, NEW q \in Replicas
      PROVE  /\ Locking(t, r)
             /\ Locking(s, q)' <=> Locking(s, q) /\ ~(s = t /\ q = r)
  <2>1. /\ part' = [part EXCEPT ![<<t, r>>] = "unused"]
        /\ UNCHANGED <<put, home>>
        /\ part[<<t, r>>] \in {"commit", "abort"}
    BY <1>4 DEF ParticipantCommit, ParticipantAbort
  <2>2. put[t] # "gathering"
    BY <2>1
  <2> QED
    BY <2>1, <2>2 DEF Locking
<1> QED
  BY <1>1, <1>2, <1>3, <1>4

\* Synchronisations leave the puts alone.
LEMMA StartFrame ==
    ASSUME \/ \E r \in Replicas : StartStep(r)
           \/ \E l \in SyncLinks : SyncStep(l)
           \/ UNCHANGED vars
    PROVE  UNCHANGED <<putVars, owner2pc>>
  BY DEF StartStep, Listen, StartSync, Serve, SyncStep, HandleSync, ReadForSync,
     ReceiveUpdate, vars, putVars

LEMMA LockInvStep ==
    ASSUME TypeOK, PutInv, [Next]_vars
    PROVE  LockInv'
<1> SUFFICES ASSUME NEW r \in Replicas, NEW k \in Keys
             PROVE  /\ owner2pc'[r][k] =
                          {t \in Puts : KeyOf[t] = k /\ Locking(t, r)'}
                    /\ \A s, t \in owner2pc'[r][k] : s = t
  BY DEF LockInv
<1>0. /\ owner2pc \in [Replicas -> [Keys -> SUBSET Puts]]
      /\ home \in [Puts -> Replicas]
      /\ \A q \in Replicas, j \in Keys :
            /\ owner2pc[q][j] = {t \in Puts : KeyOf[t] = j /\ Locking(t, q)}
            /\ \A s, t \in owner2pc[q][j] : s = t
  BY PlacementAssumption DEF TypeOK, PutInv, LockInv
<1>1. ASSUME NEW t \in Puts, StartPut(t)
      PROVE  /\ owner2pc'[r][k] =
                   {s \in Puts : KeyOf[s] = k /\ Locking(s, r)'}
             /\ \A s, u \in owner2pc'[r][k] : s = u
  <2>1. owner2pc' = [owner2pc EXCEPT ![home[t]][KeyOf[t]] = {t}]
    BY <1>1 DEF StartPut
  <2>2. owner2pc[home[t]][KeyOf[t]] = {}
    BY <1>1 DEF StartPut
  <2>3. \A s \in Puts :
           Locking(s, r)' <=> Locking(s, r) \/ (s = t /\ r = home[t])
    BY <1>1, LockSteps
  <2>4. CASE r = home[t] /\ k = KeyOf[t]
    <3>1. owner2pc'[r][k] = {t}
      BY <1>0, <2>1, <2>4
    <3> QED
      BY <1>0, <2>2, <2>3, <2>4, <3>1
  <2>5. CASE ~(r = home[t] /\ k = KeyOf[t])
    <3>1. owner2pc'[r][k] = owner2pc[r][k]
      BY <1>0, <2>1, <2>5
    <3> QED
      BY <1>0, <2>3, <2>5, <3>1
  <2> QED
    BY <2>4, <2>5
<1>2. ASSUME NEW t \in Puts, CommitPut(t) \/ AbortPut(t)
      PROVE  /\ owner2pc'[r][k] =
                   {s \in Puts : KeyOf[s] = k /\ Locking(s, r)'}
             /\ \A s, u \in owner2pc'[r][k] : s = u
  <2>1. Locking(t, home[t])
    BY <1>2 DEF CommitPut, AbortPut, Locking
  <2>2. owner2pc' = [owner2pc EXCEPT ![home[t]][KeyOf[t]] = {}]
    BY <1>2 DEF CommitPut, Commit, AbortPut
  <2>3. \A s \in Puts :
           Locking(s, r)' <=> Locking(s, r) /\ ~(s = t /\ r = home[t])
    <3>1. \A s \in Puts, q \in Replicas :
             Locking(s, q)' <=> Locking(s, q) /\ ~(s = t /\ q = home[t])
      BY <1>2, LockSteps, Zenon
    <3> QED
      BY <3>1
  <2>4. CASE r = home[t] /\ k = KeyOf[t]
    <3>1. owner2pc'[r][k] = {} /\ t \in owner2pc[r][k]
      BY <1>0, <2>1, <2>2, <2>4
    <3> QED
      BY <1>0, <2>3, <2>4, <3>1
  <2>5. CASE ~(r = home[t] /\ k = KeyOf[t])
    <3>1. owner2pc'[r][k] = owner2pc[r][k]
      BY <1>0, <2>2, <2>5
    <3> QED
      BY <1>0, <2>3, <2>5, <3>1
  <2> QED
    BY <2>4, <2>5
<1>3. ASSUME NEW p \in PutLinks, Vote(p)
      PROVE  /\ owner2pc'[r][k] =
                   {s \in Puts : KeyOf[s] = k /\ Locking(s, r)'}
             /\ \A s, u \in owner2pc'[r][k] : s = u
  <2>1. PICK t \in Puts, q \in Replicas : p = <<t, q>>
    BY LinkParts
  <2>2. owner2pc' = [owner2pc EXCEPT
                        ![q][KeyOf[t]] = IF owner2pc[q][KeyOf[t]] = {}
                                         THEN {t} ELSE owner2pc[q][KeyOf[t]]]
    BY <1>0, <1>3, <2>1, LinkParts DEF Vote
  <2> QED
    BY <1>0, <1>3, <2>1, <2>2, LockSteps, LinkParts
<1>4. ASSUME NEW p \in PutLinks, ParticipantCommit(p) \/ ParticipantAbort(p)
      PROVE  /\ owner2pc'[r][k] =
                   {s \in Puts : KeyOf[s] = k /\ Locking(s, r)'}
             /\ \A s, u \in owner2pc'[r][k] : s = u
  <2>1. PICK t \in Puts, q \in Replicas : p = <<t, q>>
    BY LinkParts
  <2>2. owner2pc' = [owner2pc EXCEPT ![q][KeyOf[t]] = {}]
    BY <1>4, <2>1 DEF ParticipantCommit, Commit, ParticipantAbort
  <2> QED
    BY <1>0, <1>4, <2>1, <2>2, LockSteps, LinkParts
<1>5. CASE UNCHANGED <<putVars, owner2pc>>
  <2>1. \A t \in Puts : Locking(t, r)' <=> Locking(t, r)
    BY <1>5 DEF Locking, putVars
  <2> QED
    BY <1>0, <1>5, <2>1
<1> QED
  BY <1>1, <1>2, <1>3, <1>4, <1>5, StartFrame DEF Next, PutStep, PartStep

LEMMA PartInvStep ==
    ASSUME TypeOK, PutInv, [Next]_vars
    PROVE  PartInv'
<1> SUFFICES ASSUME NEW p \in PutLinks
             PROVE  /\ part'[p] # "unused" => p[2] # home'[p[1]]
                    /\ part'[p] \in {"prepare", "ready", "refused"}
                          => put'[p[1]] = "gathering"
                    /\ part'[p] = "commit" => put'[p[1]] = "done"
                    /\ part'[p] = "abort" => put'[p[1]] = "idle"
  BY DEF PartInv
<1> DEFINE Good(s, r, t) ==
              /\ s # "unused" => p[2] # r
              /\ s \in {"prepare", "ready", "refused"} => t = "gathering"
              /\ s = "commit" => t = "done"
              /\ s = "abort" => t = "idle"
<1>0. Good(part[p], home[p[1]], put[p[1]]) /\ p[1] \in Puts
  BY LinkParts DEF PutInv, PartInv
<1> SUFFICES Good(part'[p], home'[p[1]], put'[p[1]])
  OBVIOUS
<1> USE DEF TypeOK
<1>1. ASSUME NEW t \in Puts, StartPut(t)
      PROVE  Good(part'[p], home'[p[1]], put'[p[1]])
  <2>1. PICK Q \in kSubset(WriteQuorum - 1, Accepting \ {home[t]}) :
          part' = [q \in PutLinks |->
                      IF q[1] = t /\ q[2] \in Q THEN "prepare" ELSE part[q]]
    BY <1>1 DEF StartPut
  <2>2. /\ put' = [put EXCEPT ![t] = "gathering"] /\ home' = home
        /\ put[t] = "idle" /\ Parts(t) = {}
    BY <1>1 DEF StartPut
  <2>3. p[1] = t => part[p] = "unused"
    BY <2>2 DEF Parts
  <2>4. p[1] = t /\ p[2] \in Q => p[2] # home[t]
    BY DEF kSubset
  <2> QED
    BY <1>0, <2>1, <2>2, <2>3, <2>4
<1>2. ASSUME NEW t \in Puts, CommitPut(t)
      PROVE  Good(part'[p], home'[p[1]], put'[p[1]])
  BY <1>0, <1>2 DEF CommitPut, Parts
<1>3. ASSUME NEW t \in Puts, AbortPut(t)
      PROVE  Good(part'[p], home'[p[1]], put'[p[1]])
  BY <1>0, <1>3 DEF AbortPut, Parts
<1>4. ASSUME NEW q \in PutLinks, PartStep(q)
      PROVE  Good(part'[p], home'[p[1]], put'[p[1]])
  BY <1>0, <1>4 DEF PartStep, Vote, ParticipantCommit, ParticipantAbort
<1>5. CASE UNCHANGED <<putVars, owner2pc>>
  BY <1>0, <1>5 DEF putVars
<1> QED
  BY <1>1, <1>2, <1>3, <1>4, <1>5, StartFrame DEF Next, PutStep

\* The quorum of a put is the same until it is decided.
LEMMA VotersStay ==
    ASSUME TypeOK, PutInv, [Next]_vars, NEW t \in Puts,
           put[t] = "gathering", put'[t] = "gathering"
    PROVE  Voters(t)' = Voters(t)
<1> SUFFICES home' = home /\ Parts(t)' = Parts(t)
  BY DEF Voters
<1> SUFFICES /\ home' = home
             /\ \A p \in PutLinks :
                   p[1] = t => (part'[p] # "unused" <=> part[p] # "unused")
  BY DEF Parts
<1> USE DEF TypeOK
<1>1. ASSUME NEW u \in Puts, StartPut(u) \/ PutStep(u)
      PROVE  /\ home' = home
             /\ \A p \in PutLinks : p[1] = t => part'[p] = part[p]
  <2>1. u # t
    BY <1>1 DEF StartPut, PutStep, CommitPut, AbortPut
  <2>2. CASE StartPut(u)
    BY <2>1, <2>2 DEF StartPut
  <2>3. CASE PutStep(u)
    BY <2>1, <2>3 DEF PutStep, CommitPut, AbortPut, Parts
  <2> QED
    BY <1>1, <2>2, <2>3
<1>2. ASSUME NEW q \in PutLinks, PartStep(q)
      PROVE  /\ home' = home
             /\ \A p \in PutLinks :
                   p[1] = t => (part'[p] # "unused" <=> part[p] # "unused")
  <2>1. CASE Vote(q)
    BY <2>1 DEF Vote
  <2>2. CASE ParticipantCommit(q) \/ ParticipantAbort(q)
    <3>1. q[1] # t
      BY <2>2 DEF ParticipantCommit, ParticipantAbort, PutInv, PartInv
    <3> QED
      BY <2>2, <3>1 DEF ParticipantCommit, ParticipantAbort
  <2> QED
    BY <1>2, <2>1, <2>2 DEF PartStep
<1>3. CASE UNCHANGED <<putVars, owner2pc>>
  BY <1>3 DEF putVars
<1> QED
  BY <1>1, <1>2, <1>3, StartFrame DEF Next

LEMMA QuorumInvStep ==
    ASSUME TypeOK, PutInv, [Next]_vars
    PROVE  QuorumInv'
<1> SUFFICES ASSUME NEW t \in Puts, put'[t] = "gathering"
             PROVE  Cardinality(Voters(t)') = WriteQuorum
  BY DEF QuorumInv
<1>1. CASE put[t] = "gathering"
  BY <1>1, VotersStay DEF PutInv, QuorumInv
<1>2. CASE put[t] # "gathering"
  <2>1. StartPut(t)
    <3>1. ~ UNCHANGED put
      BY <1>2
    <3>2. PICK u \in Puts : StartPut(u) \/ PutStep(u)
      BY <3>1, StartFrame DEF Next, putVars, PartStep, Vote, ParticipantCommit,
         ParticipantAbort
    <3>3. ~ PutStep(u)
      BY <1>2 DEF PutStep, CommitPut, AbortPut, TypeOK
    <3>4. put' = [put EXCEPT ![u] = "gathering"] /\ DOMAIN put = Puts
      BY <3>2, <3>3 DEF StartPut, TypeOK
    <3>5. u = t
      BY <1>2, <3>4
    <3> QED
      BY <3>2, <3>3, <3>5
  <2>2. PICK Q \in kSubset(WriteQuorum - 1, Accepting \ {home[t]}) :
          part' = [p \in PutLinks |->
                      IF p[1] = t /\ p[2] \in Q THEN "prepare" ELSE part[p]]
    BY <2>1 DEF StartPut
  <2>3. /\ Q \subseteq Replicas /\ home[t] \notin Q
        /\ Cardinality(Q) = WriteQuorum - 1
    BY <2>2 DEF kSubset, Accepting
  <2>4. Voters(t)' = {home[t]} \cup Q
    <3>1. /\ home' = home
          /\ \A p \in PutLinks : p[1] = t => part[p] = "unused"
      BY <2>1 DEF StartPut, Parts
    <3>2. \A r \in Replicas : <<t, r>> \in Parts(t)' <=> r \in Q
      BY <2>2, <3>1, LinkParts DEF Parts
    <3>3. \A p \in Parts(t)' : p = <<t, p[2]>> /\ p[2] \in Replicas
      BY LinkParts DEF Parts
    <3>4. {p[2] : p \in Parts(t)'} = Q
      BY <2>3, <3>2, <3>3
    <3> QED
      BY <3>1, <3>4 DEF Voters
  <2>5. IsFiniteSet(Q)
    BY <2>3, ReplicasFinite, FS_Subset
  <2>6. Cardinality(Q \cup {home[t]}) = Cardinality(Q) + 1
    BY <2>3, <2>5, FS_AddElement
  <2>7. Q \cup {home[t]} = {home[t]} \cup Q
    OBVIOUS
  <2> QED
    BY <2>3, <2>4, <2>6, <2>7, ReplicasAssumption
<1> QED
  BY <1>1, <1>2

\* A replica that serves goes on serving.
LEMMA ServingStays ==
    ASSUME TypeOK, [Next]_vars, NEW r \in Replicas, stage[r] = "serving"
    PROVE  stage'[r] = "serving"
  BY DEF Next, StartStep, Listen, StartSync, Serve, SyncStep, HandleSync,
     ReadForSync, ReceiveUpdate, StartPut, PutStep, CommitPut, AbortPut,
     PartStep, Vote, ParticipantCommit, ParticipantAbort, startVars, vars, TypeOK

LEMMA ServingInvStep ==
    ASSUME TypeOK, PutInv, [Next]_vars
    PROVE  ServingInv'
<1>1. ASSUME NEW r \in Replicas, NEW t \in Puts, Locking(t, r)'
      PROVE  stage'[r] = "serving"
  <2>1. CASE Locking(t, r)
    BY <2>1, ServingStays DEF PutInv, ServingInv
  <2>2. CASE ~Locking(t, r)
    <3>1. CASE \E u \in Puts : StartPut(u)
      <4>1. PICK u \in Puts : StartPut(u)
        BY <3>1
      <4>2. \A s \in Puts, q \in Replicas :
               Locking(s, q)' <=> Locking(s, q) \/ (s = u /\ q = home[u])
        BY <4>1, LockSteps, Zenon
      <4> QED
        BY <1>1, <2>2, <4>1, <4>2, ServingStays DEF StartPut
    <3>2. CASE \E u \in Puts : PutStep(u)
      <4>1. PICK u \in Puts : CommitPut(u) \/ AbortPut(u)
        BY <3>2 DEF PutStep
      <4>2. \A s \in Puts, q \in Replicas :
               Locking(s, q)' <=> Locking(s, q) /\ ~(s = u /\ q = home[u])
        BY <4>1, LockSteps, Zenon
      <4> QED
        BY <1>1, <2>2, <4>2
    <3>3. CASE \E p \in PutLinks : Vote(p)
      <4>1. PICK u \in Puts, q \in Replicas : Vote(<<u, q>>)
        BY <3>3, LinkParts
      <4>2. t = u /\ r = q
        BY <1>1, <2>2, <4>1, LockSteps
      <4> QED
        BY <4>1, <4>2, ServingStays DEF Vote
    <3>4. CASE \E p \in PutLinks : ParticipantCommit(p) \/ ParticipantAbort(p)
      <4>1. PICK u \in Puts, q \in Replicas :
               ParticipantCommit(<<u, q>>) \/ ParticipantAbort(<<u, q>>)
        BY <3>4, LinkParts
      <4> QED
        BY <1>1, <2>2, <4>1, LockSteps
    <3>5. CASE UNCHANGED <<putVars, owner2pc>>
      BY <1>1, <2>2, <3>5 DEF Locking, putVars
    <3> QED
      BY <3>1, <3>2, <3>3, <3>4, <3>5, StartFrame DEF Next, PartStep
  <2> QED
    BY <2>1, <2>2
<1>2. ASSUME NEW l \in SyncLinks, stage'[l[1]] = "serving"
      PROVE  sync'[l] \in {"unused", "closed"}
  <2>0. l[1] \in Replicas
    BY LinkParts
  <2> USE DEF TypeOK
  <2>1. ASSUME NEW r \in Replicas, StartSync(r)
        PROVE  sync'[l] \in {"unused", "closed"}
    <3>1. l[1] # r
      BY <1>2, <2>1 DEF StartSync
    <3> QED
      BY <1>2, <2>0, <2>1, <3>1 DEF StartSync, PutInv, ServingInv
  <2>2. ASSUME NEW r \in Replicas, Listen(r) \/ Serve(r)
        PROVE  sync'[l] \in {"unused", "closed"}
    BY <1>2, <2>0, <2>2 DEF Listen, Serve, PutInv, ServingInv
  <2>3. ASSUME NEW m \in SyncLinks, SyncStep(m)
        PROVE  sync'[l] \in {"unused", "closed"}
    BY <1>2, <2>0, <2>3 DEF SyncStep, HandleSync, ReadForSync, ReceiveUpdate,
       PutInv, ServingInv
  <2>4. CASE UNCHANGED startVars
    BY <1>2, <2>4 DEF startVars, PutInv, ServingInv
  <2> QED
    BY <2>1, <2>2, <2>3, <2>4 DEF Next, StartStep, StartPut, PutStep, CommitPut,
       AbortPut, PartStep, Vote, ParticipantCommit, ParticipantAbort, vars
<1> QED
  BY <1>1, <1>2 DEF ServingInv

LEMMA PutInvStep == TypeOK /\ PutInv /\ [Next]_vars => PutInv'
  BY LockInvStep, PartInvStep, QuorumInvStep, ServingInvStep DEF PutInv
-----------------------------------------------------------------------------
(* Versions.                                                               *)

\* A decided put has a version; one that has still to be committed somewhere
\* has a higher one than the datastore there.
VersionInv ==
    /\ \A t \in Puts : put[t] = "done" => version[t] >= 1
    /\ \A p \in PutLinks :
          part[p] = "commit" => store[p[2]][KeyOf[p[1]]].ver < version[p[1]]

\* An entry that is not there has version 0, and what is read for an UPDATE was
\* there.
ValueInv ==
    /\ \A r \in Replicas, k \in Keys :
          IsPresent(store[r][k]) \/ store[r][k] = Absent
    /\ \A l \in SyncLinks, k \in Keys :
          /\ IsPresent(answer[l][k]) => answer[l][k].ver >= 1
          /\ sync[l] = "reading" /\ k \in missing[l] =>
                store[l[2]][k].ver >= 1

SyncInv == TypeOK /\ PutInv /\ VersionInv /\ ValueInv

\* The three ways an entry changes: the commit of a put where its client is
\* connected, the one at a participant, and an UPDATE that brings it.
Decides(r, k) ==
    \E t \in Puts : /\ CommitPut(t) /\ r = home[t] /\ k = KeyOf[t]
                    /\ store'[r][k] = Entry(t, NextVersion(t))

Follows(r, k) ==
    \E p \in PutLinks : /\ ParticipantCommit(p) /\ r = p[2] /\ k = KeyOf[p[1]]
                        /\ store'[r][k] = Entry(p[1], version[p[1]])

Learns(r, k) ==
    \E l \in SyncLinks : /\ ReceiveUpdate(l) /\ r = l[1]
                         /\ ~IsPresent(store[r][k])
                         /\ IsPresent(answer[l][k])
                         /\ store'[r][k] = answer[l][k]

LEMMA EntryChanges ==
    ASSUME SyncInv, [Next]_vars, NEW r \in Replicas, NEW k \in Keys,
           store'[r][k] # store[r][k]
    PROVE  Decides(r, k) \/ Follows(r, k) \/ Learns(r, k)
<1>0. TypeOK /\ store \in [Replicas -> [Keys -> Entries(Puts \cup Data)]]
  BY DEF SyncInv, TypeOK, Stores
<1>1. ASSUME NEW t \in Puts, CommitPut(t) PROVE Decides(r, k)
  <2> DEFINE e == store[home[t]][KeyOf[t]]
             n == NextVersion(t)
  <2>1. store' = [store EXCEPT
                     ![home[t]][KeyOf[t]] = CommitEntry(e, Entry(t, n))]
    BY <1>0, <1>1 DEF CommitPut, Commit, TypeOK
  <2>2. r = home[t] /\ k = KeyOf[t]
    BY <1>0, <2>1
  <2>3. e.ver < n /\ e.ver \in Nat /\ n \in Nat
    BY <1>0, <2>2, NextVersionAbove, StoreTypes DEF Voters, TypeOK
  <2>4. CommitEntry(e, Entry(t, n)) = Entry(t, n)
    BY <2>3 DEF CommitEntry, Entry
  <2>5. store'[r][k] = Entry(t, n)
    BY <1>0, <2>1, <2>2, <2>4
  <2> QED
    BY <1>1, <2>2, <2>5 DEF Decides
<1>2. ASSUME NEW p \in PutLinks, ParticipantCommit(p) PROVE Follows(r, k)
  <2> DEFINE e == store[p[2]][KeyOf[p[1]]]
             n == version[p[1]]
  <2>1. store' = [store EXCEPT
                     ![p[2]][KeyOf[p[1]]] = CommitEntry(e, Entry(p[1], n))]
    BY <1>0, <1>2 DEF ParticipantCommit, Commit
  <2>2. r = p[2] /\ k = KeyOf[p[1]]
    BY <1>0, <2>1
  <2>3. e.ver < n /\ e.ver \in Nat /\ n \in Nat
    BY <1>0, <1>2, <2>2, LinkParts, StoreTypes
    DEF SyncInv, VersionInv, ParticipantCommit, TypeOK
  <2>4. CommitEntry(e, Entry(p[1], n)) = Entry(p[1], n)
    BY <2>3 DEF CommitEntry, Entry
  <2>5. store'[r][k] = Entry(p[1], n)
    BY <1>0, <2>1, <2>2, <2>4
  <2> QED
    BY <1>2, <2>2, <2>5 DEF Follows
<1>3. ASSUME NEW l \in SyncLinks, ReceiveUpdate(l) PROVE Learns(r, k)
  <2>1. r = l[1]
    BY <1>0, <1>3 DEF ReceiveUpdate
  <2>2. store'[r][k] = IF IsPresent(answer[l][k])
                       THEN TryUpdateEntry(store[r][k], answer[l][k])
                       ELSE store[r][k]
    BY <1>0, <1>3, <2>1 DEF ReceiveUpdate
  <2> QED
    BY <1>3, <2>1, <2>2 DEF Learns, TryUpdateEntry
<1> QED
  BY <1>1, <1>2, <1>3 DEF Next, StartStep, Listen, StartSync, Serve, SyncStep,
     HandleSync, ReadForSync, StartPut, PutStep, AbortPut, PartStep, Vote,
     ParticipantAbort, vars

\* No entry goes back, or changes the value of a version.
LEMMA EntriesGrow ==
    ASSUME SyncInv, [Next]_vars, NEW r \in Replicas, NEW k \in Keys
    PROVE  /\ store[r][k].ver \in Nat /\ store'[r][k].ver \in Nat
           /\ \/ store'[r][k] = store[r][k]
              \/ store'[r][k].ver > store[r][k].ver
           /\ IsPresent(store[r][k]) => IsPresent(store'[r][k])
<1>0. TypeOK /\ TypeOK'
  BY TypeOKStep DEF SyncInv
<1>1. store[r][k].ver \in Nat /\ store'[r][k].ver \in Nat
  BY <1>0, StoreTypes DEF TypeOK
<1>2. \A t \in Puts : t # NoValue
  BY DataAssumption
<1>3. CASE Decides(r, k)
  <2>1. PICK t \in Puts : /\ r = home[t] /\ k = KeyOf[t]
                          /\ store'[r][k] = Entry(t, NextVersion(t))
    BY <1>3 DEF Decides
  <2>2. store[r][k].ver < NextVersion(t)
    BY <1>0, <2>1, NextVersionAbove DEF Voters
  <2>3. store'[r][k].ver = NextVersion(t) /\ store'[r][k].val = t
    BY <2>1 DEF Entry
  <2> QED
    BY <1>1, <1>2, <2>2, <2>3 DEF IsPresent
<1>4. CASE Follows(r, k)
  <2>1. PICK p \in PutLinks : /\ ParticipantCommit(p) /\ r = p[2] /\ k = KeyOf[p[1]]
                              /\ store'[r][k] = Entry(p[1], version[p[1]])
    BY <1>4 DEF Follows
  <2>2. store[r][k].ver < version[p[1]]
    BY <2>1 DEF SyncInv, VersionInv, ParticipantCommit
  <2>3. store'[r][k].ver = version[p[1]] /\ store'[r][k].val = p[1]
    BY <2>1 DEF Entry
  <2> QED
    BY <1>1, <1>2, <2>2, <2>3, LinkParts DEF IsPresent
<1>5. CASE Learns(r, k)
  <2>1. PICK l \in SyncLinks : /\ ~IsPresent(store[r][k])
                               /\ IsPresent(answer[l][k])
                               /\ store'[r][k] = answer[l][k]
    BY <1>5 DEF Learns
  <2>2. store[r][k].ver = 0 /\ store'[r][k].ver >= 1
    BY <2>1 DEF SyncInv, ValueInv, Absent, Entry
  <2> QED
    BY <1>1, <2>1, <2>2
<1> QED
  BY <1>1, <1>3, <1>4, <1>5, EntryChanges
\* One put has the lock of a key at a replica.
LEMMA OnePutLocks ==
    ASSUME SyncInv, NEW r \in Replicas, NEW s \in Puts, NEW t \in Puts,
           KeyOf[s] = KeyOf[t], Locking(s, r), Locking(t, r)
    PROVE  s = t
<1>1. /\ owner2pc[r][KeyOf[t]] = {u \in Puts : KeyOf[u] = KeyOf[t] /\ Locking(u, r)}
      /\ \A u, v \in owner2pc[r][KeyOf[t]] : u = v
  BY LinkParts DEF SyncInv, PutInv, LockInv
<1> QED
  BY <1>1

\* Puts are decided by CommitPut alone, and for good.
LEMMA Decisions ==
    ASSUME TypeOK, [Next]_vars
    PROVE  \/ \E t \in Puts : CommitPut(t)
           \/ /\ version' = version
              /\ \A t \in Puts : put'[t] = "done" <=> put[t] = "done"
              /\ \A p \in PutLinks : part'[p] = "commit" => part[p] = "commit"
<1> DEFINE Still == /\ version' = version
                    /\ \A t \in Puts : put'[t] = "done" <=> put[t] = "done"
                    /\ \A p \in PutLinks : part'[p] = "commit" => part[p] = "commit"
<1> USE DEF TypeOK
<1>1. ASSUME NEW t \in Puts, StartPut(t) PROVE Still
  BY <1>1 DEF StartPut
<1>2. ASSUME NEW t \in Puts, AbortPut(t) PROVE Still
  BY <1>2 DEF AbortPut
<1>3. ASSUME NEW p \in PutLinks, PartStep(p) PROVE Still
  BY <1>3 DEF PartStep, Vote, ParticipantCommit, ParticipantAbort
<1>4. CASE UNCHANGED <<putVars, owner2pc>>
  BY <1>4 DEF putVars
<1> QED
  BY <1>1, <1>2, <1>3, <1>4, StartFrame DEF Next, PutStep

LEMMA DecisionsStand ==
    ASSUME TypeOK, [Next]_vars, NEW t \in Puts, put[t] = "done"
    PROVE  put'[t] = "done" /\ version'[t] = version[t]
<1>1. ASSUME NEW u \in Puts, CommitPut(u)
      PROVE  put'[t] = "done" /\ version'[t] = version[t]
  BY <1>1 DEF CommitPut, TypeOK
<1> QED
  BY <1>1, Decisions

LEMMA VersionInvStep ==
    ASSUME SyncInv, [Next]_vars
    PROVE  VersionInv'
<1>0. TypeOK /\ PutInv /\ VersionInv
  BY DEF SyncInv
<1>1. ASSUME NEW t \in Puts, put'[t] = "done" PROVE version'[t] >= 1
  <2>1. CASE \E u \in Puts : CommitPut(u)
    <3>1. PICK u \in Puts : CommitPut(u)
      BY <2>1
    <3>2. /\ put' = [put EXCEPT ![u] = "done"]
          /\ version' = [version EXCEPT ![u] = NextVersion(u)]
      BY <3>1 DEF CommitPut
    <3> QED
      BY <1>0, <1>1, <3>2, NextVersionAbove DEF TypeOK, VersionInv
  <2>2. CASE ~ \E u \in Puts : CommitPut(u)
    <3>1. put[t] = "done" /\ version' = version
      BY <1>0, <1>1, <2>2, Decisions
    <3> QED
      BY <1>0, <3>1 DEF VersionInv
  <2> QED
    BY <2>1, <2>2
<1>2. ASSUME NEW p \in PutLinks, part'[p] = "commit"
      PROVE  store'[p[2]][KeyOf[p[1]]].ver < version'[p[1]]
  <2> DEFINE r == p[2]
             k == KeyOf[p[1]]
  <2>0. r \in Replicas /\ k \in Keys /\ p[1] \in Puts /\ p = <<p[1], r>>
    BY LinkParts
  <2>1. CASE part[p] = "commit"
    <3>1. /\ store[r][k].ver < version[p[1]]
          /\ put[p[1]] = "done" /\ Locking(p[1], r)
      BY <1>0, <2>0, <2>1 DEF VersionInv, PutInv, PartInv, Locking
    <3>2. version'[p[1]] = version[p[1]]
      BY <1>0, <2>0, <3>1, DecisionsStand
    <3>3. store'[r][k] = store[r][k]
      <4>1. ~Decides(r, k)
        <5> SUFFICES ASSUME NEW t \in Puts, CommitPut(t), r = home[t], k = KeyOf[t]
                     PROVE FALSE
          BY DEF Decides
        <5>1. Locking(t, r) /\ t # p[1]
          BY <3>1 DEF CommitPut, Locking
        <5> QED
          BY <2>0, <3>1, <5>1, OnePutLocks
      <4>2. ~Follows(r, k)
        <5> SUFFICES ASSUME NEW q \in PutLinks, ParticipantCommit(q), r = q[2],
                            k = KeyOf[q[1]]
                     PROVE FALSE
          BY DEF Follows
        <5>1. q[1] \in Puts /\ q = <<q[1], r>> /\ part[q] = "commit"
          BY LinkParts DEF ParticipantCommit
        <5>2. Locking(q[1], r)
          BY <5>1 DEF Locking
        <5>3. q = p
          BY <2>0, <3>1, <5>1, <5>2, OnePutLocks
        <5> QED
          BY <1>0, <1>2, <5>3 DEF ParticipantCommit, TypeOK
      <4>3. ~Learns(r, k)
        <5>1. stage[r] = "serving"
          BY <1>0, <2>0, <3>1 DEF PutInv, ServingInv
        <5> QED
          BY <1>0, <5>1 DEF Learns, ReceiveUpdate, PutInv, ServingInv
      <4> QED
        BY <2>0, <4>1, <4>2, <4>3, EntryChanges
    <3> QED
      BY <3>1, <3>2, <3>3
  <2>2. CASE part[p] # "commit"
    <3>1. PICK t \in Puts : CommitPut(t)
      BY <1>0, <1>2, <2>2, Decisions
    <3>2. p \in Parts(t)
      BY <1>2, <2>2, <3>1 DEF CommitPut
    <3>3. p[1] = t /\ r # home[t] /\ r \in Voters(t)
      BY <1>0, <3>2 DEF Parts, Voters, PutInv, PartInv
    <3>4. store'[r][k] = store[r][k]
      BY <1>0, <2>0, <3>1, <3>3 DEF CommitPut, Commit, TypeOK, Stores
    <3>5. version'[t] = NextVersion(t)
      BY <1>0, <3>1 DEF CommitPut, TypeOK
    <3> QED
      BY <1>0, <3>3, <3>4, <3>5, NextVersionAbove
  <2> QED
    BY <2>1, <2>2
<1> QED
  BY <1>1, <1>2 DEF VersionInv

LEMMA ValueInvStep ==
    ASSUME SyncInv, [Next]_vars
    PROVE  ValueInv'
<1>0. TypeOK /\ ValueInv
  BY DEF SyncInv
<1>1. ASSUME NEW r \in Replicas, NEW k \in Keys
      PROVE  IsPresent(store'[r][k]) \/ store'[r][k] = Absent
  <2>1. CASE store'[r][k] = store[r][k]
    BY <1>0, <2>1 DEF ValueInv
  <2>2. CASE store'[r][k] # store[r][k]
    <3>1. \A t \in Puts, n \in Nat : IsPresent(Entry(t, n))
      BY DataAssumption DEF IsPresent, Entry
    <3>2. Decides(r, k) => IsPresent(store'[r][k])
      BY <1>0, <3>1, NextVersionAbove DEF Decides
    <3>3. Follows(r, k) => IsPresent(store'[r][k])
      BY <1>0, <3>1, LinkParts DEF Follows, TypeOK
    <3>4. Learns(r, k) => IsPresent(store'[r][k])
      BY DEF Learns
    <3> QED
      BY <2>2, <3>2, <3>3, <3>4, EntryChanges
  <2> QED
    BY <2>1, <2>2
<1>2. ASSUME NEW l \in SyncLinks, NEW k \in Keys
      PROVE  /\ IsPresent(answer'[l][k]) => answer'[l][k].ver >= 1
             /\ sync'[l] = "reading" /\ k \in missing'[l] =>
                   store'[l[2]][k].ver >= 1
  <2>0. /\ l[2] \in Replicas
        /\ IsPresent(answer[l][k]) => answer[l][k].ver >= 1
        /\ sync[l] = "reading" /\ k \in missing[l] => store[l[2]][k].ver >= 1
    BY <1>0, LinkParts DEF ValueInv
  <2>1. store[l[2]][k].ver \in Nat /\ store'[l[2]][k].ver \in Nat
        /\ store'[l[2]][k].ver >= store[l[2]][k].ver
    BY <2>0, EntriesGrow
  <2>2. ASSUME NEW r \in Replicas, StartSync(r)
        PROVE  /\ answer'[l][k] = answer[l][k] /\ missing' = missing
               /\ sync'[l] = "reading" => sync[l] = "reading"
    BY <1>0, <2>2 DEF StartSync, TypeOK
  <2>3. ASSUME NEW m \in SyncLinks, HandleSync(m)
        PROVE  /\ answer' = answer
               /\ sync'[l] = "reading" /\ k \in missing'[l] =>
                     \/ sync[l] = "reading" /\ k \in missing[l]
                     \/ store[l[2]][k].ver >= 1
    <3>1. CASE m = l
      <4>1. missing'[l] = NewerHere(l[2], asked[l]) /\ answer' = answer
        BY <1>0, <2>3, <3>1 DEF HandleSync, TypeOK
      <4>2. k \in missing'[l] => asked[l][k] < store[l[2]][k].ver
        BY <4>1 DEF NewerHere
      <4>3. asked[l][k] \in Nat
        BY <1>0 DEF TypeOK
      <4> QED
        BY <2>1, <4>1, <4>2, <4>3
    <3>2. CASE m # l
      BY <1>0, <2>3, <3>2 DEF HandleSync, TypeOK
    <3> QED
      BY <3>1, <3>2
  <2>4. ASSUME NEW m \in SyncLinks, ReadForSync(m)
        PROVE  /\ answer'[l][k] = answer[l][k] \/ answer'[l][k].ver >= 1
               /\ sync' = sync /\ missing'[l] \subseteq missing[l]
    <3>1. PICK j \in missing[m] :
            /\ answer' = [answer EXCEPT ![m][j] = store[m[2]][j]]
            /\ missing' = [missing EXCEPT ![m] = @ \ {j}]
      BY <2>4 DEF ReadForSync
    <3>2. sync' = sync /\ sync[m] = "reading"
      BY <2>4 DEF ReadForSync
    <3>3. CASE m = l /\ j = k
      BY <1>0, <2>0, <3>1, <3>2, <3>3 DEF TypeOK
    <3>4. CASE ~(m = l /\ j = k)
      BY <1>0, <3>1, <3>2, <3>4 DEF TypeOK
    <3> QED
      BY <3>3, <3>4
  <2>5. ASSUME NEW m \in SyncLinks, ReceiveUpdate(m)
        PROVE  /\ answer'[l][k] = answer[l][k] \/ ~IsPresent(answer'[l][k])
               /\ missing' = missing
               /\ sync'[l] = "reading" => sync[l] = "reading"
    BY <1>0, <2>5 DEF ReceiveUpdate, TypeOK, NoEntries, Absent, Entry, IsPresent
  <2>6. CASE UNCHANGED <<sync, missing, answer>>
    BY <2>0, <2>1, <2>6
  <2>7. \/ UNCHANGED <<sync, missing, answer>>
        \/ \E r \in Replicas : StartSync(r)
        \/ \E m \in SyncLinks : HandleSync(m) \/ ReadForSync(m) \/ ReceiveUpdate(m)
    BY DEF Next, StartStep, Listen, Serve, SyncStep, StartPut, PutStep, CommitPut,
       AbortPut, PartStep, Vote, ParticipantCommit, ParticipantAbort, startVars, vars
  <2> QED
    <3>1. CASE \E r \in Replicas : StartSync(r)
      BY <2>0, <2>1, <2>2, <3>1
    <3>2. CASE \E m \in SyncLinks : HandleSync(m)
      BY <2>0, <2>1, <2>3, <3>2
    <3>3. CASE \E m \in SyncLinks : ReadForSync(m)
      BY <2>0, <2>1, <2>4, <3>3
    <3>4. CASE \E m \in SyncLinks : ReceiveUpdate(m)
      BY <2>0, <2>1, <2>5, <3>4
    <3> QED
      BY <2>6, <2>7, <3>1, <3>2, <3>3, <3>4
<1> QED
  BY <1>1, <1>2 DEF ValueInv

LEMMA SyncInvInit == Init => SyncInv
<1> SUFFICES ASSUME Init PROVE SyncInv
  OBVIOUS
<1>1. VersionInv
  BY DEF Init, VersionInv
<1>2. ValueInv
  <2>1. \A r \in Replicas, k \in Keys : IsPresent(store[r][k]) \/ store[r][k] = Absent
    BY DataAssumption DEF Init
  <2> QED
    BY <2>1 DEF Init, ValueInv, NoEntries, Absent, Entry, IsPresent
<1> QED
  BY <1>1, <1>2, TypeOKInit, PutInvInit DEF SyncInv

LEMMA SyncInvStep == SyncInv /\ [Next]_vars => SyncInv'
  BY TypeOKStep, PutInvStep, VersionInvStep, ValueInvStep DEF SyncInv

\* SyncInv, the inductive invariant: who holds which lock, which quorum a put has, and
\* which versions an answer to a SYNC can carry.
LEMMA SyncInvHolds == Spec => []SyncInv
  BY SyncInvInit, SyncInvStep, PTL DEF Spec

\* VersionsGrow: in whatever order UPDATE messages and commits reach a
\* datastore, no key of it goes back to an older version.
THEOREM StoresOnlyGrow == Spec => VersionsGrow
<1>1. SyncInv /\ [Next]_vars =>
         [\A r \in Replicas : \A k \in Keys :
             store'[r][k] # store[r][k] => store'[r][k].ver > store[r][k].ver]_vars
  BY EntriesGrow
<1> QED
  BY <1>1, SyncInvHolds, PTL DEF Spec, VersionsGrow
-----------------------------------------------------------------------------
(* What puts have agreed on.                                               *)

\* Where the put t is, or a later one, or where t is bound to be committed.
Keepers(t) ==
    {r \in Replicas :
        \/ store[r][KeyOf[t]] = Entry(t, version[t])
        \/ store[r][KeyOf[t]].ver > version[t]
        \/ part[<<t, r>>] = "commit"}

\* The replicas that keep a decided put are never fewer: its version is passed
\* only by higher ones, and a participant writes before it lets the lock go.
LEMMA KeepersStay ==
    ASSUME SyncInv, [Next]_vars, NEW t \in Puts, put[t] = "done"
    PROVE  Keepers(t) \subseteq Keepers(t)'
<1> DEFINE k == KeyOf[t]
<1>0. TypeOK /\ k \in Keys /\ version'[t] = version[t] /\ version[t] \in Nat
  BY LinkParts, DecisionsStand DEF SyncInv, TypeOK
<1>1. ASSUME NEW r \in Replicas, part[<<t, r>>] = "commit",
             part'[<<t, r>>] # "commit"
      PROVE  store'[r][k] = Entry(t, version[t])
  <2>0. <<t, r>> \in PutLinks
    BY LinkParts
  <2>1. ParticipantCommit(<<t, r>>)
    <3>1. ASSUME NEW u \in Puts, StartPut(u) \/ CommitPut(u) \/ AbortPut(u)
          PROVE  FALSE
      <4>1. CASE StartPut(u)
        BY <1>0, <1>1, <2>0, <4>1 DEF StartPut, Parts, TypeOK
      <4>2. CASE CommitPut(u)
        BY <1>0, <1>1, <2>0, <4>2 DEF CommitPut, TypeOK
      <4>3. CASE AbortPut(u)
        BY <1>0, <1>1, <2>0, <4>3 DEF AbortPut, Parts, TypeOK, SyncInv, PutInv, PartInv
      <4> QED
        BY <3>1, <4>1, <4>2, <4>3
    <3>2. ASSUME NEW p \in PutLinks, PartStep(p)
          PROVE  p = <<t, r>> /\ ParticipantCommit(p)
      BY <1>0, <1>1, <2>0, <3>2
      DEF PartStep, Vote, ParticipantCommit, ParticipantAbort, TypeOK
    <3> QED
      BY <1>1, <3>1, <3>2, StartFrame DEF Next, PutStep, putVars
  <2>2. /\ store[r][k].ver < version[t] /\ store[r][k].ver \in Nat
        /\ store' = [store EXCEPT
                        ![r][k] = CommitEntry(store[r][k], Entry(t, version[t]))]
    BY <1>0, <1>1, <2>0, <2>1, StoreTypes
    DEF ParticipantCommit, Commit, SyncInv, VersionInv, TypeOK, Stores
  <2>3. CommitEntry(store[r][k], Entry(t, version[t])) = Entry(t, version[t])
    BY <1>0, <2>2 DEF CommitEntry, Entry
  <2> QED
    BY <1>0, <2>2, <2>3 DEF TypeOK, Stores
<1>2. ASSUME NEW r \in Replicas,
             \/ store[r][k] = Entry(t, version[t])
             \/ store[r][k].ver > version[t]
      PROVE  \/ store'[r][k] = Entry(t, version[t])
             \/ store'[r][k].ver > version[t]
  <2>1. store[r][k].ver >= version[t]
    BY <1>0, <1>2, EntriesGrow DEF Entry
  <2> QED
    BY <1>0, <1>2, <2>1, EntriesGrow
<1> QED
  BY <1>0, <1>1, <1>2 DEF Keepers

\* A put is decided with the votes of a write quorum.
LEMMA VotersKeep ==
    ASSUME SyncInv, [Next]_vars, NEW t \in Puts, put[t] # "done", put'[t] = "done"
    PROVE  Voters(t) \subseteq Keepers(t)' /\ Cardinality(Voters(t)) = WriteQuorum
<1>0. TypeOK /\ KeyOf[t] \in Keys
  BY LinkParts DEF SyncInv
<1>1. CommitPut(t)
  <2>1. PICK u \in Puts : CommitPut(u)
    BY <1>0, Decisions
  <2> QED
    BY <1>0, <2>1 DEF CommitPut, TypeOK
<1>2. Cardinality(Voters(t)) = WriteQuorum
  BY <1>1 DEF CommitPut, SyncInv, PutInv, QuorumInv
<1>3. version'[t] = NextVersion(t)
  BY <1>0, <1>1 DEF CommitPut, TypeOK
<1>4. home[t] \in Keepers(t)'
  <2> DEFINE e == store[home[t]][KeyOf[t]]
  <2>1. home[t] \in Replicas
    BY <1>0, PlacementAssumption DEF TypeOK
  <2>2. store' = [store EXCEPT
                     ![home[t]][KeyOf[t]] = CommitEntry(e, Entry(t, NextVersion(t)))]
    BY <1>1, <1>3 DEF CommitPut, Commit
  <2>3. e.ver < NextVersion(t) /\ e.ver \in Nat /\ NextVersion(t) \in Nat
    BY <1>0, <2>1, NextVersionAbove, StoreTypes DEF Voters, TypeOK
  <2>4. CommitEntry(e, Entry(t, NextVersion(t))) = Entry(t, NextVersion(t))
    BY <2>3 DEF CommitEntry, Entry
  <2>5. store'[home[t]][KeyOf[t]] = Entry(t, version'[t])
    BY <1>0, <1>3, <2>1, <2>2, <2>4 DEF TypeOK, Stores
  <2> QED
    BY <2>1, <2>5 DEF Keepers
<1>5. ASSUME NEW p \in Parts(t) PROVE p[2] \in Keepers(t)'
  <2>1. p \in PutLinks /\ p = <<t, p[2]>> /\ p[2] \in Replicas
    BY LinkParts DEF Parts
  <2>2. part'[p] = "commit"
    BY <1>1, <2>1 DEF CommitPut
  <2>3. part'[<<t, p[2]>>] = "commit"
    BY <2>1, <2>2
  <2> QED
    BY <2>1, <2>3 DEF Keepers
<1> QED
  BY <1>2, <1>4, <1>5 DEF Voters

LEMMA CommitsKeptStep == SyncInv /\ CommitsKept /\ [Next]_vars => CommitsKept'
<1> SUFFICES ASSUME SyncInv, CommitsKept, [Next]_vars,
                    NEW t \in Puts, put'[t] = "done"
             PROVE  Cardinality(Keepers(t)') >= WriteQuorum
  BY DEF CommitsKept, Keepers
<1>1. /\ Keepers(t) \subseteq Replicas /\ Keepers(t)' \subseteq Replicas
      /\ IsFiniteSet(Keepers(t)')
  BY ReplicasFinite, FS_Subset DEF Keepers
<1>2. PICK K \in SUBSET Keepers(t)' : Cardinality(K) >= WriteQuorum
  <2>1. CASE put[t] = "done"
    BY <2>1, KeepersStay DEF CommitsKept, Keepers
  <2>2. CASE put[t] # "done"
    <3>1. Voters(t) \subseteq Keepers(t)' /\ Cardinality(Voters(t)) = WriteQuorum
      BY <2>2, VotersKeep
    <3> QED
      BY <3>1, ReplicasAssumption
  <2> QED
    BY <2>1, <2>2
<1>3. /\ Cardinality(K) <= Cardinality(Keepers(t)')
      /\ Cardinality(K) \in Nat /\ Cardinality(Keepers(t)') \in Nat
  BY <1>1, FS_Subset, FS_CardinalityType
<1> QED
  BY <1>2, <1>3, ReplicasAssumption

\* CommitsKept: an acknowledged put, or a later one of its key, is at a write
\* quorum or bound to be committed there, whichever replicas start meanwhile.
THEOREM AcknowledgedIsKept == Spec => []CommitsKept
<1>1. Init => CommitsKept
  BY DEF Init, CommitsKept
<1> QED
  BY <1>1, CommitsKeptStep, SyncInvHolds, PTL DEF Spec
-----------------------------------------------------------------------------
(* What a replica learns when it starts.                                   *)

\* The versions in the files were given by puts: Coordinator::put counts from
\* 1.
FilesCommitted ==
    \A s \in InitialStores : \A r \in Replicas, k \in Keys :
        IsPresent(s[r][k]) => s[r][k].ver >= 1

PresentInv ==
    \A r \in Replicas, k \in Keys : IsPresent(store[r][k]) => store[r][k].ver >= 1

\* Link l will bring the key k: its SYNC says that the key is not there, and the
\* replica that is asked has it; or the key is read or about to be read.
Brings(l, k) ==
    \/ sync[l] = "sync" /\ asked[l][k] = 0 /\ store[l[2]][k].ver >= 1
    \/ sync[l] = "reading" /\ (k \in missing[l] \/ IsPresent(answer[l][k]))

OwedInv ==
    \A r \in Replicas : \A k \in owed[r] :
        /\ stage[r] \in {"synchronizing", "serving"}
        /\ \/ IsPresent(store[r][k])
           \/ \E l \in SyncLinks : l[1] = r /\ Brings(l, k)

LEMMA PresentInvStep == SyncInv /\ PresentInv /\ [Next]_vars => PresentInv'
<1> SUFFICES ASSUME SyncInv, PresentInv, [Next]_vars,
                    NEW r \in Replicas, NEW k \in Keys, IsPresent(store'[r][k])
             PROVE  store'[r][k].ver >= 1
  BY DEF PresentInv
<1>1. CASE store'[r][k] = store[r][k]
  BY <1>1 DEF PresentInv
<1>2. CASE store'[r][k].ver > store[r][k].ver
  BY <1>2, EntriesGrow
<1> QED
  BY <1>1, <1>2, EntriesGrow

\* Of the N - 1 other replicas all but one are asked, and at least two of them
\* have a key that a write quorum has and r has not.
LEMMA AskedHolds ==
    ASSUME TypeOK, NEW r \in Replicas, NEW k \in QuorumKeys,
           ~IsPresent(store[r][k]), AmountToAsk(r) = N - 2,
           NEW Q \in kSubset(AmountToAsk(r), Accepting \ {r})
    PROVE  \E q \in Q : IsPresent(store[q][k])
<1> DEFINE H == {q \in Replicas : IsPresent(store[q][k])}
<1>1. /\ H \subseteq Replicas \ {r} /\ Q \subseteq Replicas \ {r}
      /\ Cardinality(H) >= WriteQuorum /\ Cardinality(Q) = N - 2
  BY DEF QuorumKeys, kSubset, Accepting
<1>2. /\ IsFiniteSet(Replicas \ {r}) /\ IsFiniteSet(H) /\ IsFiniteSet(Q)
      /\ Cardinality(Replicas \ {r}) = N - 1
  BY <1>1, ReplicasFinite, FS_RemoveElement, FS_Subset
<1>3. CASE H \cap Q = {}
  <2>1. /\ IsFiniteSet(H \cup Q)
        /\ Cardinality(H \cup Q) = Cardinality(H) + Cardinality(Q)
               - Cardinality(H \cap Q)
        /\ Cardinality(H \cap Q) = 0
    BY <1>2, <1>3, FS_Union, FS_EmptySet
  <2>2. Cardinality(H \cup Q) <= N - 1
    BY <1>1, <1>2, FS_Subset
  <2>3. Cardinality(H) \in Nat /\ Cardinality(Q) \in Nat
    BY <1>2, FS_CardinalityType
  <2> QED
    BY <1>1, <2>1, <2>2, <2>3, ReplicasAssumption
<1> QED
  BY <1>3

LEMMA OwedInvStep ==
    ASSUME SyncInv, PresentInv, OwedInv, [Next]_vars
    PROVE  OwedInv'
<1>0. TypeOK /\ PutInv /\ ValueInv
  BY DEF SyncInv
<1>1. ASSUME NEW r \in Replicas, StartSync(r)
      PROVE  OwedInv'
  <2>1. PICK Q \in kSubset(AmountToAsk(r), Accepting \ {r}) :
          /\ sync' = [l \in SyncLinks |->
                         IF l[1] = r /\ l[2] \in Q THEN "sync" ELSE sync[l]]
          /\ asked' = [l \in SyncLinks |->
                          IF l[1] = r /\ l[2] \in Q
                          THEN [k \in Keys |-> store[r][k].ver] ELSE asked[l]]
    BY <1>1 DEF StartSync
  <2>2. /\ stage' = [stage EXCEPT ![r] = "synchronizing"]
        /\ owed' = [owed EXCEPT ![r] =
                       IF AmountToAsk(r) = N - 2 THEN QuorumKeys ELSE {}]
        /\ UNCHANGED <<store, missing, answer>>
    BY <1>1 DEF StartSync
  <2>3. ASSUME NEW k \in owed'[r], ~IsPresent(store[r][k])
        PROVE  \E l \in SyncLinks : l[1] = r /\ Brings(l, k)'
    <3>1. k \in QuorumKeys /\ AmountToAsk(r) = N - 2 /\ k \in Keys
      BY <1>0, <2>2, <2>3 DEF TypeOK, QuorumKeys
    <3>2. PICK q \in Q : IsPresent(store[q][k])
      BY <1>0, <2>3, <3>1, AskedHolds
    <3>3. q \in Replicas /\ <<r, q>> \in SyncLinks
      BY DEF kSubset, Accepting, SyncLinks
    <3>4. store[q][k].ver >= 1
      BY <3>1, <3>2, <3>3 DEF PresentInv
    <3>5. store[r][k].ver = 0
      BY <1>0, <2>3, <3>1 DEF ValueInv, Absent, Entry
    <3>6. sync'[<<r, q>>] = "sync" /\ asked'[<<r, q>>][k] = 0
      BY <2>1, <3>1, <3>3, <3>5
    <3>7. Brings(<<r, q>>, k)'
      BY <2>2, <3>4, <3>6 DEF Brings
    <3> QED
      BY <3>3, <3>7
  <2>4. ASSUME NEW s \in Replicas, s # r, NEW k \in owed'[s]
        PROVE  /\ stage'[s] \in {"synchronizing", "serving"}
               /\ \/ IsPresent(store'[s][k])
                  \/ \E l \in SyncLinks : l[1] = s /\ Brings(l, k)'
    <3>1. k \in owed[s] /\ stage'[s] = stage[s]
      BY <1>0, <2>2, <2>4 DEF TypeOK
    <3>2. \A l \in SyncLinks : l[1] = s => sync'[l] = sync[l] /\ asked'[l] = asked[l]
      BY <2>1, <2>4
    <3> QED
      BY <2>2, <3>1, <3>2 DEF OwedInv, Brings
  <2>5. stage'[r] = "synchronizing"
    BY <1>0, <2>2 DEF TypeOK
  <2> QED
    BY <2>2, <2>3, <2>4, <2>5 DEF OwedInv
<1>2. ASSUME owed' = owed,
             \A r \in Replicas :
                stage[r] \in {"synchronizing", "serving"} =>
                   stage'[r] \in {"synchronizing", "serving"},
             \A l \in SyncLinks, k \in Keys :
                Brings(l, k) => Brings(l, k)' \/ IsPresent(store'[l[1]][k])
      PROVE  OwedInv'
  <2> SUFFICES ASSUME NEW r \in Replicas, NEW k \in owed[r]
               PROVE  /\ stage'[r] \in {"synchronizing", "serving"}
                      /\ \/ IsPresent(store'[r][k])
                         \/ \E l \in SyncLinks : l[1] = r /\ Brings(l, k)'
    BY <1>2 DEF OwedInv
  <2>1. k \in Keys /\ stage'[r] \in {"synchronizing", "serving"}
    BY <1>0, <1>2 DEF OwedInv, TypeOK
  <2>2. CASE IsPresent(store[r][k])
    BY <2>1, <2>2, EntriesGrow
  <2>3. CASE ~IsPresent(store[r][k])
    <3>1. PICK l \in SyncLinks : l[1] = r /\ Brings(l, k)
      BY <2>3 DEF OwedInv
    <3> QED
      BY <1>2, <2>1, <3>1
  <2> QED
    BY <2>2, <2>3, <2>1
<1>3. ASSUME NEW l \in SyncLinks, NEW k \in Keys, Brings(l, k),
             UNCHANGED <<sync, asked, missing, answer>>
      PROVE  Brings(l, k)'
  BY <1>3, EntriesGrow, LinkParts DEF Brings
<1>4. ASSUME NEW m \in SyncLinks, SyncStep(m), NEW l \in SyncLinks,
             NEW k \in Keys, Brings(l, k)
      PROVE  Brings(l, k)' \/ IsPresent(store'[l[1]][k])
  <2>0. l[1] \in Replicas /\ l[2] \in Replicas
    BY LinkParts
  <2>1. CASE m # l
    <3>1. /\ sync'[l] = sync[l] /\ asked'[l] = asked[l]
          /\ missing'[l] = missing[l] /\ answer'[l] = answer[l]
      BY <1>0, <1>4, <2>1
      DEF SyncStep, HandleSync, ReadForSync, ReceiveUpdate, TypeOK
    <3> QED
      BY <1>4, <2>0, <3>1, EntriesGrow DEF Brings
  <2>2. CASE HandleSync(l)
    <3>1. /\ sync'[l] = "reading" /\ missing'[l] = NewerHere(l[2], asked[l])
          /\ asked[l][k] = 0 /\ store[l[2]][k].ver >= 1
      BY <1>0, <1>4, <2>2 DEF HandleSync, Brings, TypeOK
    <3>2. IsPresent(store[l[2]][k])
      BY <1>0, <2>0, <3>1 DEF ValueInv, Absent, Entry
    <3>3. asked[l][k] < store[l[2]][k].ver
      BY <2>0, <3>1, EntriesGrow
    <3>4. k \in missing'[l]
      BY <3>1, <3>2, <3>3 DEF NewerHere
    <3> QED
      BY <3>1, <3>4 DEF Brings
  <2>3. CASE ReadForSync(l)
    <3>1. PICK j \in missing[l] :
            /\ answer' = [answer EXCEPT ![l][j] = store[l[2]][j]]
            /\ missing' = [missing EXCEPT ![l] = @ \ {j}]
      BY <2>3 DEF ReadForSync
    <3>2. sync[l] = "reading" /\ sync' = sync
      BY <2>3 DEF ReadForSync
    <3>3. CASE j = k
      <4>1. store[l[2]][k].ver >= 1
        BY <1>0, <3>2, <3>3 DEF ValueInv
      <4>2. IsPresent(store[l[2]][k])
        BY <1>0, <2>0, <4>1 DEF ValueInv, Absent, Entry
      <4>3. answer'[l][k] = store[l[2]][k]
        BY <1>0, <3>1, <3>3 DEF TypeOK
      <4> QED
        BY <3>2, <4>2, <4>3 DEF Brings
    <3>4. CASE j # k
      <4>1. answer'[l][k] = answer[l][k] /\ (k \in missing'[l] <=> k \in missing[l])
        BY <1>0, <3>1, <3>4 DEF TypeOK
      <4> QED
        BY <1>4, <3>2, <4>1 DEF Brings
    <3> QED
      BY <3>3, <3>4
  <2>4. CASE ReceiveUpdate(l)
    <3>1. IsPresent(answer[l][k])
      BY <1>4, <2>4 DEF ReceiveUpdate, Brings
    <3>2. store'[l[1]][k] = TryUpdateEntry(store[l[1]][k], answer[l][k])
      BY <1>0, <2>0, <2>4, <3>1 DEF ReceiveUpdate, TypeOK, Stores
    <3> QED
      BY <3>1, <3>2 DEF TryUpdateEntry
  <2> QED
    BY <1>4, <2>1, <2>2, <2>3, <2>4 DEF SyncStep
<1>5. ASSUME NEW r \in Replicas, Listen(r) \/ Serve(r) PROVE OwedInv'
  <2>1. /\ owed' = owed /\ UNCHANGED <<sync, asked, missing, answer>>
        /\ \A s \in Replicas :
              stage[s] \in {"synchronizing", "serving"} =>
                 stage'[s] \in {"synchronizing", "serving"}
    BY <1>0, <1>5 DEF Listen, Serve, TypeOK
  <2> QED
    BY <1>2, <1>3, <2>1
<1>6. ASSUME NEW m \in SyncLinks, SyncStep(m) PROVE OwedInv'
  <2>1. owed' = owed /\ stage' = stage
    BY <1>6 DEF SyncStep, HandleSync, ReadForSync, ReceiveUpdate
  <2> QED
    BY <1>2, <1>4, <1>6, <2>1
<1>7. CASE UNCHANGED startVars
  BY <1>2, <1>3, <1>7 DEF startVars
<1> QED
  BY <1>1, <1>5, <1>6, <1>7 DEF Next, StartStep, StartPut, PutStep, CommitPut,
     AbortPut, PartStep, Vote, ParticipantCommit, ParticipantAbort, vars

\* KeysLearned: a replica that serves has every key that a write quorum had
\* when it asked, although it asks all replicas but itself and one more.
THEOREM StartedReplicasKnow ==
    ASSUME FilesCommitted
    PROVE  Spec => []KeysLearned
<1> DEFINE LearnInv == SyncInv /\ PresentInv /\ OwedInv
<1>1. Init => LearnInv
  <2> SUFFICES ASSUME Init PROVE PresentInv /\ OwedInv
    BY SyncInvInit
  <2>1. PresentInv
    BY DEF Init, PresentInv, FilesCommitted
  <2>2. OwedInv
    BY DEF Init, OwedInv
  <2> QED
    BY <2>1, <2>2
<1>2. LearnInv /\ [Next]_vars => LearnInv'
  BY SyncInvStep, PresentInvStep, OwedInvStep
<1>3. LearnInv => KeysLearned
  <2> SUFFICES ASSUME LearnInv, NEW r \in Replicas, stage[r] = "serving",
                      NEW k \in owed[r]
               PROVE  IsPresent(store[r][k])
    BY DEF KeysLearned
  <2>1. \A l \in SyncLinks : l[1] = r => ~Brings(l, k)
    BY DEF Brings, SyncInv, PutInv, ServingInv
  <2> QED
    BY <2>1 DEF OwedInv
<1> QED
  BY <1>1, <1>2, <1>3, PTL DEF Spec
=============================================================================
