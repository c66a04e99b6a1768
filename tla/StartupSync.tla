---------------------------- MODULE StartupSync ----------------------------
(***************************************************************************)
(* The start of a replica: Replica::start listens first, then synchronises *)
(* (Coordinator::sync, Sync, Update), and only then acceptRequest lets the *)
(* requests pass that have arrived meanwhile.  Other replicas serve puts.  *)
(* A put is followed as far as its locks and votes go; QuorumStore has the *)
(* registries, the identifiers and the messages in full.                   *)
(***************************************************************************)
EXTENDS VersionedEntry, Integers, FiniteSets, FiniteSetsExt

CONSTANTS
    N,               \* number of replicas
    WriteQuorum,
    Joining,         \* replicas that have not been started yet
    Frontends,       \* replicas that clients put to
    Keys,
    Puts,            \* put requests: put t writes the value t
    KeyOf,           \* KeyOf[t]: the key of the put t
    Data,            \* values written in former runs of the processes
    InitialStores    \* what they left in the files

Replicas == 0 .. N - 1
Stores == [Replicas -> [Keys -> Entries(Puts \cup Data)]]

\* The connection of the synchronisation of l[1] to l[2], and of put l[1] to
\* participant l[2].
SyncLinks == Replicas \X Replicas
PutLinks == Puts \X Replicas

ASSUME ReplicasAssumption == N \in Nat /\ N >= 2 /\ WriteQuorum \in 2 .. N
ASSUME PlacementAssumption == Joining \subseteq Replicas /\ Frontends \subseteq Replicas
ASSUME DataAssumption ==
    /\ Puts \cap Data = {} /\ NoValue \notin Puts \cup Data
    /\ KeyOf \in [Puts -> Keys]
    /\ InitialStores \subseteq Stores
    /\ \A s \in InitialStores : \A r \in Replicas, k \in Keys :
          IsPresent(s[r][k]) \/ s[r][k] = Absent

VARIABLES
    stage,     \* stage[r]: where Replica::start of r stands
    store,     \* store[r][k]: entry in the datastore
    owner2pc,  \* owner2pc[r][k]: the put that holds the lock, if any
    sync,      \* sync[l]: last message sent or handled
    asked,     \* asked[l]: the versions in the SYNC message
    missing,   \* missing[l]: keys Sync::manage has still to read
    answer,    \* answer[l]: the entries for the UPDATE message
    put,       \* put[t]: where Coordinator::put of t stands
    home,      \* home[t]: the replica the client of t is connected to
    version,   \* version[t]: the version in GLOBAL_COMMIT
    part,      \* part[p]: last message sent or handled
    owed       \* owed[r]: history, keys r must have once it serves

startVars == <<stage, sync, asked, missing, answer, owed>>
putVars == <<put, home, version, part>>
vars == <<startVars, putVars, store, owner2pc>>

TypeOK ==
    /\ stage \in [Replicas -> {"down", "listening", "synchronizing", "serving"}]
    /\ store \in Stores
    /\ owner2pc \in [Replicas -> [Keys -> SUBSET Puts]]
    /\ sync \in [SyncLinks -> {"unused", "sync", "reading", "closed"}]
    /\ asked \in [SyncLinks -> [Keys -> Nat]]
    /\ missing \in [SyncLinks -> SUBSET Keys]
    /\ answer \in [SyncLinks -> [Keys -> Entries(Puts \cup Data)]]
    /\ put \in [Puts -> {"idle", "gathering", "done"}]
    /\ home \in [Puts -> Frontends]
    /\ version \in [Puts -> Nat]
    /\ part \in [PutLinks -> {"unused", "prepare", "ready", "refused", "commit", "abort"}]
    /\ owed \in [Replicas -> SUBSET Keys]

NoEntries == [k \in Keys |-> Absent]

Init ==
    /\ stage = [r \in Replicas |-> IF r \in Joining THEN "down" ELSE "serving"]
    /\ store \in InitialStores
    /\ owner2pc = [r \in Replicas |-> [k \in Keys |-> {}]]
    /\ sync = [l \in SyncLinks |-> "unused"]
    /\ asked = [l \in SyncLinks |-> [k \in Keys |-> 0]]
    /\ missing = [l \in SyncLinks |-> {}]
    /\ answer = [l \in SyncLinks |-> NoEntries]
    /\ put = [t \in Puts |-> "idle"]
    /\ home \in [Puts -> Frontends]
    /\ version = [t \in Puts |-> 0]
    /\ part = [p \in PutLinks |-> "unused"]
    /\ owed = [r \in Replicas |-> {}]

Accepting == {r \in Replicas : stage[r] # "down"}

-----------------------------------------------------------------------------
(* The replica that starts.                                                *)

\* ReplicaConnectionHandler::open: from now on connections are accepted.
Listen(r) ==
    /\ stage[r] = "down"
    /\ stage' = [stage EXCEPT ![r] = "listening"]
    /\ UNCHANGED <<store, owner2pc, sync, asked, missing, answer, owed, putVars>>

\* Keys that a write quorum has: committed ones, at least.
QuorumKeys ==
    {k \in Keys :
        Cardinality({r \in Replicas : IsPresent(store[r][k])}) >= WriteQuorum}

\* Coordinator::sync: connectToQuorum is given the number of addresses, N - 1,
\* and leaves one out, for the replica itself; those that do not accept are
\* passed over.  SYNC, with the versions of getStatus, goes to all.
AmountToAsk(r) == Min({N - 2, Cardinality(Accepting \ {r})})

StartSync(r) ==
    /\ stage[r] = "listening"
    /\ \E Q \in kSubset(AmountToAsk(r), Accepting \ {r}) :
          /\ sync' = [l \in SyncLinks |->
                         IF l[1] = r /\ l[2] \in Q THEN "sync" ELSE sync[l]]
          /\ asked' = [l \in SyncLinks |->
                          IF l[1] = r /\ l[2] \in Q
                          THEN [k \in Keys |-> store[r][k].ver] ELSE asked[l]]
    /\ stage' = [stage EXCEPT ![r] = "synchronizing"]
    /\ owed' = [owed EXCEPT ![r] =
                   IF AmountToAsk(r) = N - 2 THEN QuorumKeys ELSE {}]
    /\ UNCHANGED <<store, owner2pc, missing, answer, putVars>>

\* UPDATE, sent when every key is read, arrives: Update::manage tries every
\* entry, and the answer counts.  The connection is not used any more.
ReceiveUpdate(l) ==
    /\ sync[l] = "reading"
    /\ missing[l] = {}
    /\ store' = [store EXCEPT
                    ![l[1]] = [k \in Keys |->
                                  IF IsPresent(answer[l][k])
                                  THEN TryUpdateEntry(@[k], answer[l][k]) ELSE @[k]]]
    /\ sync' = [sync EXCEPT ![l] = "closed"]
    /\ asked' = [asked EXCEPT ![l] = [k \in Keys |-> 0]]
    /\ answer' = [answer EXCEPT ![l] = NoEntries]
    /\ UNCHANGED <<stage, owner2pc, missing, owed, putVars>>

\* Every answer is in: synchronized.
Serve(r) ==
    /\ stage[r] = "synchronizing"
    /\ \A l \in SyncLinks : l[1] = r => sync[l] \in {"unused", "closed"}
    /\ stage' = [stage EXCEPT ![r] = "serving"]
    /\ UNCHANGED <<store, owner2pc, sync, asked, missing, answer, owed, putVars>>

-----------------------------------------------------------------------------
(* The replica that is asked: Sync::manage.  It does not wait until it is  *)
(* itself synchronised.                                                    *)

\* Mutant: it does.
CanAnswerServing(q) == stage[q] = "serving"

CanAnswer(q) == stage[q] # "down"

\* Mutant: only the keys that the other replica has.
NewerOnly(q, versions) ==
    {k \in Keys : versions[k] # 0 /\ versions[k] < store[q][k].ver}

\* The keys the other replica does not have, or in an older version.
NewerHere(q, versions) ==
    {k \in Keys : IsPresent(store[q][k]) /\ versions[k] < store[q][k].ver}

HandleSync(l) ==
    /\ sync[l] = "sync"
    /\ CanAnswer(l[2])
    /\ missing' = [missing EXCEPT ![l] = NewerHere(l[2], asked[l])]
    /\ sync' = [sync EXCEPT ![l] = "reading"]
    /\ UNCHANGED <<stage, store, owner2pc, asked, answer, owed, putVars>>

\* One key after the other is read, as soon as no put holds its lock.
ReadForSync(l) ==
    /\ sync[l] = "reading"
    /\ \E k \in missing[l] :
          /\ owner2pc[l[2]][k] = {}
          /\ answer' = [answer EXCEPT ![l][k] = store[l[2]][k]]
          /\ missing' = [missing EXCEPT ![l] = @ \ {k}]
    /\ UNCHANGED <<stage, store, owner2pc, sync, asked, owed, putVars>>

-----------------------------------------------------------------------------
(* A put: the locks, the votes and the decision.                           *)

Parts(t) == {p \in PutLinks : p[1] = t /\ part[p] # "unused"}

\* acceptRequest has let the put pass; the local lock, and PREPARE to a write
\* quorum of the replicas that accept connections, whether they serve or not.
StartPut(t) ==
    LET r == home[t] IN
    /\ put[t] = "idle"
    /\ stage[r] = "serving"
    /\ owner2pc[r][KeyOf[t]] = {}
    /\ Parts(t) = {}
    /\ \E Q \in kSubset(WriteQuorum - 1, Accepting \ {r}) :
          part' = [p \in PutLinks |->
                      IF p[1] = t /\ p[2] \in Q THEN "prepare" ELSE part[p]]
    /\ owner2pc' = [owner2pc EXCEPT ![r][KeyOf[t]] = {t}]
    /\ put' = [put EXCEPT ![t] = "gathering"]
    /\ UNCHANGED <<startVars, home, version, store>>

\* Prepare::manage waits in acceptRequest before it votes.
Vote(p) ==
    LET q == p[2]
        k == KeyOf[p[1]]
        free == owner2pc[q][k] = {}
    IN  /\ part[p] = "prepare"
        /\ stage[q] = "serving"
        /\ part' = [part EXCEPT ![p] = IF free THEN "ready" ELSE "refused"]
        /\ owner2pc' = [owner2pc EXCEPT ![q][k] = IF free THEN {p[1]} ELSE @]
        /\ UNCHANGED <<startVars, put, home, version, store>>

Commit(r, t, n) ==
    /\ store' = [store EXCEPT ![r][KeyOf[t]] = CommitEntry(@, Entry(t, n))]
    /\ owner2pc' = [owner2pc EXCEPT ![r][KeyOf[t]] = {}]

\* Mutant: the versions of the votes are not looked at.
HomeVersion(t) == 1 + store[home[t]][KeyOf[t]].ver

\* The coordinator holds every lock, so the versions are still those of the
\* votes.
NextVersion(t) ==
    1 + Max({store[r][KeyOf[t]].ver : r \in {home[t]} \cup {p[2] : p \in Parts(t)}})

CommitPut(t) ==
    /\ put[t] = "gathering"
    /\ \A p \in Parts(t) : part[p] = "ready"
    /\ version' = [version EXCEPT ![t] = NextVersion(t)]
    /\ Commit(home[t], t, version'[t])
    /\ part' = [p \in PutLinks |-> IF p \in Parts(t) THEN "commit" ELSE part[p]]
    /\ put' = [put EXCEPT ![t] = "done"]
    /\ UNCHANGED <<startVars, home>>

\* The put is tried again when its connections are closed.
AbortPut(t) ==
    /\ put[t] = "gathering"
    /\ \A p \in Parts(t) : part[p] \in {"ready", "refused"}
    /\ \E p \in Parts(t) : part[p] = "refused"
    /\ owner2pc' = [owner2pc EXCEPT ![home[t]][KeyOf[t]] = {}]
    /\ part' = [p \in PutLinks |->
                   CASE p \notin Parts(t) -> part[p]
                     [] p \in Parts(t) /\ part[p] = "ready" -> "abort"
                     [] OTHER -> "unused"]
    /\ put' = [put EXCEPT ![t] = "idle"]
    /\ UNCHANGED <<startVars, home, version, store>>

ParticipantCommit(p) ==
    /\ part[p] = "commit"
    /\ Commit(p[2], p[1], version[p[1]])
    /\ part' = [part EXCEPT ![p] = "unused"]
    /\ UNCHANGED <<startVars, put, home, version>>

ParticipantAbort(p) ==
    /\ part[p] = "abort"
    /\ owner2pc' = [owner2pc EXCEPT ![p[2]][KeyOf[p[1]]] = {}]
    /\ part' = [part EXCEPT ![p] = "unused"]
    /\ UNCHANGED <<startVars, put, home, version, store>>
-----------------------------------------------------------------------------
StartStep(r) == Listen(r) \/ StartSync(r) \/ Serve(r)

SyncStep(l) == HandleSync(l) \/ ReadForSync(l) \/ ReceiveUpdate(l)

PutStep(t) == CommitPut(t) \/ AbortPut(t)

PartStep(p) == Vote(p) \/ ParticipantCommit(p) \/ ParticipantAbort(p)

Next ==
    \/ \E r \in Replicas : StartStep(r)
    \/ \E l \in SyncLinks : SyncStep(l)
    \/ \E t \in Puts : StartPut(t) \/ PutStep(t)
    \/ \E p \in PutLinks : PartStep(p)

Spec == Init /\ [][Next]_vars

\* Every thread that can run is run, and polls are repeated; nobody has to start
\* a replica or send a put.
Fairness ==
    /\ \A r \in Replicas : WF_vars(StartSync(r) \/ Serve(r))
    /\ \A l \in SyncLinks : WF_vars(SyncStep(l))
    /\ \A t \in Puts : WF_vars(PutStep(t))
    /\ \A p \in PutLinks : WF_vars(PartStep(p))

FairSpec == Spec /\ Fairness

-----------------------------------------------------------------------------
\* A coordinator waits for the vote r holds back, keeping its locks.
Awaited(r) == \E p \in PutLinks : p[2] = r /\ part[p] = "prepare"

\* A replica that synchronises ends up serving, also when all are started at once
\* and ask each other, unless a put waits for its vote.
StartsUnlessAwaited ==
    \A r \in Replicas :
        stage[r] = "synchronizing" ~> stage[r] = "serving" \/ Awaited(r)

\* A replica that serves has every key that a write quorum had when it asked,
\* although it asks one replica too few: of the W that have a key it lacks, at
\* least W - 1 are asked.
KeysLearned ==
    \A r \in Replicas :
        stage[r] = "serving" => \A k \in owed[r] : IsPresent(store[r][k])

\* No key goes back to an older version or changes the value of a version, in
\* whatever order UPDATE messages and commits arrive.
VersionsGrow ==
    [][\A r \in Replicas : \A k \in Keys :
          store'[r][k] # store[r][k] => store'[r][k].ver > store[r][k].ver]_vars

\* What puts have agreed on is not undone by replicas that start among them: a
\* put that has been acknowledged, or one of a higher version, is at a write
\* quorum or bound to be committed there.
CommitsKept ==
    \A t \in Puts :
        put[t] = "done" =>
            Cardinality({r \in Replicas :
                \/ store[r][KeyOf[t]] = Entry(t, version[t])
                \/ store[r][KeyOf[t]].ver > version[t]
                \/ part[<<t, r>>] = "commit"}) >= WriteQuorum

\* SYNC is answered by UPDATE (docs/messages.md:227).
SyncAnswered ==
    \A l \in SyncLinks : sync[l] = "sync" ~> sync[l] = "closed"
=============================================================================
