---------------------------- MODULE QuorumStore ----------------------------
(***************************************************************************)
(* The quorum-replicated datastore for one key: coordinators (Coordinator, *)
(* Put, Get), participants (Participant, Prepare, GlobalCommit,            *)
(* GlobalAbort), the per-key handler registries and transaction identifiers*)
(* of a Replica, and the lock and entry of its DatastoreManager.  Every    *)
(* map of the program is indexed by key and no operation touches two keys, *)
(* so one key is followed; replicaTS is the only state the keys share.     *)
(*                                                                         *)
(* Replicas have finished their start-up synchronisation and neither stop  *)
(* nor lose messages (README.md:21).  Steps on different connections       *)
(* interleave freely: every message may be delayed for any time.           *)
(***************************************************************************)
EXTENDS VersionedEntry, FiniteSets

CONSTANTS
    N,             \* number of replicas
    ReadQuorum,    \* ReplicaConnectionHandler::readQuorum
    WriteQuorum,   \* ReplicaConnectionHandler::writeQuorum
    Frontends,     \* replicas in the configuration of the clients
    Reachable,     \* replicas that accept every connection: the others may
                   \* refuse one at any time
    Puts,          \* put requests: put t writes the value t
    Gets,          \* get requests
    MaxAttempts,   \* bound on the attempts of a request that open connections
    BackoffOutlastsDelivery
        \* TRUE: the back-off of Put::manage and Get::manage is longer than
        \* the delivery of the messages of the failed attempt

Replicas == 0 .. N - 1
Requests == Puts \cup Gets

\* The connection request t opens to replica q in its a-th attempt.
Links == Requests \X (1 .. MaxAttempts) \X Replicas
Request(l) == l[1]
Attempt(l) == l[2]
Peer(l) == l[3]

ASSUME ReplicasAssumption == N \in Nat /\ N >= 2
ASSUME QuorumAssumption ==
    /\ ReadQuorum \in 1 .. N
    /\ WriteQuorum \in 1 .. N
    /\ ReadQuorum + WriteQuorum > N
    /\ 2 * WriteQuorum > N
ASSUME PlacementAssumption ==
    Reachable \subseteq Replicas /\ Frontends \subseteq Replicas
ASSUME RequestAssumption == Puts \cap Gets = {} /\ NoValue \notin Puts
ASSUME AttemptAssumption == MaxAttempts \in Nat \ {0}
ASSUME BackoffAssumption == BackoffOutlastsDelivery \in BOOLEAN

VARIABLES
    phase,         \* phase[t]: where Put::manage or Get::manage of t stands
    home,          \* home[t]: the replica the client of t is connected to
    uid,           \* uid[t]: Coordinator::uid
    attempt,       \* attempt[t]: number of the current attempt
    entry,         \* entry[t]: the value and version the coordinator holds
    abort,         \* requests whose Coordinator::abort is set
    replicaTS,     \* replicaTS[r]: Replica::replicaTS
    coordinators,  \* coordinators[r]: requests in Replica::coordinators
    participants,  \* participants[r]: links in Replica::participants
    owner2pc,      \* owner2pc[r]: the identifier that holds the lock, if any
    store,         \* store[r]: the entry of the key in the datastore of r
    link,          \* link[l]: the last message sent or handled on l
    payload,       \* payload[l]: the value and version that message carries
    flagged,       \* links whose Participant::abort is set
    preceding      \* preceding[t]: history, puts committed when t arrived

coordinatorVars == <<phase, home, uid, attempt, entry, abort, preceding>>
replicaVars == <<replicaTS, coordinators, participants, owner2pc, store>>
linkVars == <<link, payload, flagged>>
vars == <<coordinatorVars, replicaVars, linkVars>>

Phases == {"idle", "waiting", "registered", "local", "gathering", "failed",
           "replied", "leaving", "done"}

\* A put: unused, prepare, then joined (the participant is registered),
\* vote_commit, ready (the vote is counted), commit or abort, applied (the
\* participant has left the datastore) and closed; or vote_abort, refused
\* (counted), late_abort, closed.  A get: unused, fetch, fetched, read
\* (counted), repair, closed.
Stages == {"unused", "prepare", "joined", "vote_commit", "vote_abort",
           "ready", "refused", "commit", "abort", "late_abort", "applied",
           "fetch", "fetched", "read", "repair", "closed"}

TypeOK ==
    /\ phase \in [Requests -> Phases]
    /\ home \in [Requests -> Frontends]
    /\ uid \in [Requests -> Nat]
    /\ attempt \in [Requests -> 1 .. MaxAttempts + 1]
    /\ entry \in [Requests -> Entries(Puts)]
    /\ abort \subseteq Requests
    /\ preceding \in [Requests -> SUBSET Puts]
    /\ replicaTS \in [Replicas -> Nat]
    /\ coordinators \in [Replicas -> SUBSET Requests]
    /\ participants \in [Replicas -> SUBSET Links]
    /\ owner2pc \in [Replicas -> SUBSET Nat]
    /\ store \in [Replicas -> Entries(Puts)]
    /\ link \in [Links -> Stages]
    /\ payload \in [Links -> Entries(Puts)]
    /\ flagged \subseteq Links

-----------------------------------------------------------------------------
\* Mutant: one more replica is left out.
ReplicasAmountMinusOne == N - 2

\* ServerConfig::getReplicasAmount leaves out the replica itself.
ReplicasAmount == N - 1

\* Replica::start has already given one identifier to the Coordinator of the
\* synchronisation.
Init ==
    /\ phase = [t \in Requests |-> "idle"]
    /\ home \in [Requests -> Frontends]
    /\ uid = [t \in Requests |-> 0]
    /\ attempt = [t \in Requests |-> 1]
    /\ entry = [t \in Requests |-> Absent]
    /\ abort = {}
    /\ preceding = [t \in Requests |-> {}]
    /\ replicaTS = [r \in Replicas |-> r + ReplicasAmount]
    /\ coordinators = [r \in Replicas |-> {}]
    /\ participants = [r \in Replicas |-> {}]
    /\ owner2pc = [r \in Replicas |-> {}]
    /\ store = [r \in Replicas |-> Absent]
    /\ link = [l \in Links |-> "unused"]
    /\ payload = [l \in Links |-> Absent]
    /\ flagged = {}

\* Puts whose coordinator has committed: its client has, or is about to get,
\* the ACK.
Committed == {t \in Puts : phase[t] \in {"leaving", "done"}}

\* Mutant: the registry of participants is not looked at.
NoCoordinator(r) == coordinators[r] = {}

\* addCoordinator and addParticipant refuse a key that has either handler.
NoHandler(r) == coordinators[r] = {} /\ participants[r] = {}

Quorum(t) == IF t \in Puts THEN WriteQuorum ELSE ReadQuorum

\* The connections of the current attempt of t.
Contacted(t) ==
    {l \in Links : /\ Request(l) = t
                   /\ Attempt(l) = attempt[t]
                   /\ link[l] # "unused"}

\* The wait replies of sendToReplicas is over.
Answered(t, stages) == \A l \in Contacted(t) : link[l] \in stages

\* Mutant: the owner is never erased.
KeepLock(r, id) == UNCHANGED owner2pc

\* DatastoreManager::abort: only the owner gives up the lock.
Release(r, id) == owner2pc' = [owner2pc EXCEPT ![r] = @ \ {id}]

Goto(t, p) == phase' = [phase EXCEPT ![t] = p]

\* The stages once every connection of t has moved on to stage s.
AllAt(t, s) == [l \in Links |-> IF l \in Contacted(t) THEN s ELSE link[l]]

-----------------------------------------------------------------------------
(* The thread of the client connection: Put::manage and Get::manage.       *)

\* The message arrives: its Coordinator takes an identifier.
Receive(t) ==
    /\ phase[t] = "idle"
    /\ Goto(t, "waiting")
    /\ uid' = [uid EXCEPT ![t] = replicaTS[home[t]]]
    /\ replicaTS' = [replicaTS EXCEPT ![home[t]] = @ + ReplicasAmount]
    /\ preceding' = [preceding EXCEPT ![t] = Committed]
    /\ UNCHANGED <<home, attempt, entry, abort, coordinators, participants,
                   owner2pc, store, linkVars>>

\* Whether nothing of an earlier attempt of t is still on its way.
EarlierLinksClosed(t) ==
    \A l \in Links : Request(l) = t => link[l] \in {"unused", "closed"}

\* Replica::addCoordinator, polled until it succeeds.
AddCoordinator(t) ==
    /\ phase[t] = "waiting"
    /\ attempt[t] <= MaxAttempts
    /\ BackoffOutlastsDelivery => EarlierLinksClosed(t)
    /\ NoHandler(home[t])
    /\ coordinators' = [coordinators EXCEPT ![home[t]] = @ \cup {t}]
    /\ Goto(t, "registered")
    /\ UNCHANGED <<home, uid, attempt, entry, abort, preceding, replicaTS,
                   participants, owner2pc, store, linkVars>>

\* Coordinator::put up to the lock of the local datastore.
PrepareLocally(t) ==
    /\ t \in Puts
    /\ phase[t] = "registered"
    /\ abort' = abort \ {t}
    /\ LET r == home[t]
           free == owner2pc[r] = {}
       IN  /\ owner2pc' = [owner2pc EXCEPT ![r] = IF free THEN {uid[t]} ELSE @]
           /\ entry' = [entry EXCEPT
                           ![t] = IF free THEN Entry(t, store[r].ver) ELSE @]
           /\ Goto(t, IF free THEN "local" ELSE "failed")
    /\ UNCHANGED <<home, uid, attempt, preceding, replicaTS, coordinators,
                   participants, store, linkVars>>

\* Coordinator::get up to the local value, which waits for the lock.
ReadLocally(t) ==
    /\ t \in Gets
    /\ phase[t] = "registered"
    /\ owner2pc[home[t]] = {}
    /\ entry' = [entry EXCEPT ![t] = Latest(@, store[home[t]])]
    /\ Goto(t, "local")
    /\ UNCHANGED <<home, uid, attempt, abort, preceding, replicaVars, linkVars>>

\* Coordinator::connectToQuorum, shuffled, then PREPARE or FETCH to all.
ContactQuorum(t) ==
    /\ phase[t] = "local"
    /\ \E Q \in SUBSET (Replicas \ {home[t]}) :
          /\ Cardinality(Q) = Quorum(t) - 1
          /\ Q # {}
          /\ link' = [l \in Links |->
                        IF /\ Request(l) = t
                           /\ Attempt(l) = attempt[t]
                           /\ Peer(l) \in Q
                        THEN IF t \in Puts THEN "prepare" ELSE "fetch"
                        ELSE link[l]]
    /\ Goto(t, "gathering")
    /\ UNCHANGED <<home, uid, attempt, entry, abort, preceding, replicaVars,
                   payload, flagged>>

\* connectToQuorum returns no connection: too few replicas answer, or the
\* quorum is the coordinator alone.  A put gives the lock back.
ConnectionFails(t) ==
    /\ phase[t] = "local"
    /\ \/ Cardinality(Reachable \ {home[t]}) < Quorum(t) - 1
       \/ Quorum(t) = 1
    /\ Release(home[t], uid[t])
    /\ Goto(t, "failed")
    /\ UNCHANGED <<home, uid, attempt, entry, abort, preceding, replicaTS,
                   coordinators, participants, store, linkVars>>

\* Mutant: the version is not increased.
SameVersion(n) == n

\* Coordinator::put: version ++.
NextVersion(n) == n + 1

\* Every vote is in and none is an abort: the local commit, GLOBAL_COMMIT to
\* all, and the ACK.
CommitPut(t) ==
    /\ t \in Puts
    /\ phase[t] = "gathering"
    /\ Answered(t, {"ready", "refused"})
    /\ t \notin abort
    /\ LET r == home[t]
           new == Entry(t, NextVersion(entry[t].ver))
       IN  /\ entry' = [entry EXCEPT ![t] = new]
           /\ store' = [store EXCEPT ![r] = CommitEntry(@, new)]
           /\ owner2pc' = [owner2pc EXCEPT ![r] = {}]
           /\ link' = AllAt(t, "commit")
           /\ payload' = [l \in Links |->
                            IF l \in Contacted(t) THEN new ELSE payload[l]]
    /\ Goto(t, "leaving")
    /\ UNCHANGED <<home, uid, attempt, abort, preceding, replicaTS,
                   coordinators, participants, flagged>>

\* Every vote is in and one is an abort: GLOBAL_ABORT to all, the local abort.
\* A participant that voted abort is no longer waiting for it.
AbortPut(t) ==
    /\ t \in Puts
    /\ phase[t] = "gathering"
    /\ Answered(t, {"ready", "refused"})
    /\ t \in abort
    /\ link' = [l \in Links |->
                   CASE l \notin Contacted(t) -> link[l]
                     [] l \in Contacted(t) /\ link[l] = "ready" -> "abort"
                     [] OTHER -> "late_abort"]
    /\ Release(home[t], uid[t])
    /\ Goto(t, "failed")
    /\ UNCHANGED <<home, uid, attempt, entry, abort, preceding, replicaTS,
                   coordinators, participants, store, payload, flagged>>

\* Mutant: the coordinator stays in the registry.
RetryRegistered(t) ==
    /\ phase[t] = "failed"
    /\ attempt' = [attempt EXCEPT ![t] = IF Contacted(t) = {} THEN @ ELSE @ + 1]
    /\ Goto(t, "waiting")
    /\ UNCHANGED <<home, uid, entry, abort, preceding, replicaVars, linkVars>>

\* The catch of Put::manage and Get::manage: the coordinator is removed and
\* the same one tries again, with the same identifier.
Retry(t) ==
    /\ phase[t] = "failed"
    /\ coordinators' = [coordinators EXCEPT ![home[t]] = @ \ {t}]
    /\ attempt' = [attempt EXCEPT ![t] = IF Contacted(t) = {} THEN @ ELSE @ + 1]
    /\ Goto(t, "waiting")
    /\ UNCHANGED <<home, uid, entry, abort, preceding, replicaTS,
                   participants, owner2pc, store, linkVars>>

\* Every fetched value is in: VALUE to the client.  Without a value the
\* connections are closed at once; otherwise they are left for the repair.
ReplyToGet(t) ==
    /\ t \in Gets
    /\ phase[t] = "gathering"
    /\ Answered(t, {"read"})
    /\ IF entry[t].ver = 0
       THEN Goto(t, "leaving") /\ link' = AllAt(t, "closed")
       ELSE Goto(t, "replied") /\ UNCHANGED link
    /\ UNCHANGED <<home, uid, attempt, entry, abort, preceding, replicaVars,
                   payload, flagged>>

\* The local tryUpdate, then REPAIR to every replica that was read.
RepairQuorum(t) ==
    /\ phase[t] = "replied"
    /\ store' = [store EXCEPT ![home[t]] = TryUpdateEntry(@, entry[t])]
    /\ link' = AllAt(t, "repair")
    /\ payload' = [l \in Links |->
                     IF l \in Contacted(t) THEN entry[t] ELSE payload[l]]
    /\ Goto(t, "leaving")
    /\ UNCHANGED <<home, uid, attempt, entry, abort, preceding, replicaTS,
                   coordinators, participants, owner2pc, flagged>>

\* Replica::removeCoordinator at the end of manage.
Leave(t) ==
    /\ phase[t] = "leaving"
    /\ coordinators' = [coordinators EXCEPT ![home[t]] = @ \ {t}]
    /\ Goto(t, "done")
    /\ UNCHANGED <<home, uid, attempt, entry, abort, preceding, replicaTS,
                   participants, owner2pc, store, linkVars>>

-----------------------------------------------------------------------------
(* The threads of one connection: the receiving thread of the contacted    *)
(* replica, and the sendToReplicas thread that waits for its answer.       *)

Move(l, s) == link' = [link EXCEPT ![l] = s]

\* Prepare::manage up to addParticipant; VOTE_ABORT when it is refused.
HandlePrepare(l) ==
    /\ link[l] = "prepare"
    /\ IF NoHandler(Peer(l))
       THEN /\ participants' = [participants EXCEPT ![Peer(l)] = @ \cup {l}]
            /\ Move(l, "joined")
       ELSE Move(l, "vote_abort") /\ UNCHANGED participants
    /\ UNCHANGED <<coordinatorVars, replicaTS, coordinators, owner2pc, store,
                   payload, flagged>>

\* Participant::prepare2PC up to the vote.  Without the lock it votes abort
\* and Prepare::manage removes it.
PrepareParticipant(l) ==
    /\ link[l] = "joined"
    /\ LET q == Peer(l) IN
       IF owner2pc[q] = {}
       THEN /\ owner2pc' = [owner2pc EXCEPT ![q] = {uid[Request(l)]}]
            /\ payload' = [payload EXCEPT
                              ![l] = Entry(Request(l), store[q].ver)]
            /\ Move(l, "vote_commit")
            /\ UNCHANGED <<participants, flagged>>
       ELSE /\ participants' = [participants EXCEPT ![q] = @ \ {l}]
            /\ flagged' = flagged \ {l}
            /\ Move(l, "vote_abort")
            /\ UNCHANGED <<owner2pc, payload>>
    /\ UNCHANGED <<coordinatorVars, replicaTS, coordinators, store>>

\* Mutant: the last vote wins.
LastVote(old, vote) == vote

\* Coordinator::voteCommit keeps the highest version.
HighestVote(old, vote) == IF vote > old THEN vote ELSE old

\* VoteCommit::manage or VoteAbort::manage on the coordinator registered for
\* the key, and replies ++.
ReceiveVote(l) ==
    /\ link[l] \in {"vote_commit", "vote_abort"}
    /\ \E c \in coordinators[home[Request(l)]] :
          IF link[l] = "vote_commit"
          THEN /\ entry' = [entry EXCEPT
                     ![c].ver = HighestVote(@, payload[l].ver)]
               /\ Move(l, "ready")
               /\ UNCHANGED abort
          ELSE /\ abort' = abort \cup {c}
               /\ Move(l, "refused")
               /\ UNCHANGED entry
    /\ UNCHANGED <<phase, home, uid, attempt, preceding, replicaVars, payload,
                   flagged>>

\* Mutant: the identifier is not compared.
FlagAnyParticipant(l) == flagged \cup participants[Peer(l)]

\* GlobalAbort::manage: the participant registered for the key is flagged when
\* it has the identifier of the message.
FlagParticipants(l) ==
    flagged \cup {p \in participants[Peer(l)] :
                     uid[Request(p)] = uid[Request(l)]}

\* The rest of Participant::prepare2PC after its receive: abort when the flag
\* is set, else commit e.
Decide(l, isFlagged, e) ==
    LET q == Peer(l) IN
    /\ IF isFlagged
       THEN Release(q, uid[Request(l)]) /\ UNCHANGED store
       ELSE /\ owner2pc' = [owner2pc EXCEPT ![q] = {}]
            /\ store' = [store EXCEPT ![q] = CommitEntry(@, e)]
    /\ Move(l, "applied")
    /\ UNCHANGED <<coordinatorVars, replicaTS, coordinators, participants,
                   payload>>

\* GLOBAL_COMMIT arrives.
ParticipantCommit(l) ==
    /\ link[l] = "commit"
    /\ Decide(l, l \in flagged, payload[l])
    /\ UNCHANGED flagged

\* GLOBAL_ABORT arrives at a participant that waits for the decision.
ParticipantAbort(l) ==
    /\ link[l] = "abort"
    /\ flagged' = FlagParticipants(l)
    /\ Decide(l, l \in flagged', payload[l])

\* GLOBAL_ABORT arrives on a connection whose participant voted abort.
LateAbort(l) ==
    /\ link[l] = "late_abort"
    /\ flagged' = FlagParticipants(l)
    /\ Move(l, "closed")
    /\ UNCHANGED <<coordinatorVars, replicaVars, payload>>

\* Replica::removeParticipant at the end of Prepare::manage.
RemoveParticipant(l) ==
    /\ link[l] = "applied"
    /\ participants' = [participants EXCEPT ![Peer(l)] = @ \ {l}]
    /\ flagged' = flagged \ {l}
    /\ Move(l, "closed")
    /\ UNCHANGED <<coordinatorVars, replicaTS, coordinators, owner2pc, store,
                   payload>>

\* Mutant: the entry is read while a transaction holds the lock.
HandleFetchUnlocked(l) ==
    /\ link[l] = "fetch"
    /\ payload' = [payload EXCEPT ![l] = store[Peer(l)]]
    /\ Move(l, "fetched")
    /\ UNCHANGED <<coordinatorVars, replicaVars, flagged>>

\* Fetch::manage: waits for the lock, then sends FETCHED_VALUE.
HandleFetch(l) ==
    /\ link[l] = "fetch"
    /\ owner2pc[Peer(l)] = {}
    /\ payload' = [payload EXCEPT ![l] = store[Peer(l)]]
    /\ Move(l, "fetched")
    /\ UNCHANGED <<coordinatorVars, replicaVars, flagged>>

\* FetchedValue::manage on the coordinator registered for the key.
ReceiveFetched(l) ==
    /\ link[l] = "fetched"
    /\ \E c \in coordinators[home[Request(l)]] :
          entry' = [entry EXCEPT ![c] = Latest(@, payload[l])]
    /\ Move(l, "read")
    /\ UNCHANGED <<phase, home, uid, attempt, abort, preceding, replicaVars,
                   payload, flagged>>

\* Repair::manage: tryUpdate, which does not look at the lock, and close.
HandleRepair(l) ==
    /\ link[l] = "repair"
    /\ store' = [store EXCEPT ![Peer(l)] = TryUpdateEntry(@, payload[l])]
    /\ Move(l, "closed")
    /\ UNCHANGED <<coordinatorVars, replicaTS, coordinators, participants,
                   owner2pc, payload, flagged>>

-----------------------------------------------------------------------------
\* A request that has used up the attempts the model gives it.
OutOfAttempts(t) == phase[t] = "waiting" /\ attempt[t] > MaxAttempts

\* Every request is served, or out of attempts, and nothing is on its way.
Terminated ==
    /\ \A t \in Requests : phase[t] = "done" \/ OutOfAttempts(t)
    /\ \A l \in Links : link[l] \in {"unused", "closed"}
    /\ UNCHANGED vars

CoordinatorStep(t) ==
    \/ AddCoordinator(t)
    \/ PrepareLocally(t)
    \/ ReadLocally(t)
    \/ ContactQuorum(t)
    \/ ConnectionFails(t)
    \/ CommitPut(t)
    \/ AbortPut(t)
    \/ Retry(t)
    \/ ReplyToGet(t)
    \/ RepairQuorum(t)
    \/ Leave(t)

ConnectionStep(l) ==
    \/ HandlePrepare(l)
    \/ PrepareParticipant(l)
    \/ ReceiveVote(l)
    \/ ParticipantCommit(l)
    \/ ParticipantAbort(l)
    \/ LateAbort(l)
    \/ RemoveParticipant(l)
    \/ HandleFetch(l)
    \/ ReceiveFetched(l)
    \/ HandleRepair(l)

Next ==
    \/ \E t \in Requests : Receive(t) \/ CoordinatorStep(t)
    \/ \E l \in Links : ConnectionStep(l)
    \/ Terminated

Spec == Init /\ [][Next]_vars

\* Every thread that can run is run: the operating system schedules the
\* threads, and a poll of a registry or of the lock is repeated.
Fairness ==
    /\ \A t \in Requests : WF_vars(CoordinatorStep(t))
    /\ \A l \in Links : WF_vars(ConnectionStep(l))

FairSpec == Spec /\ Fairness
-----------------------------------------------------------------------------
(* Safety.                                                                 *)

\* The coordinators and participants that must hold the lock of their replica:
\* those between the prepare of its datastore and the commit or abort.
LockingCoordinator(t) == t \in Puts /\ phase[t] \in {"local", "gathering"}

LockingParticipant(l) == link[l] \in {"vote_commit", "ready", "commit", "abort"}

\* At most one handler per key and replica (Replica::addCoordinator and
\* ::addParticipant).
OneHandler(r) ==
    /\ \A c, d \in coordinators[r] : c = d
    /\ \A l, m \in participants[r] : l = m
    /\ coordinators[r] = {} \/ participants[r] = {}

\* Who holds the lock of r.
HeldBy(r, id, locking) == owner2pc[r] = IF locking THEN {id} ELSE {}

\* The lock of a replica is held exactly while its one registered handler is
\* between the prepare and the commit or abort of the datastore, and under the
\* identifier of that handler.  So a coordinator that reads or prepares its own
\* datastore never meets a lock, a vote always finds its own coordinator, and
\* no abort or commit gives up the lock of another transaction.
LockDiscipline ==
    \A r \in Replicas :
        /\ OneHandler(r)
        /\ NoHandler(r) => owner2pc[r] = {}
        /\ \A t \in coordinators[r] : HeldBy(r, uid[t], LockingCoordinator(t))
        /\ \A l \in participants[r] :
              HeldBy(r, uid[Request(l)], LockingParticipant(l))
        /\ \A t \in Requests :
              home[t] = r /\ LockingCoordinator(t) => t \in coordinators[r]
        /\ \A l \in Links :
              Peer(l) = r /\ LockingParticipant(l) => l \in participants[r]

\* Replicas that have the value of the committed put t or a newer one, or hold
\* the lock for it until they have.
Holding(t) ==
    {r \in Replicas :
        \/ store[r].ver >= entry[t].ver
        \/ \E l \in Links \ flagged :
              Request(l) = t /\ Peer(l) = r /\ link[l] = "commit"}

\* A committed put is never lost: a write quorum of replicas has it or is bound
\* to store it.  A vote abort of an earlier attempt, its late GLOBAL_ABORT, a
\* refused prepare or another put must not undo what the ACK says.
CommitReachesQuorum ==
    \A t \in Committed : Cardinality(Holding(t)) >= WriteQuorum

\* Two committed puts never get the same version: the version is the only order
\* replicas know, and datastores keep the first value they get for a version.
VersionsUnique ==
    \A s, t \in Committed : entry[s].ver = entry[t].ver => s = t

\* Nothing but committed puts is ever stored: an aborted attempt leaves no
\* trace in a datastore, whichever replicas had voted for it, and a repair does
\* not bring back a value nobody committed.
OnlyCommittedStored ==
    \A r \in Replicas :
        IsPresent(store[r]) =>
            \E t \in Committed : store[r] = entry[t]

\* An identifier names one transaction (DatastoreManager.cpp:11).
UidsUnique ==
    \A s, t \in Requests :
        phase[s] # "idle" /\ phase[t] # "idle" /\ uid[s] = uid[t] => s = t

\* A datastore never goes back to an older version, nor changes the value of a
\* version: repairs and commits may arrive in any order.
StoreGrows ==
    [][\A r \in Replicas :
          store'[r] # store[r] => store'[r].ver > store[r].ver]_vars

\* GLOBAL_COMMIT "tells the replicas to actually commit the value"
\* (docs/messages.md:171): whoever gets it has the value or a newer one.
GlobalCommitCommits ==
    [][\A l \in Links :
          ParticipantCommit(l) => store'[Peer(l)].ver >= payload[l].ver]_vars

\* REPAIR "tells a replica to repair a stale value" (docs/messages.md:189).
RepairRefreshes ==
    [][\A l \in Links :
          HandleRepair(l) => store'[Peer(l)].ver >= payload[l].ver]_vars

(* Liveness.                                                               *)

\* Every get that arrives is answered, every put is served or uses up its
\* attempts, and nothing of them stays behind: no replica is left with a lock,
\* a coordinator or a participant, which would block the key for ever.
Quiescence ==
    <>[](/\ \A t \in Gets : phase[t] \in {"idle", "done"}
         /\ \A t \in Puts : phase[t] \in {"idle", "done"} \/ OutOfAttempts(t)
         /\ \A r \in Replicas : NoHandler(r) /\ owner2pc[r] = {})

-----------------------------------------------------------------------------
\* The committed puts in the order of their versions.
History ==
    [n \in 1 .. Cardinality(Committed) |->
        CHOOSE t \in Committed : entry[t].ver = n]

RegisterStatus ==
    [t \in Requests |->
        CASE phase[t] = "idle" -> "idle"
          [] phase[t] \in {"replied", "leaving", "done"} -> "returned"
          [] OTHER -> "pending"]

Register == INSTANCE AtomicRegister WITH
    history <- History,
    status <- RegisterStatus,
    since <- [t \in Requests |-> Cardinality(preceding[t])],
    result <- [t \in Requests |->
                  IF t \in Gets /\ RegisterStatus[t] = "returned"
                  THEN entry[t].val ELSE NoValue]

\* The store is an atomic register: each put takes effect, and each get reads,
\* at one instant between its arrival and its reply.  This is more than the
\* sequential consistency README.md:15 asks for.
Linearizable == Register!Spec
=============================================================================
