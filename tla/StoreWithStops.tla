--------------------------- MODULE StoreWithStops ---------------------------
(***************************************************************************)
(* Puts of one key among replicas that are stopped and started again       *)
(* (Replica::shutdown on a signal, start.py): what a coordinator does when *)
(* a participant goes away, a participant when its coordinator does, what  *)
(* is in the file, and what an ACK is worth.  QuorumStore has the          *)
(* registries, the identifiers and the gets, and StartupSync the           *)
(* synchronisation step by step.                                           *)
(*                                                                         *)
(* What was sent before an end of a connection was closed is still         *)
(* delivered, but not to a process that was started later.  A replica is   *)
(* not stopped while it starts.  Closing the datastore saves all of it;    *)
(* DatastoreManager has the race in which it does not.                     *)
(***************************************************************************)
EXTENDS VersionedEntry, Integers, FiniteSets, FiniteSetsExt

CONSTANTS
    N,             \* number of replicas
    WriteQuorum,
    Frontends,     \* replicas in the configuration of the clients
    Puts,          \* put requests: put t writes the value t
    MaxStops       \* bound on the number of replicas that are stopped

Replicas == 0 .. N - 1

\* The connection the put l[1] opens to the replica l[2] in its current attempt.
Links == Puts \X Replicas
Peer(l) == l[2]

ASSUME ReplicasAssumption == N \in Nat /\ N >= 2 /\ WriteQuorum \in 2 .. N
ASSUME PlacementAssumption == Frontends \subseteq Replicas
ASSUME ValueAssumption == NoValue \notin Puts
ASSUME StopsAssumption == MaxStops \in Nat

VARIABLES
    stage,     \* stage[r]: where the process of r stands
    store,     \* store[r]: the entry in the memory of r
    file,      \* file[r]: the entry in its file
    asked,     \* asked[r]: replicas that are to answer the SYNC of r
    holder,    \* holder[r]: the put that has the lock of r, if any
    phase,     \* phase[t]: where the request t stands
    home,      \* home[t]: the replica the client of t is connected to
    version,   \* version[t]: Coordinator::version
    vote,      \* vote[l]: the version in VOTE_COMMIT
    link,      \* link[l]: last message sent or handled on l
    cut,       \* links whose participant has closed its end
    hungUp,    \* links whose coordinator has closed its end and sent no decision
    stops,     \* replicas stopped so far
    unsaved    \* history: replicas started from a file that lacks what they had

processVars == <<stage, file, asked, stops, unsaved>>
requestVars == <<phase, home, version>>
linkVars == <<link, vote, cut, hungUp>>
vars == <<processVars, store, holder, requestVars, linkVars>>

\* up; closing, when ReplicaConnectionHandler::close has returned; saved, when
\* DatastoreManager::close has too; down, when the process has ended; starting.
Processes == {"up", "closing", "saved", "down", "starting"}

Phases == {"idle", "waiting", "gathering", "decided", "acked", "lost", "gave_up"}

\* failed: the receive of the coordinator threw; orphaned: that of the participant
\* did, and its lock and its registration stay.
Stages == {"unused", "prepare", "vote_commit", "vote_abort", "ready", "refused",
           "failed", "commit", "abort", "closed", "orphaned"}

TypeOK ==
    /\ stage \in [Replicas -> Processes]
    /\ store \in [Replicas -> Entries(Puts)]
    /\ file \in [Replicas -> Entries(Puts)]
    /\ asked \in [Replicas -> SUBSET Replicas]
    /\ holder \in [Replicas -> SUBSET Puts]
    /\ phase \in [Puts -> Phases]
    /\ home \in [Puts -> Replicas]
    /\ version \in [Puts -> Nat]
    /\ link \in [Links -> Stages]
    /\ vote \in [Links -> Nat]
    /\ cut \subseteq Links
    /\ hungUp \subseteq Links
    /\ stops \in 0 .. MaxStops
    /\ unsaved \subseteq Replicas

Init ==
    /\ stage = [r \in Replicas |-> "up"]
    /\ store = [r \in Replicas |-> Absent]
    /\ file = [r \in Replicas |-> Absent]
    /\ asked = [r \in Replicas |-> {}]
    /\ holder = [r \in Replicas |-> {}]
    /\ phase = [t \in Puts |-> "idle"]
    /\ home = [t \in Puts |-> 0]        \* until the client connects
    /\ version = [t \in Puts |-> 0]
    /\ link = [l \in Links |-> "unused"]
    /\ vote = [l \in Links |-> 0]
    /\ cut = {}
    /\ hungUp = {}
    /\ stops = 0
    /\ unsaved = {}

Accepting == {r \in Replicas : stage[r] \in {"up", "starting"}}

\* Mutant: openBool stays set until the process ends.
HandlerOpenToTheEnd(r) == stage[r] # "down"

\* Whether ReplicaConnectionHandler::send of r sends.
HandlerOpen(r) == r \in Accepting

OfPut(t) == {l \in Links : l[1] = t}
Contacted(t) == {l \in OfPut(t) : link[l] # "unused"}

\* Links of the put t that have nothing more to deliver.
Finished(l) == link[l] \in {"unused", "closed", "failed"} \/ l \in cut

\* Replica::addCoordinator and ::addParticipant refuse: the lock is held, or the
\* coordinator that has committed is still registered.
Busy(r) == holder[r] # {} \/ \E t \in Puts : phase[t] = "decided" /\ home[t] = r

-----------------------------------------------------------------------------
(* The client: Client::put.                                                *)

\* connectToReplica tries the replicas in random order.
ClientConnects(t) ==
    /\ phase[t] = "idle"
    /\ \E r \in Frontends \cap Accepting : home' = [home EXCEPT ![t] = r]
    /\ phase' = [phase EXCEPT ![t] = "waiting"]
    /\ UNCHANGED <<processVars, store, holder, version, linkVars>>

\* None of them accepts.
ClientGivesUp(t) ==
    /\ phase[t] = "idle"
    /\ Frontends \cap Accepting = {}
    /\ phase' = [phase EXCEPT ![t] = "gave_up"]
    /\ UNCHANGED <<processVars, store, holder, home, version, linkVars>>

-----------------------------------------------------------------------------
(* The coordinator: Put::manage and Coordinator::put.                      *)

\* The lock, and PREPARE to a quorum.  When too few replicas accept, the lock is
\* given back and nothing has changed.
StartPut(t) ==
    LET r == home[t] IN
    /\ phase[t] = "waiting"
    /\ stage[r] = "up"
    /\ ~Busy(r)
    /\ \A l \in OfPut(t) : Finished(l)
    /\ \E Q \in kSubset(WriteQuorum - 1, Accepting \ {r}) :
          link' = [l \in Links |->
                      IF l \notin OfPut(t) THEN link[l]
                      ELSE IF Peer(l) \in Q THEN "prepare" ELSE "unused"]
    /\ cut' = cut \ OfPut(t)
    /\ holder' = [holder EXCEPT ![r] = {t}]
    /\ version' = [version EXCEPT ![t] = store[r].ver]
    /\ phase' = [phase EXCEPT ![t] = "gathering"]
    /\ UNCHANGED <<processVars, store, home, vote, hungUp>>

\* Mutant: the versions of the votes are not looked at.
OwnVersion(old, new) == old

\* Coordinator::voteCommit.
HighestVote(old, new) == Max({old, new})

\* The vote arrives and counts as a reply.
ReceiveVote(l) ==
    LET t == l[1] IN
    /\ phase[t] = "gathering"
    /\ l \notin hungUp
    /\ link[l] \in {"vote_commit", "vote_abort"}
    /\ link' = [link EXCEPT ![l] = IF @ = "vote_commit" THEN "ready" ELSE "refused"]
    /\ version' = [version EXCEPT ![t] = HighestVote(@, vote[l])]
    /\ vote' = [vote EXCEPT ![l] = 0]
    /\ UNCHANGED <<processVars, store, holder, phase, home, cut, hungUp>>

\* receive throws, and sendToReplicas does not count a reply.
ReceiveFails(l) ==
    /\ phase[l[1]] = "gathering"
    /\ link[l] = "prepare"
    /\ l \in cut
    /\ link' = [link EXCEPT ![l] = "failed"]
    /\ UNCHANGED <<processVars, store, holder, requestVars, vote, cut, hungUp>>

\* Mutant: a reply is awaited from every replica.
AnsweredByAll(t) == \A l \in Contacted(t) : link[l] \in {"ready", "refused"}

\* Every thread of sendToReplicas has ended.
Answered(t) ==
    \A l \in Contacted(t) : link[l] \in {"ready", "refused", "failed"} \/ l \in hungUp

\* The local commit: every vote is a VOTE_COMMIT.  A receive that is called after
\* the replica has closed the connection returns at once and counts as a reply.
CommitPut(t) ==
    LET r == home[t] IN
    /\ phase[t] = "gathering"
    /\ \A l \in Contacted(t) : link[l] = "ready" \/ l \in hungUp
    /\ version' = [version EXCEPT ![t] = @ + 1]
    /\ store' = [store EXCEPT ![r] = CommitEntry(@, Entry(t, version'[t]))]
    /\ holder' = [holder EXCEPT ![r] = @ \ {t}]
    /\ phase' = [phase EXCEPT ![t] = "decided"]
    /\ UNCHANGED <<processVars, home, linkVars>>

\* GLOBAL_COMMIT, if the handler is still open.
SendDecision(l) ==
    /\ phase[l[1]] = "decided"
    /\ link[l] = "ready"
    /\ l \notin hungUp
    /\ IF HandlerOpen(home[l[1]])
       THEN link' = [link EXCEPT ![l] = "commit"] /\ UNCHANGED hungUp
       ELSE hungUp' = hungUp \cup {l} /\ UNCHANGED link
    /\ UNCHANGED <<processVars, store, holder, requestVars, vote, cut>>

\* The ACK, if the handler is still open, and the end of Put::manage.
Reply(t) ==
    /\ phase[t] = "decided"
    /\ \A l \in Contacted(t) : link[l] = "ready" => l \in hungUp
    /\ phase' = [phase EXCEPT
                    ![t] = IF HandlerOpen(home[t]) THEN "acked" ELSE "lost"]
    /\ UNCHANGED <<processVars, store, holder, home, version, linkVars>>

\* Mutant: after a reply that did not come the participants are told nothing.
AbortSilently(t) == \E l \in Contacted(t) : link[l] = "failed"

\* Whether closeConnections comes without a GLOBAL_ABORT before.
SendsNothing(t) == ~HandlerOpen(home[t])

\* A reply is missing or a vote is an abort: GLOBAL_ABORT and the local abort; the
\* put is tried again.  A receive that was called when the replica closed the
\* connection throws.
AbortPut(t) ==
    LET voted == {l \in Contacted(t) : link[l] = "ready"} IN
    /\ phase[t] = "gathering"
    /\ Answered(t)
    /\ voted # Contacted(t)
    /\ IF SendsNothing(t)
       THEN hungUp' = hungUp \cup voted /\ UNCHANGED link
       ELSE /\ link' = [l \in Links |->
                           CASE l \in voted -> "abort"
                             [] l \in Contacted(t) /\ link[l] = "refused" -> "closed"
                             [] OTHER -> link[l]]
            /\ UNCHANGED hungUp
    /\ holder' = [holder EXCEPT ![home[t]] = @ \ {t}]
    /\ phase' = [phase EXCEPT ![t] = "waiting"]
    /\ UNCHANGED <<processVars, store, home, version, vote, cut>>

-----------------------------------------------------------------------------
(* The participant: Prepare::manage and Participant::prepare2PC.           *)

\* acceptRequest has let the PREPARE pass.
Vote(l) ==
    LET q == Peer(l)
        free == ~Busy(q)
    IN  /\ link[l] = "prepare"
        /\ l \notin cut
        /\ stage[q] = "up"
        /\ link' = [link EXCEPT ![l] = IF free THEN "vote_commit" ELSE "vote_abort"]
        /\ holder' = [holder EXCEPT ![q] = IF free THEN {l[1]} ELSE @]
        /\ vote' = [vote EXCEPT ![l] = IF free THEN store[q].ver ELSE 0]
        /\ UNCHANGED <<processVars, store, requestVars, cut, hungUp>>

ParticipantCommit(l) ==
    LET q == Peer(l) IN
    /\ link[l] = "commit"
    /\ l \notin cut
    /\ store' = [store EXCEPT ![q] = CommitEntry(@, Entry(l[1], version[l[1]]))]
    /\ holder' = [holder EXCEPT ![q] = {}]
    /\ link' = [link EXCEPT ![l] = "closed"]
    /\ UNCHANGED <<processVars, requestVars, vote, cut, hungUp>>

ParticipantAbort(l) ==
    /\ link[l] = "abort"
    /\ l \notin cut
    /\ holder' = [holder EXCEPT ![Peer(l)] = @ \ {l[1]}]
    /\ link' = [link EXCEPT ![l] = "closed"]
    /\ UNCHANGED <<processVars, store, requestVars, vote, cut, hungUp>>

\* The coordinator has closed the connection: receive throws out of prepare2PC and
\* out of Prepare::manage, past removeParticipant.
ParticipantReceiveFails(l) ==
    /\ l \in hungUp \ cut
    /\ link[l] \in {"vote_commit", "vote_abort", "ready"}
    /\ link' = [link EXCEPT ![l] = IF @ = "vote_abort" THEN "closed" ELSE "orphaned"]
    /\ UNCHANGED <<processVars, store, holder, requestVars, vote, cut, hungUp>>

\* Mutant: the participant counts the version up.
PreparedNextVersion(q) == store[q].ver + 1

PreparedVersion(q) == store[q].ver

\* The replica has closed the connection before its participant called receive,
\* which then returns at once: the participant takes that for a GLOBAL_COMMIT, and
\* commits with the version it had.
CommitUnasked(l) ==
    LET q == Peer(l) IN
    /\ l \in cut
    /\ stage[q] \in {"closing", "saved"}
    /\ link[l] \in {"prepare", "vote_commit", "ready", "failed", "commit", "abort"}
    /\ holder[q] \subseteq {l[1]}
    /\ store[q] # CommitEntry(store[q], Entry(l[1], PreparedVersion(q)))
    /\ store' = [store EXCEPT ![q] = CommitEntry(@, Entry(l[1], PreparedVersion(q)))]
    /\ UNCHANGED <<processVars, holder, requestVars, linkVars>>

-----------------------------------------------------------------------------
(* The process of a replica.                                               *)

\* Links that r has accepted, and those it has opened and sent no decision on.
Accepted(r) ==
    {l \in Links : Peer(l) = r /\ link[l] \notin {"unused", "closed", "orphaned"}}

Opened(r) ==
    {l \in Links : /\ home[l[1]] = r
                   /\ phase[l[1]] \in {"gathering", "decided"}
                   /\ link[l] \in {"prepare", "vote_commit", "vote_abort", "ready"}}

Without(r) == [q \in Replicas |-> asked[q] \ {r}]

\* SIGTERM: ReplicaConnectionHandler::close closes the connections in its map: those
\* it has accepted, and of those it has opened the first one to each address.
CloseConnections(r) ==
    /\ stage[r] = "up"
    /\ stops < MaxStops
    /\ stops' = stops + 1
    /\ stage' = [stage EXCEPT ![r] = "closing"]
    /\ cut' = cut \cup Accepted(r)
    /\ \E firsts \in SUBSET Opened(r) : hungUp' = hungUp \cup firsts
    /\ asked' = Without(r)
    /\ UNCHANGED <<store, file, unsaved, holder, requestVars, link, vote>>

\* DatastoreManager::close.
CloseDatastore(r) ==
    /\ stage[r] = "closing"
    /\ stage' = [stage EXCEPT ![r] = "saved"]
    /\ file' = [file EXCEPT ![r] = store[r]]
    /\ UNCHANGED <<store, asked, stops, unsaved, holder, requestVars, linkVars>>

\* The process of r ends: its threads, locks and sockets are gone.  The messages in
\* sending still reach the participants.
ProcessEnds(r, sending) ==
    /\ holder' = [holder EXCEPT ![r] = {}]
    /\ phase' = [t \in Puts |->
                    IF home[t] = r /\ phase[t] \in {"waiting", "gathering", "decided"}
                    THEN "lost" ELSE phase[t]]
    /\ cut' = cut \cup Accepted(r)
    /\ hungUp' = hungUp \cup (Opened(r) \ sending)
    /\ link' = [l \in Links |->
                   CASE l \in sending -> "abort"
                     [] Peer(l) = r /\ link[l] = "orphaned" -> "closed"
                     [] OTHER -> link[l]]
    /\ UNCHANGED <<home, version, vote, stops>>

\* main returns.
Exit(r) ==
    /\ stage[r] = "saved"
    /\ ProcessEnds(r, {})
    /\ stage' = [stage EXCEPT ![r] = "down"]
    /\ UNCHANGED <<store, file, asked, unsaved>>

\* GLOBAL_ABORT is sent to a participant that has reset the connection, since it had
\* not read PREPARE: the SIGPIPE of send ends the process of the coordinator, which
\* may have sent some of the others.  The file has what the writer thread last saw.
BrokenPipe(t) ==
    /\ phase[t] = "gathering"
    /\ Answered(t)
    /\ HandlerOpen(home[t])
    /\ \E l \in Contacted(t) : link[l] = "failed"
    /\ \E sending \in SUBSET {l \in Contacted(t) : link[l] = "ready"} :
          ProcessEnds(home[t], sending)
    /\ stage' = [stage EXCEPT ![home[t]] = "down"]
    /\ asked' = Without(home[t])
    /\ unsaved' = unsaved \cup {home[t]}
    /\ \E e \in {file[home[t]], store[home[t]]} : file' = [file EXCEPT ![home[t]] = e]
    /\ UNCHANGED store

\* A process of r is started: it loads the file, listens, and sends SYNC to all
\* addresses but one, as far as they accept.
Start(r) ==
    /\ stage' = [stage EXCEPT ![r] = "starting"]
    /\ store' = [store EXCEPT ![r] = file[r]]
    /\ LET others == Accepting \ {r}
       IN  \E Q \in kSubset(Min({N - 2, Cardinality(others)}), others) :
              asked' = [asked EXCEPT ![r] = Q]

Restart(r) ==
    /\ stage[r] = "down"
    /\ Start(r)
    /\ UNCHANGED <<file, stops, unsaved, holder, requestVars, linkVars>>

\* start.py has sent SIGTERM and does not wait for the process to end.  Its port is
\* free already, but it saves its datastore only after the new process has loaded it.
RestartAtOnce(r) ==
    /\ stage[r] = "closing"
    /\ Start(r)
    /\ ProcessEnds(r, {})
    /\ file' = [file EXCEPT ![r] = store[r]]
    /\ unsaved' = unsaved \cup {r}

\* Replicas that were asked and have an entry r lacks, or a newer one.
Newer(r) ==
    {q \in asked[r] :
        /\ IsPresent(store[q])
        /\ IsPresent(store[r]) => store[q].ver > store[r].ver}

\* Those that were asked have answered, once no put has the lock of what they have
\* to send, or have closed: synchronized.
Synchronized(r) ==
    /\ stage[r] = "starting"
    /\ \A q \in Newer(r) : holder[q] = {}
    /\ \E e \in {store[q] : q \in Newer(r)} \cup {e \in {store[r]} : Newer(r) = {}} :
          store' = [store EXCEPT ![r] = TryUpdateEntry(@, e)]
    /\ stage' = [stage EXCEPT ![r] = "up"]
    /\ asked' = [asked EXCEPT ![r] = {}]
    /\ UNCHANGED <<file, stops, unsaved, holder, requestVars, linkVars>>
-----------------------------------------------------------------------------
CoordinatorStep(t) == StartPut(t) \/ CommitPut(t) \/ Reply(t) \/ AbortPut(t)

ConnectionStep(l) ==
    \/ ReceiveVote(l)
    \/ ReceiveFails(l)
    \/ SendDecision(l)
    \/ Vote(l)
    \/ ParticipantCommit(l)
    \/ ParticipantAbort(l)
    \/ ParticipantReceiveFails(l)

ShutdownStep(r) == CloseDatastore(r) \/ Exit(r)

Next ==
    \/ \E t \in Puts : ClientConnects(t) \/ ClientGivesUp(t)
    \/ \E t \in Puts : CoordinatorStep(t) \/ BrokenPipe(t)
    \/ \E l \in Links : ConnectionStep(l) \/ CommitUnasked(l)
    \/ \E r \in Replicas : CloseConnections(r) \/ ShutdownStep(r)
    \/ \E r \in Replicas : Restart(r) \/ RestartAtOnce(r) \/ Synchronized(r)

Spec == Init /\ [][Next]_vars

\* Threads run, a shutdown that has begun goes on, and polls are repeated.  Nobody
\* has to send a put, or to stop or start a replica.
Fairness ==
    /\ \A t \in Puts : WF_vars(CoordinatorStep(t))
    /\ \A l \in Links : WF_vars(ConnectionStep(l))
    /\ \A r \in Replicas : WF_vars(ShutdownStep(r)) /\ WF_vars(Synchronized(r))

FairSpec == Spec /\ Fairness

-----------------------------------------------------------------------------
\* Puts that keep the lock of r without a coordinator that will have it given back.
Orphans(r) == {l \in Links : Peer(l) = r /\ link[l] = "orphaned"}

Served(t) == phase[t] \in {"waiting", "gathering", "decided"}

\* Who may hold the lock of r: the coordinator that gathers votes there, a
\* participant between its vote and the decision, or an orphan.
LockHolders(r) ==
    {t \in Puts :
        \/ home[t] = r /\ phase[t] = "gathering"
        \/ <<t, r>> \in Orphans(r)
        \/ /\ link[<<t, r>>] \in {"vote_commit", "ready", "commit", "abort"}
           /\ <<t, r>> \notin cut}

\* A lock is held for a put that is under way, whatever has been stopped meanwhile,
\* except that a participant whose coordinator has gone keeps it for ever
\* (Participant.cpp:37): the end of a participant leaves no lock with the others, and
\* no lock is kept for a put whose client is still served or has its ACK.
LocksExplained ==
    \A r \in Accepting :
        /\ holder[r] = LockHolders(r)
        /\ \A l \in Orphans(r) : stage[home[l[1]]] = "up" => ~Served(l[1])
        /\ \A l \in Orphans(r) : phase[l[1]] # "acked"

\* The version r has now or, when its process has closed its datastore, will have
\* when it is started again.
KeptVersion(r) == IF stage[r] \in {"saved", "down"} THEN file[r].ver ELSE store[r].ver

\* What is acknowledged is kept: the coordinator has the value in memory or in the
\* file it is started from, and so has every participant the decision has reached.
\* Only a replica that ended without a shutdown, or was started again before it had
\* saved its datastore, may lack it.  The ACK and GLOBAL_COMMIT go out only while the
\* datastore is still to be saved (Replica.cpp:65-68).
AckedKept ==
    \A t \in Puts :
        phase[t] = "acked" =>
            \A r \in {home[t]} \cup {Peer(l) : l \in Contacted(t)} :
                \/ KeptVersion(r) >= version[t]
                \/ link[<<t, r>>] = "commit"
                \/ r \in unsaved

\* Two puts that were acknowledged never have the same version, although replicas
\* that were stopped may have missed one: when all replicas have to vote, the
\* coordinator of the earlier put is among the voters, and it has that put's version
\* unless it ended without saving it (Coordinator.cpp:116, the highest vote).
AckedVersionsUnique ==
    \A s, t \in Puts :
        /\ phase[s] = "acked" /\ phase[t] = "acked" /\ version[s] = version[t]
        /\ {home[s], home[t]} \cap unsaved = {}
        => s = t

\* What a get can return (entries of version 0 are left out, Coordinator.cpp:25) was
\* committed by its coordinator with that version: neither a participant that is
\* stopped before its decision nor a synchronisation brings another value to light.
OnlyDecidedVisible ==
    \A r \in Replicas : \A e \in {store[r], file[r]} :
        e.ver > 0 =>
            /\ phase[e.val] \in {"decided", "acked", "lost"}
            /\ e.ver = version[e.val]

\* A coordinator never waits for a replica that was stopped: a gathering ends, unless
\* it waits for the vote of a replica that synchronises.
GatheringEnds ==
    \A t \in Puts :
        phase[t] = "gathering" ~>
            \/ phase[t] # "gathering"
            \/ \E l \in Contacted(t) : link[l] = "prepare" /\ stage[Peer(l)] = "starting"
=============================================================================
