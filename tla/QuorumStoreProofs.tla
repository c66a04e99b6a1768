-------------------------- MODULE QuorumStoreProofs --------------------------
(***************************************************************************)
(* Theorems about QuorumStore, for every number of replicas, quorum sizes, *)
(* placement of the clients, set of requests and bound on the attempts.    *)
(***************************************************************************)
EXTENDS QuorumStore, TLAPS

\* The three parts of a connection.
LEMMA LinkParts ==
    ASSUME NEW l \in Links
    PROVE  /\ Request(l) \in Requests
           /\ Attempt(l) \in 1 .. MaxAttempts
           /\ Peer(l) \in Replicas
  BY DEF Links, Request, Attempt, Peer

\* The writes of an entry yield entries.
LEMMA EntryTypes ==
    ASSUME NEW V, NEW e \in Entries(V), NEW f \in Entries(V)
    PROVE  /\ e.ver \in Nat
           /\ CommitEntry(e, f) \in Entries(V)
           /\ TryUpdateEntry(e, f) \in Entries(V)
           /\ Latest(e, f) \in Entries(V)
           /\ Absent \in Entries(V)
  BY DEF Entries, CommitEntry, TryUpdateEntry, Latest, Absent, Entry

LEMMA NewEntryType ==
    ASSUME NEW t \in Puts, NEW n \in Nat
    PROVE  Entry(t, n) \in Entries(Puts)
  BY DEF Entries, Entry

-----------------------------------------------------------------------------
(* The inductive invariant.                                                *)

PutStages == {"prepare", "joined", "vote_commit", "vote_abort", "ready",
              "refused", "commit", "abort", "late_abort", "applied"}
GetStages == {"fetch", "fetched", "read", "repair"}

\* Stages in which the coordinator still waits for the answer, or has counted
\* it and waits for the others.
Awaited == {"prepare", "joined", "vote_commit", "vote_abort", "ready",
            "refused", "fetch", "fetched"}

\* A connection carries the messages of its kind of request.
LinkKinds ==
    \A l \in Links :
        /\ link[l] \in PutStages => Request(l) \in Puts
        /\ link[l] \in GetStages => Request(l) \in Gets

\* No connection of a later attempt, nor of this one before it contacts the
\* quorum, has been used.
FreshLinks ==
    \A l \in Links :
        LET t == Request(l) IN
        \/ link[l] = "unused"
        \/ Attempt(l) < attempt[t]
        \/ /\ Attempt(l) = attempt[t]
           /\ phase[t] \notin {"idle", "waiting", "registered", "local"}

FirstAttempt == \A t \in Requests : phase[t] = "idle" => attempt[t] = 1

\* A coordinator does not leave the gathering phase with an answer missing.
AwaitedLinks ==
    \A l \in Links :
        link[l] \in Awaited =>
            phase[Request(l)] = "gathering" /\ Attempt(l) = attempt[Request(l)]

RefusalsNoted == \A l \in Links : link[l] = "refused" => Request(l) \in abort

RepliedLinks ==
    \A t \in Requests :
        phase[t] = "replied" =>
            t \in Gets /\ \A l \in Contacted(t) : link[l] = "read"

\* The registries hold exactly the handlers whose thread is in between its add
\* and its remove.
CoordinatorsRegistered ==
    \A r \in Replicas, t \in Requests :
        t \in coordinators[r] <=>
            /\ home[t] = r
            /\ phase[t] \in {"registered", "local", "gathering", "failed",
                             "replied", "leaving"}

AttachedStages ==
    {"joined", "vote_commit", "ready", "commit", "abort", "applied"}

ParticipantsRegistered ==
    \A r \in Replicas, l \in Links :
        l \in participants[r] <=>
            /\ Peer(l) = r
            /\ link[l] \in AttachedStages

LockInv ==
    \A r \in Replicas :
        /\ OneHandler(r)
        /\ NoHandler(r) => owner2pc[r] = {}
        /\ \A t \in coordinators[r] : HeldBy(r, uid[t], LockingCoordinator(t))
        /\ \A l \in participants[r] :
              HeldBy(r, uid[Request(l)], LockingParticipant(l))

LinkInv ==
    LinkKinds /\ FreshLinks /\ FirstAttempt /\ AwaitedLinks /\ RefusalsNoted
              /\ RepliedLinks

HandlerInv ==
    TypeOK /\ LinkInv /\ CoordinatorsRegistered /\ ParticipantsRegistered
           /\ LockInv

-----------------------------------------------------------------------------
(* Type correctness.                                                       *)

LEMMA InitTypeOK == Init => TypeOK
<1> SUFFICES ASSUME Init PROVE TypeOK
  OBVIOUS
<1>1. Absent \in Entries(Puts)
  BY DEF Absent, Entry, Entries
<1>2. \A r \in Replicas : r + ReplicasAmount \in Nat
  BY ReplicasAssumption DEF Replicas, ReplicasAmount
<1>3. 1 \in 1 .. MaxAttempts + 1
  BY AttemptAssumption
<1> QED
  BY <1>1, <1>2, <1>3 DEF Init, TypeOK, Phases, Stages

LEMMA CoordinatorTypeOK ==
    ASSUME TypeOK, NEW t \in Requests, Receive(t) \/ CoordinatorStep(t)
    PROVE  TypeOK'
<1> USE DEF TypeOK
<1>0. home[t] \in Replicas
  BY PlacementAssumption
<1>1. CASE Receive(t)
  <2>1. Committed \subseteq Puts
    BY DEF Committed
  <2>2. ReplicasAmount \in Nat
    BY ReplicasAssumption DEF ReplicasAmount
  <2> QED
    BY <1>0, <1>1, <2>1, <2>2 DEF Receive, Goto, Phases, linkVars
<1>2. CASE AddCoordinator(t)
  BY <1>0, <1>2 DEF AddCoordinator, Goto, Phases, linkVars
<1>3. CASE PrepareLocally(t)
  <2>1. Entry(t, store[home[t]].ver) \in Entries(Puts)
    BY <1>0, <1>3, NewEntryType DEF PrepareLocally, Entries
  <2> QED
    BY <1>0, <1>3, <2>1 DEF PrepareLocally, Goto, Phases, linkVars
<1>4. CASE ReadLocally(t)
  <2>1. Latest(entry[t], store[home[t]]) \in Entries(Puts)
    BY <1>0, EntryTypes
  <2> QED
    BY <1>0, <1>4, <2>1 DEF ReadLocally, Goto, Phases, linkVars, replicaVars
<1>5. CASE ContactQuorum(t)
  BY <1>5 DEF ContactQuorum, Goto, Phases, Stages, replicaVars
<1>6. CASE ConnectionFails(t)
  BY <1>0, <1>6 DEF ConnectionFails, Goto, Phases, Release, linkVars
<1>7. CASE CommitPut(t)
  <2>1. Entry(t, NextVersion(entry[t].ver)) \in Entries(Puts)
    BY <1>7, NewEntryType DEF CommitPut, Entries, NextVersion
  <2>2. CommitEntry(store[home[t]], Entry(t, NextVersion(entry[t].ver)))
            \in Entries(Puts)
    BY <1>0, <2>1, EntryTypes
  <2>3. AllAt(t, "commit") \in [Links -> Stages]
    BY DEF AllAt, Stages
  <2> QED
    BY <1>0, <1>7, <2>1, <2>2, <2>3 DEF CommitPut, Goto, Phases
<1>8. CASE AbortPut(t)
  <2>1. link' \in [Links -> Stages]
    BY <1>8 DEF AbortPut, Stages
  <2> QED
    BY <1>0, <1>8, <2>1 DEF AbortPut, Goto, Phases, Release
<1>9. CASE Retry(t)
  <2>1. Contacted(t) # {} => attempt[t] \in 1 .. MaxAttempts
    BY LinkParts DEF Contacted
  <2>2. (IF Contacted(t) = {} THEN attempt[t] ELSE attempt[t] + 1)
            \in 1 .. MaxAttempts + 1
    BY <2>1, AttemptAssumption
  <2> QED
    BY <1>0, <1>9, <2>2 DEF Retry, Goto, Phases, linkVars
<1>10. CASE ReplyToGet(t)
  <2>1. AllAt(t, "closed") \in [Links -> Stages]
    BY DEF AllAt, Stages
  <2> QED
    BY <1>10, <2>1 DEF ReplyToGet, Goto, Phases, replicaVars
<1>11. CASE RepairQuorum(t)
  <2>1. AllAt(t, "repair") \in [Links -> Stages]
    BY DEF AllAt, Stages
  <2>2. TryUpdateEntry(store[home[t]], entry[t]) \in Entries(Puts)
    BY <1>0, EntryTypes
  <2> QED
    BY <1>0, <1>11, <2>1, <2>2 DEF RepairQuorum, Goto, Phases
<1>12. CASE Leave(t)
  BY <1>0, <1>12 DEF Leave, Goto, Phases, linkVars
<1> QED
  BY <1>1, <1>2, <1>3, <1>4, <1>5, <1>6, <1>7, <1>8, <1>9, <1>10, <1>11, <1>12
     DEF CoordinatorStep

LEMMA ConnectionTypeOK ==
    ASSUME TypeOK, LinkKinds, NEW l \in Links, ConnectionStep(l)
    PROVE  TypeOK'
<1> USE DEF TypeOK
<1>0. Request(l) \in Requests /\ Peer(l) \in Replicas
  BY LinkParts
<1>1. CASE HandlePrepare(l)
  BY <1>0, <1>1 DEF HandlePrepare, Move, Stages, coordinatorVars
<1>2. CASE PrepareParticipant(l)
  <2>1. CASE owner2pc[Peer(l)] = {}
    <3>1. Request(l) \in Puts
      BY <1>2 DEF PrepareParticipant, LinkKinds, PutStages
    <3>2. Entry(Request(l), store[Peer(l)].ver) \in Entries(Puts)
      BY <1>0, <3>1, NewEntryType DEF Entries
    <3> QED
      BY <1>0, <1>2, <2>1, <3>2 DEF PrepareParticipant, Move, Stages, coordinatorVars
  <2>2. CASE owner2pc[Peer(l)] # {}
    BY <1>0, <1>2, <2>2 DEF PrepareParticipant, Move, Stages, coordinatorVars
  <2> QED
    BY <2>1, <2>2
<1>3. CASE ReceiveVote(l)
  <2>1. PICK c \in coordinators[home[Request(l)]] :
          \/ /\ entry' = [entry EXCEPT
                   ![c].ver = HighestVote(@, payload[l].ver)]
             /\ Move(l, "ready")
             /\ UNCHANGED abort
          \/ /\ abort' = abort \cup {c}
             /\ Move(l, "refused")
             /\ UNCHANGED entry
    BY <1>3 DEF ReceiveVote
  <2>2. c \in Requests
    BY <1>0, PlacementAssumption
  <2>3. HighestVote(entry[c].ver, payload[l].ver) \in Nat
    BY <2>2 DEF HighestVote, Entries
  <2>4. [entry[c] EXCEPT !.ver = HighestVote(entry[c].ver, payload[l].ver)]
            \in Entries(Puts)
    BY <2>2, <2>3 DEF Entries
  <2>5. entry' \in [Requests -> Entries(Puts)]
    BY <2>1, <2>2, <2>4
  <2> QED
    BY <1>3, <2>1, <2>2, <2>5 DEF ReceiveVote, Move, Stages, replicaVars
<1>4. CASE ParticipantCommit(l) \/ ParticipantAbort(l)
  <2>1. CommitEntry(store[Peer(l)], payload[l]) \in Entries(Puts)
    BY <1>0, EntryTypes
  <2>2. CASE ParticipantCommit(l)
    BY <1>0, <2>1, <2>2 DEF ParticipantCommit, Decide, Release, Move, Stages,
       coordinatorVars
  <2>3. CASE ParticipantAbort(l)
    <3>1. flagged' \subseteq Links
      BY <1>0, <2>3 DEF ParticipantAbort, FlagParticipants
    <3> QED
      BY <1>0, <2>1, <2>3, <3>1 DEF ParticipantAbort, Decide, Release, Move,
         Stages, coordinatorVars
  <2> QED
    BY <1>4, <2>2, <2>3
<1>6. CASE LateAbort(l)
  BY <1>0, <1>6 DEF LateAbort, FlagParticipants, Move, Stages, coordinatorVars,
                    replicaVars
<1>7. CASE RemoveParticipant(l)
  BY <1>0, <1>7 DEF RemoveParticipant, Move, Stages, coordinatorVars
<1>8. CASE HandleFetch(l)
  BY <1>0, <1>8 DEF HandleFetch, Move, Stages, coordinatorVars, replicaVars
<1>9. CASE ReceiveFetched(l)
  <2>1. PICK c \in coordinators[home[Request(l)]] :
          entry' = [entry EXCEPT ![c] = Latest(@, payload[l])]
    BY <1>9 DEF ReceiveFetched
  <2>2. c \in Requests
    BY <1>0, PlacementAssumption
  <2>3. Latest(entry[c], payload[l]) \in Entries(Puts)
    BY <2>2, EntryTypes
  <2> QED
    BY <1>9, <2>1, <2>2, <2>3 DEF ReceiveFetched, Move, Stages, replicaVars
<1>10. CASE HandleRepair(l)
  <2>1. TryUpdateEntry(store[Peer(l)], payload[l]) \in Entries(Puts)
    BY <1>0, EntryTypes
  <2> QED
    BY <1>0, <1>10, <2>1 DEF HandleRepair, Move, Stages, coordinatorVars
<1> QED
  BY <1>1, <1>2, <1>3, <1>4, <1>6, <1>7, <1>8, <1>9, <1>10 DEF ConnectionStep

LEMMA TypeOKStep ==
    ASSUME TypeOK, LinkKinds, [Next]_vars
    PROVE  TypeOK'
<1>1. CASE \E t \in Requests : Receive(t) \/ CoordinatorStep(t)
  BY <1>1, CoordinatorTypeOK
<1>2. CASE \E l \in Links : ConnectionStep(l)
  BY <1>2, ConnectionTypeOK
<1>3. CASE UNCHANGED vars
  BY <1>3 DEF TypeOK, vars, coordinatorVars, replicaVars, linkVars
<1> QED
  BY <1>1, <1>2, <1>3 DEF Next, Terminated

-----------------------------------------------------------------------------
(* Connections follow the phases of their coordinator.                     *)

LEMMA InitLinkInv == Init => LinkInv
  BY LinkParts DEF Init, LinkInv, LinkKinds, FreshLinks, FirstAttempt,
     AwaitedLinks, RefusalsNoted, RepliedLinks, PutStages, GetStages, Awaited

LEMMA CoordinatorLinkInv ==
    ASSUME TypeOK, LinkInv, NEW t \in Requests, Receive(t) \/ CoordinatorStep(t)
    PROVE  LinkInv'
<1> USE DEF LinkInv
<1>0. /\ phase \in [Requests -> Phases]
      /\ attempt \in [Requests -> 1 .. MaxAttempts + 1]
      /\ link \in [Links -> Stages]
      /\ \A l \in Links : Request(l) \in Requests /\ Attempt(l) \in Nat
  BY LinkParts DEF TypeOK
<1>1. CASE Receive(t)
  BY <1>0, <1>1 DEF Receive, Goto, linkVars, LinkKinds, FreshLinks, FirstAttempt,
     AwaitedLinks, RefusalsNoted, RepliedLinks, Contacted
<1>2. CASE AddCoordinator(t)
  BY <1>0, <1>2 DEF AddCoordinator, Goto, linkVars, LinkKinds, FreshLinks,
     FirstAttempt, AwaitedLinks, RefusalsNoted, RepliedLinks, Contacted
<1>3. CASE PrepareLocally(t)
  BY <1>0, <1>3 DEF PrepareLocally, Goto, linkVars, LinkKinds, FreshLinks,
     FirstAttempt, AwaitedLinks, RefusalsNoted, RepliedLinks, Contacted, Awaited
<1>4. CASE ReadLocally(t)
  BY <1>0, <1>4 DEF ReadLocally, Goto, linkVars, LinkKinds, FreshLinks,
     FirstAttempt, AwaitedLinks, RefusalsNoted, RepliedLinks, Contacted
<1>5. CASE ContactQuorum(t)
  <2>1. PICK Q \in SUBSET (Replicas \ {home[t]}) :
          link' = [l \in Links |->
                     IF Request(l) = t /\ Attempt(l) = attempt[t] /\ Peer(l) \in Q
                     THEN IF t \in Puts THEN "prepare" ELSE "fetch"
                     ELSE link[l]]
    BY <1>5 DEF ContactQuorum
  <2>2. t \in Puts \/ t \in Gets
    BY DEF Requests
  <2>3. \A l \in Links : Request(l) = t /\ Attempt(l) = attempt[t]
                         => link[l] = "unused"
    BY <1>0, <1>5 DEF ContactQuorum, FreshLinks
  <2>4. LinkKinds'
    BY <1>0, <2>1, <2>2 DEF LinkKinds, PutStages, GetStages
  <2>5. FreshLinks' /\ FirstAttempt'
    BY <1>0, <1>5, <2>1 DEF ContactQuorum, Goto, FreshLinks, FirstAttempt
  <2>6. AwaitedLinks'
    BY <1>0, <1>5, <2>1, <2>3 DEF ContactQuorum, Goto, AwaitedLinks, Awaited
  <2>7. RefusalsNoted'
    BY <1>0, <1>5, <2>1 DEF ContactQuorum, RefusalsNoted
  <2>8. RepliedLinks'
    BY <1>0, <1>5, <2>1 DEF ContactQuorum, Goto, RepliedLinks, Contacted
  <2> QED
    BY <2>4, <2>5, <2>6, <2>7, <2>8
<1>6. CASE ConnectionFails(t)
  BY <1>0, <1>6 DEF ConnectionFails, Goto, linkVars, LinkKinds, FreshLinks,
     FirstAttempt, AwaitedLinks, RefusalsNoted, RepliedLinks, Contacted
<1>7. CASE CommitPut(t)
  BY <1>0, <1>7 DEF CommitPut, Goto, AllAt, LinkKinds, FreshLinks,
     FirstAttempt, AwaitedLinks, RefusalsNoted, RepliedLinks, Contacted,
     PutStages, GetStages, Awaited
<1>8. CASE AbortPut(t)
  BY <1>0, <1>8 DEF AbortPut, Goto, LinkKinds, FreshLinks,
     FirstAttempt, AwaitedLinks, RefusalsNoted, RepliedLinks, Contacted,
     PutStages, GetStages, Awaited, Answered
<1>9. CASE Retry(t)
  BY <1>0, <1>9 DEF Retry, Goto, linkVars, LinkKinds, FreshLinks,
     FirstAttempt, AwaitedLinks, RefusalsNoted, RepliedLinks, Contacted
<1>10. CASE ReplyToGet(t)
  BY <1>0, <1>10 DEF ReplyToGet, Goto, AllAt, LinkKinds, FreshLinks,
     FirstAttempt, AwaitedLinks, RefusalsNoted, RepliedLinks, Contacted,
     PutStages, GetStages, Awaited, Answered
<1>11. CASE RepairQuorum(t)
  BY <1>0, <1>11 DEF RepairQuorum, Goto, AllAt, LinkKinds, FreshLinks,
     FirstAttempt, AwaitedLinks, RefusalsNoted, RepliedLinks, Contacted,
     PutStages, GetStages, Awaited
<1>12. CASE Leave(t)
  BY <1>0, <1>12 DEF Leave, Goto, linkVars, LinkKinds, FreshLinks,
     FirstAttempt, AwaitedLinks, RefusalsNoted, RepliedLinks, Contacted
<1> QED
  BY <1>1, <1>2, <1>3, <1>4, <1>5, <1>6, <1>7, <1>8, <1>9, <1>10, <1>11, <1>12
     DEF CoordinatorStep

LEMMA ConnectionLinkInv ==
    ASSUME TypeOK, LinkInv, CoordinatorsRegistered, LockInv,
           NEW m \in Links, ConnectionStep(m)
    PROVE  LinkInv'
<1> USE DEF LinkInv
<1>0. /\ link \in [Links -> Stages]
      /\ \A l \in Links : Request(l) \in Requests
      /\ abort \subseteq Requests
      /\ Puts \cap Gets = {}
  BY LinkParts, RequestAssumption DEF TypeOK
<1>1. UNCHANGED <<phase, attempt>>
  BY DEF ConnectionStep, HandlePrepare, PrepareParticipant, ReceiveVote,
     ParticipantCommit, ParticipantAbort, LateAbort, RemoveParticipant,
     HandleFetch, ReceiveFetched, HandleRepair, Decide, coordinatorVars
<1>2. PICK s \in Stages :
        /\ Move(m, s)
        /\ link[m] # "unused"
        /\ s \in PutStages => link[m] \in PutStages
        /\ s \in GetStages => link[m] \in GetStages
        /\ s \in Awaited => link[m] \in Awaited
        /\ s = "refused" => link[m] = "vote_abort"
        /\ s = "read" => link[m] = "fetched"
        /\ link[m] # "read"
  <2> USE DEF PutStages, GetStages, Awaited, Stages
  <2>1. CASE HandlePrepare(m)
    BY <2>1 DEF HandlePrepare
  <2>2. CASE PrepareParticipant(m)
    BY <2>2 DEF PrepareParticipant
  <2>3. CASE ReceiveVote(m)
    BY <2>3 DEF ReceiveVote
  <2>4. CASE ParticipantCommit(m) \/ ParticipantAbort(m)
    BY <2>4 DEF ParticipantCommit, ParticipantAbort, Decide
  <2>5. CASE LateAbort(m) \/ RemoveParticipant(m)
    BY <2>5 DEF LateAbort, RemoveParticipant
  <2>6. CASE HandleFetch(m) \/ ReceiveFetched(m) \/ HandleRepair(m)
    BY <2>6 DEF HandleFetch, ReceiveFetched, HandleRepair
  <2> QED
    BY <2>1, <2>2, <2>3, <2>4, <2>5, <2>6 DEF ConnectionStep
<1>3. link' = [link EXCEPT ![m] = s]
  BY <1>2 DEF Move
<1>4. LinkKinds'
  BY <1>0, <1>2, <1>3 DEF LinkKinds
<1>5. FreshLinks' /\ FirstAttempt'
  BY <1>0, <1>1, <1>2, <1>3 DEF FreshLinks, FirstAttempt
<1>6. AwaitedLinks'
  BY <1>0, <1>1, <1>2, <1>3 DEF AwaitedLinks
<1>7. RefusalsNoted'
  <2>1. abort \subseteq abort'
    BY DEF ConnectionStep, HandlePrepare, PrepareParticipant, ReceiveVote,
       ParticipantCommit, ParticipantAbort, LateAbort, RemoveParticipant,
       HandleFetch, ReceiveFetched, HandleRepair, Decide, coordinatorVars
  <2>2. ASSUME s = "refused" PROVE Request(m) \in abort'
    <3>1. link[m] = "vote_abort"
      BY <1>2, <2>2
    <3>2. ReceiveVote(m)
      BY <3>1 DEF ConnectionStep, HandlePrepare, PrepareParticipant,
         ParticipantCommit, ParticipantAbort, LateAbort, RemoveParticipant,
         HandleFetch, ReceiveFetched, HandleRepair
    <3>3. PICK c \in coordinators[home[Request(m)]] : abort' = abort \cup {c}
      BY <3>1, <3>2 DEF ReceiveVote
    <3>4. Request(m) \in coordinators[home[Request(m)]]
      BY <1>0, <3>1, PlacementAssumption
         DEF AwaitedLinks, Awaited, CoordinatorsRegistered, TypeOK
    <3>5. c = Request(m)
      BY <1>0, <3>4, PlacementAssumption DEF LockInv, OneHandler, TypeOK
    <3> QED
      BY <3>3, <3>5
  <2> QED
    BY <1>0, <1>3, <2>1, <2>2 DEF RefusalsNoted
<1>8. RepliedLinks'
  BY <1>0, <1>1, <1>2, <1>3 DEF RepliedLinks, Contacted
<1> QED
  BY <1>4, <1>5, <1>6, <1>7, <1>8

-----------------------------------------------------------------------------
(* The registries and the lock.                                            *)

LEMMA InitHandlerInv ==
    Init => CoordinatorsRegistered /\ ParticipantsRegistered /\ LockInv
  BY DEF Init, CoordinatorsRegistered, ParticipantsRegistered, LockInv,
     AttachedStages, OneHandler, NoHandler, HeldBy

\* A step of a coordinator neither registers nor removes a participant, and
\* changes neither its need of the lock nor its identifier.
LEMMA CoordinatorKeepsParticipants ==
    ASSUME TypeOK, LinkInv, ParticipantsRegistered,
           NEW t \in Requests, Receive(t) \/ CoordinatorStep(t)
    PROVE  /\ UNCHANGED <<home, participants>>
           /\ ParticipantsRegistered'
           /\ \A r \in Replicas : \A l \in participants[r] :
                 /\ l \in Links
                 /\ LockingParticipant(l)' <=> LockingParticipant(l)
                 /\ uid'[Request(l)] = uid[Request(l)]
<1> USE DEF LinkInv
<1>0. /\ phase \in [Requests -> Phases]
      /\ attempt \in [Requests -> 1 .. MaxAttempts + 1]
      /\ link \in [Links -> Stages]
      /\ uid \in [Requests -> Nat]
      /\ \A r \in Replicas : participants[r] \subseteq Links
      /\ \A l \in Links : /\ Request(l) \in Requests
                          /\ Attempt(l) \in Nat
                          /\ Attempt(l) >= 1
  BY LinkParts DEF TypeOK
<1>1. UNCHANGED <<home, participants>>
  BY DEF CoordinatorStep, Receive, AddCoordinator, PrepareLocally, ReadLocally,
     ContactQuorum, ConnectionFails, CommitPut, AbortPut, Retry, ReplyToGet,
     RepairQuorum, Leave, replicaVars
<1>2. \A l \in Links :
        link[l] \in AttachedStages => uid'[Request(l)] = uid[Request(l)]
  <2>1. CASE Receive(t)
    <3>1. \A l \in Links : link[l] # "unused" => Request(l) # t
      BY <1>0, <2>1 DEF Receive, FreshLinks, FirstAttempt
    <3> QED
      BY <1>0, <2>1, <3>1 DEF Receive, AttachedStages
  <2>2. CASE CoordinatorStep(t)
    BY <2>2 DEF CoordinatorStep, AddCoordinator, PrepareLocally, ReadLocally,
       ContactQuorum, ConnectionFails, CommitPut, AbortPut, Retry, ReplyToGet,
       RepairQuorum, Leave
  <2> QED
    BY <2>1, <2>2
<1>3. \A l \in Links :
        /\ link'[l] \in AttachedStages <=> link[l] \in AttachedStages
        /\ LockingParticipant(l)' <=> LockingParticipant(l)
  <2> USE DEF AttachedStages, LockingParticipant
  <2>1. CASE ContactQuorum(t)
    <3>1. \A l \in Links : Request(l) = t /\ Attempt(l) = attempt[t]
                           => link[l] = "unused"
      BY <1>0, <2>1 DEF ContactQuorum, FreshLinks
    <3> QED
      BY <1>0, <2>1, <3>1 DEF ContactQuorum
  <2>2. CASE CommitPut(t)
    <3>1. \A l \in Contacted(t) : link[l] = "ready"
      BY <1>0, <2>2 DEF CommitPut, Answered, RefusalsNoted, Contacted
    <3> QED
      BY <1>0, <2>2, <3>1 DEF CommitPut, AllAt
  <2>3. CASE AbortPut(t)
    BY <1>0, <2>3 DEF AbortPut, Answered, Contacted
  <2>4. CASE ReplyToGet(t)
    BY <1>0, <2>4 DEF ReplyToGet, Answered, AllAt, Contacted
  <2>5. CASE RepairQuorum(t)
    BY <1>0, <2>5 DEF RepairQuorum, RepliedLinks, AllAt, Contacted
  <2>6. CASE UNCHANGED link
    BY <2>6
  <2> QED
    BY <2>1, <2>2, <2>3, <2>4, <2>5, <2>6 DEF CoordinatorStep, Receive,
       AddCoordinator, PrepareLocally, ReadLocally, ConnectionFails, Retry,
       Leave, linkVars
<1>4. ParticipantsRegistered'
  BY <1>1, <1>3 DEF ParticipantsRegistered
<1> QED
  BY <1>0, <1>1, <1>2, <1>3, <1>4 DEF ParticipantsRegistered

LEMMA CoordinatorHandlerInv ==
    ASSUME HandlerInv, NEW t \in Requests, Receive(t) \/ CoordinatorStep(t)
    PROVE  (CoordinatorsRegistered /\ ParticipantsRegistered /\ LockInv)'
<1> DEFINE InRegistry(c) ==
      phase[c] \in {"registered", "local", "gathering", "failed", "replied",
                    "leaving"}
<1>0. /\ phase \in [Requests -> Phases]
      /\ home \in [Requests -> Replicas]
      /\ uid \in [Requests -> Nat]
      /\ coordinators \in [Replicas -> SUBSET Requests]
      /\ owner2pc \in [Replicas -> SUBSET Nat]
  BY PlacementAssumption DEF HandlerInv, TypeOK
<1>1. /\ UNCHANGED <<home, participants>>
      /\ ParticipantsRegistered'
      /\ \A r \in Replicas : \A l \in participants[r] :
            /\ l \in Links
            /\ LockingParticipant(l)' <=> LockingParticipant(l)
            /\ uid'[Request(l)] = uid[Request(l)]
  BY CoordinatorKeepsParticipants DEF HandlerInv
<1>2. /\ \A c \in Requests \ {t} : phase'[c] = phase[c] /\ uid'[c] = uid[c]
      /\ \A r \in Replicas \ {home[t]} : /\ coordinators'[r] = coordinators[r]
                                         /\ owner2pc'[r] = owner2pc[r]
  BY <1>0 DEF CoordinatorStep, Receive, AddCoordinator, PrepareLocally,
     ReadLocally, ContactQuorum, ConnectionFails, CommitPut, AbortPut, Retry,
     ReplyToGet, RepairQuorum, Leave, replicaVars, Goto, Release
<1>3. CoordinatorsRegistered'
  <2>1. coordinators'[home[t]] \ {t} = coordinators[home[t]] \ {t}
    BY <1>0 DEF CoordinatorStep, Receive, AddCoordinator, PrepareLocally,
       ReadLocally, ContactQuorum, ConnectionFails, CommitPut, AbortPut, Retry,
       ReplyToGet, RepairQuorum, Leave, replicaVars
  <2>2. t \in coordinators'[home[t]] <=> InRegistry(t)'
    BY <1>0 DEF CoordinatorStep, Receive, AddCoordinator, PrepareLocally,
       ReadLocally, ContactQuorum, ConnectionFails, CommitPut, AbortPut, Retry,
       ReplyToGet, RepairQuorum, Leave, replicaVars, Goto, HandlerInv,
       CoordinatorsRegistered
  <2> QED
    BY <1>0, <1>1, <1>2, <2>1, <2>2 DEF HandlerInv, CoordinatorsRegistered
<1>4. LockInv'
  <2>1. ASSUME NEW r \in Replicas, r # home[t]
        PROVE  /\ OneHandler(r)'
               /\ NoHandler(r)' => owner2pc'[r] = {}
               /\ \A c \in coordinators'[r] :
                     HeldBy(r, uid[c], LockingCoordinator(c))'
               /\ \A l \in participants'[r] :
                     HeldBy(r, uid[Request(l)], LockingParticipant(l))'
    <3>1. \A c \in coordinators[r] : /\ c \in Requests \ {t}
                                     /\ LockingCoordinator(c)' <=> LockingCoordinator(c)
      BY <1>0, <1>2, <2>1 DEF HandlerInv, CoordinatorsRegistered,
         LockingCoordinator
    <3>2. /\ coordinators'[r] = coordinators[r]
          /\ owner2pc'[r] = owner2pc[r]
          /\ participants'[r] = participants[r]
      BY <1>1, <1>2, <2>1
    <3>3. OneHandler(r)' /\ (NoHandler(r)' => owner2pc'[r] = {})
      BY <3>2 DEF HandlerInv, LockInv, OneHandler, NoHandler
    <3>4. ASSUME NEW c \in coordinators'[r]
          PROVE  HeldBy(r, uid[c], LockingCoordinator(c))'
      BY <1>2, <3>1, <3>2 DEF HandlerInv, LockInv, HeldBy
    <3>5. ASSUME NEW l \in participants'[r]
          PROVE  HeldBy(r, uid[Request(l)], LockingParticipant(l))'
      BY <1>1, <3>2 DEF HandlerInv, LockInv, HeldBy
    <3> QED
      BY <3>3, <3>4, <3>5
  <2>2. /\ OneHandler(home[t])'
        /\ NoHandler(home[t])' => owner2pc'[home[t]] = {}
        /\ \A c \in coordinators'[home[t]] :
              HeldBy(home[t], uid[c], LockingCoordinator(c))'
        /\ \A l \in participants'[home[t]] :
              HeldBy(home[t], uid[Request(l)], LockingParticipant(l))'
    <3> DEFINE r == home[t]
    <3>0. r \in Replicas /\ home'[t] = r /\ participants'[r] = participants[r]
      BY <1>0, <1>1
    <3>1. CASE Receive(t)
      <4>1. t \notin coordinators[r]
        BY <1>0, <3>1 DEF Receive, HandlerInv, CoordinatorsRegistered
      <4> QED
        BY <1>0, <1>1, <1>2, <3>0, <3>1, <4>1 DEF Receive, HandlerInv, LockInv,
           OneHandler, NoHandler, HeldBy, LockingCoordinator
    <3>2. CASE AddCoordinator(t)
      BY <1>0, <1>1, <1>2, <3>0, <3>2 DEF AddCoordinator, Goto, HandlerInv,
         LockInv, OneHandler, NoHandler, HeldBy, LockingCoordinator
    <3>3. CASE CoordinatorStep(t) /\ ~AddCoordinator(t)
      <4>1. t \in coordinators[r]
        BY <1>0, <3>3 DEF CoordinatorStep, PrepareLocally,
           ReadLocally, ContactQuorum, ConnectionFails, CommitPut, AbortPut,
           Retry, ReplyToGet, RepairQuorum, Leave, HandlerInv,
           CoordinatorsRegistered
      <4>2. coordinators[r] = {t} /\ participants[r] = {}
        BY <1>0, <4>1 DEF HandlerInv, LockInv, OneHandler
      <4>3. owner2pc[r] = IF LockingCoordinator(t) THEN {uid[t]} ELSE {}
        BY <1>0, <4>1 DEF HandlerInv, LockInv, HeldBy
      <4>4. coordinators'[r] \subseteq {t} /\ participants'[r] = {}
        BY <1>0, <3>0, <3>3, <4>2 DEF CoordinatorStep, PrepareLocally,
           ReadLocally, ContactQuorum, ConnectionFails, CommitPut, AbortPut,
           Retry, ReplyToGet, RepairQuorum, Leave, replicaVars
      <4>5. owner2pc'[r] = IF LockingCoordinator(t)' THEN {uid'[t]} ELSE {}
        <5> USE <1>0, <4>3 DEF LockingCoordinator, Goto
        <5>0. t \in Puts => t \notin Gets
          BY RequestAssumption
        <5>1. CASE PrepareLocally(t)
          BY <5>1 DEF PrepareLocally
        <5>2. CASE ReadLocally(t)
          BY <5>0, <5>2 DEF ReadLocally, replicaVars
        <5>3. CASE ContactQuorum(t)
          BY <5>3 DEF ContactQuorum, replicaVars
        <5>4. CASE ConnectionFails(t)
          BY <5>4 DEF ConnectionFails, Release
        <5>5. CASE CommitPut(t)
          BY <5>5 DEF CommitPut
        <5>6. CASE AbortPut(t)
          BY <5>6 DEF AbortPut, Release
        <5>7. CASE Retry(t) \/ Leave(t)
          BY <5>7 DEF Retry, Leave
        <5>8. CASE ReplyToGet(t)
          BY <5>0, <5>8 DEF ReplyToGet, replicaVars
        <5>9. CASE RepairQuorum(t)
          BY <5>9 DEF RepairQuorum
        <5> QED
          BY <3>3, <5>1, <5>2, <5>3, <5>4, <5>5, <5>6, <5>7, <5>8, <5>9
             DEF CoordinatorStep
      <4>6. coordinators'[r] = {} => ~LockingCoordinator(t)'
        <5>1. CASE Retry(t) \/ Leave(t)
          BY <1>0, <5>1 DEF Retry, Leave, Goto, LockingCoordinator
        <5>2. CASE ~(Retry(t) \/ Leave(t))
          BY <3>3, <4>1, <5>2 DEF CoordinatorStep, PrepareLocally,
             ReadLocally, ContactQuorum, ConnectionFails, CommitPut, AbortPut,
             ReplyToGet, RepairQuorum, replicaVars
        <5> QED
          BY <5>1, <5>2
      <4> QED
        BY <3>0, <4>4, <4>5, <4>6 DEF OneHandler, NoHandler, HeldBy
    <3> QED
      BY <3>1, <3>2, <3>3
  <2> QED
    BY <1>1, <2>1, <2>2 DEF LockInv
<1> QED
  BY <1>1, <1>3, <1>4

LEMMA ConnectionHandlerInv ==
    ASSUME HandlerInv, NEW m \in Links, ConnectionStep(m)
    PROVE  (CoordinatorsRegistered /\ ParticipantsRegistered /\ LockInv)'
<1> DEFINE q == Peer(m)
<1>0. /\ q \in Replicas
      /\ Request(m) \in Requests
      /\ link \in [Links -> Stages]
      /\ participants \in [Replicas -> SUBSET Links]
      /\ owner2pc \in [Replicas -> SUBSET Nat]
  BY LinkParts DEF HandlerInv, TypeOK
<1>1. UNCHANGED <<phase, home, uid, coordinators>>
  BY DEF ConnectionStep, HandlePrepare, PrepareParticipant, ReceiveVote,
     ParticipantCommit, ParticipantAbort, LateAbort, RemoveParticipant,
     HandleFetch, ReceiveFetched, HandleRepair, Decide, coordinatorVars,
     replicaVars
<1>2. /\ \A l \in Links \ {m} : link'[l] = link[l]
      /\ \A r \in Replicas \ {q} : /\ participants'[r] = participants[r]
                                   /\ owner2pc'[r] = owner2pc[r]
  BY <1>0 DEF ConnectionStep, HandlePrepare, PrepareParticipant, ReceiveVote,
     ParticipantCommit, ParticipantAbort, LateAbort, RemoveParticipant,
     HandleFetch, ReceiveFetched, HandleRepair, Decide, Release, Move,
     replicaVars
<1>3. CoordinatorsRegistered'
  BY <1>1 DEF HandlerInv, CoordinatorsRegistered
<1>4. ASSUME NEW r \in Replicas, r # q
      PROVE  /\ \A l \in participants[r] : l \in Links \ {m}
             /\ OneHandler(r)'
             /\ NoHandler(r)' => owner2pc'[r] = {}
             /\ \A c \in coordinators'[r] :
                   HeldBy(r, uid[c], LockingCoordinator(c))'
             /\ \A l \in participants'[r] :
                   HeldBy(r, uid[Request(l)], LockingParticipant(l))'
  <2>1. \A l \in participants[r] : l \in Links \ {m}
    BY <1>0, <1>4 DEF HandlerInv, ParticipantsRegistered
  <2>2. /\ participants'[r] = participants[r]
        /\ owner2pc'[r] = owner2pc[r]
    BY <1>2, <1>4
  <2>3. OneHandler(r)' /\ (NoHandler(r)' => owner2pc'[r] = {})
    BY <1>1, <2>2 DEF HandlerInv, LockInv, OneHandler, NoHandler
  <2>4. ASSUME NEW c \in coordinators'[r]
        PROVE  HeldBy(r, uid[c], LockingCoordinator(c))'
    BY <1>1, <2>2 DEF HandlerInv, LockInv, HeldBy, LockingCoordinator
  <2>5. ASSUME NEW l \in participants'[r]
        PROVE  HeldBy(r, uid[Request(l)], LockingParticipant(l))'
    BY <1>1, <1>2, <2>1, <2>2 DEF HandlerInv, LockInv, HeldBy,
       LockingParticipant
  <2> QED
    BY <2>1, <2>3, <2>4, <2>5
<1>5. /\ participants'[q] \ {m} = participants[q] \ {m}
      /\ m \in participants'[q] <=> link'[m] \in AttachedStages
  <2>1. m \in participants[q] <=> link[m] \in AttachedStages
    BY <1>0 DEF HandlerInv, ParticipantsRegistered
  <2> USE <1>0, <2>1 DEF AttachedStages, Move
  <2>2. CASE HandlePrepare(m)
    BY <2>2 DEF HandlePrepare
  <2>3. CASE PrepareParticipant(m)
    BY <2>3 DEF PrepareParticipant
  <2>4. CASE ReceiveVote(m)
    BY <2>4 DEF ReceiveVote, replicaVars
  <2>5. CASE ParticipantCommit(m) \/ ParticipantAbort(m)
    BY <2>5 DEF ParticipantCommit, ParticipantAbort, Decide
  <2>6. CASE LateAbort(m) \/ HandleFetch(m) \/ ReceiveFetched(m) \/ HandleRepair(m)
    BY <2>6 DEF LateAbort, HandleFetch, ReceiveFetched, HandleRepair, replicaVars
  <2>7. CASE RemoveParticipant(m)
    BY <2>7 DEF RemoveParticipant
  <2> QED
    BY <2>2, <2>3, <2>4, <2>5, <2>6, <2>7 DEF ConnectionStep
<1>6. ParticipantsRegistered'
  <2> SUFFICES ASSUME NEW r \in Replicas, NEW l \in Links
               PROVE  l \in participants'[r] <=>
                         Peer(l) = r /\ link'[l] \in AttachedStages
    BY DEF ParticipantsRegistered
  <2>0. l \in participants[r] <=> Peer(l) = r /\ link[l] \in AttachedStages
    BY DEF HandlerInv, ParticipantsRegistered
  <2>1. CASE r # q
    BY <1>2, <1>4, <2>0, <2>1
  <2>2. CASE r = q /\ l # m
    BY <1>2, <1>5, <2>0, <2>2
  <2>3. CASE r = q /\ l = m
    BY <1>5, <2>3
  <2> QED
    BY <2>1, <2>2, <2>3
<1>7. /\ OneHandler(q)'
      /\ NoHandler(q)' => owner2pc'[q] = {}
      /\ \A c \in coordinators'[q] :
            HeldBy(q, uid[c], LockingCoordinator(c))'
      /\ \A l \in participants'[q] :
            HeldBy(q, uid[Request(l)], LockingParticipant(l))'
  <2>0. /\ OneHandler(q)
        /\ NoHandler(q) => owner2pc[q] = {}
        /\ \A c \in coordinators[q] : HeldBy(q, uid[c], LockingCoordinator(c))
        /\ \A l \in participants[q] :
              HeldBy(q, uid[Request(l)], LockingParticipant(l))
    BY <1>0 DEF HandlerInv, LockInv
  <2>1. CASE m \notin participants[q] /\ m \notin participants'[q]
    <3>1. link[m] \notin AttachedStages
      BY <1>0, <2>1 DEF HandlerInv, ParticipantsRegistered
    <3>2. participants'[q] = participants[q]
      BY <1>5, <2>1
    <3>3. owner2pc'[q] = owner2pc[q]
      BY <3>1 DEF AttachedStages, ConnectionStep, HandlePrepare,
         PrepareParticipant, ReceiveVote, ParticipantCommit, ParticipantAbort,
         LateAbort, RemoveParticipant, HandleFetch, ReceiveFetched,
         HandleRepair, replicaVars
    <3>4. OneHandler(q)' /\ (NoHandler(q)' => owner2pc'[q] = {})
      BY <1>1, <2>0, <3>2, <3>3 DEF OneHandler, NoHandler
    <3>5. ASSUME NEW c \in coordinators'[q]
          PROVE  HeldBy(q, uid[c], LockingCoordinator(c))'
      BY <1>1, <2>0, <3>3 DEF HeldBy, LockingCoordinator
    <3>6. ASSUME NEW l \in participants'[q]
          PROVE  HeldBy(q, uid[Request(l)], LockingParticipant(l))'
      BY <1>0, <1>1, <1>2, <2>0, <2>1, <3>2, <3>3 DEF HeldBy, LockingParticipant
    <3> QED
      BY <3>4, <3>5, <3>6
  <2>2. CASE m \notin participants[q] /\ m \in participants'[q]
    <3>1. HandlePrepare(m) /\ NoHandler(q)
      BY <1>0, <2>2 DEF ConnectionStep, HandlePrepare, PrepareParticipant,
         ReceiveVote, ParticipantCommit, ParticipantAbort, LateAbort,
         RemoveParticipant, HandleFetch, ReceiveFetched, HandleRepair, Decide,
         replicaVars
    <3>2. /\ participants'[q] = {m}
          /\ coordinators'[q] = {}
          /\ owner2pc'[q] = {}
          /\ link'[m] = "joined"
      BY <1>0, <1>1, <2>0, <3>1 DEF HandlePrepare, NoHandler, Move
    <3> QED
      BY <3>2 DEF OneHandler, NoHandler, HeldBy, LockingParticipant
  <2>3. CASE m \in participants[q]
    <3>1. participants[q] = {m} /\ coordinators'[q] = {}
      BY <1>1, <2>0, <2>3 DEF OneHandler
    <3>2. owner2pc[q] = IF LockingParticipant(m) THEN {uid[Request(m)]} ELSE {}
      BY <2>0, <2>3 DEF HeldBy
    <3>3. participants'[q] \subseteq {m}
      BY <1>5, <3>1
    <3>4. owner2pc'[q] = IF LockingParticipant(m)'
                         THEN {uid'[Request(m)]} ELSE {}
      <4> USE <1>0, <1>1, <3>2 DEF LockingParticipant, Move
      <4>0. link[m] \in AttachedStages
        BY <2>3 DEF HandlerInv, ParticipantsRegistered
      <4>1. CASE PrepareParticipant(m)
        BY <4>1 DEF PrepareParticipant
      <4>2. CASE ReceiveVote(m)
        BY <4>0, <4>2 DEF ReceiveVote, replicaVars, AttachedStages
      <4>3. CASE ParticipantCommit(m)
        BY <4>3 DEF ParticipantCommit, Decide, Release
      <4>4. CASE ParticipantAbort(m)
        BY <4>4 DEF ParticipantAbort, Decide, Release
      <4>5. CASE RemoveParticipant(m)
        BY <4>5 DEF RemoveParticipant
      <4> QED
        BY <4>0, <4>1, <4>2, <4>3, <4>4, <4>5 DEF ConnectionStep,
           HandlePrepare, LateAbort, HandleFetch, ReceiveFetched,
           HandleRepair, AttachedStages
    <3>5. participants'[q] = {} => ~LockingParticipant(m)'
      BY <1>5 DEF LockingParticipant, AttachedStages
    <3>6. OneHandler(q)' /\ (NoHandler(q)' => owner2pc'[q] = {})
      BY <3>1, <3>3, <3>4, <3>5 DEF OneHandler, NoHandler
    <3>7. ASSUME NEW l \in participants'[q]
          PROVE  HeldBy(q, uid[Request(l)], LockingParticipant(l))'
      BY <3>3, <3>4, <3>7 DEF HeldBy
    <3> QED
      BY <3>1, <3>6, <3>7
  <2> QED
    BY <2>1, <2>2, <2>3
<1> QED
  BY <1>0, <1>3, <1>4, <1>6, <1>7 DEF LockInv

LEMMA HandlerInvInit == Init => HandlerInv
  BY InitTypeOK, InitLinkInv, InitHandlerInv DEF HandlerInv

LEMMA HandlerInvStep == HandlerInv /\ [Next]_vars => HandlerInv'
<1> SUFFICES ASSUME HandlerInv, [Next]_vars
             PROVE  HandlerInv'
  OBVIOUS
<1>1. TypeOK'
  BY TypeOKStep DEF HandlerInv, LinkInv
<1>2. CASE \E t \in Requests : Receive(t) \/ CoordinatorStep(t)
  BY <1>1, <1>2, CoordinatorLinkInv, CoordinatorHandlerInv DEF HandlerInv
<1>3. CASE \E m \in Links : ConnectionStep(m)
  BY <1>1, <1>3, ConnectionLinkInv, ConnectionHandlerInv DEF HandlerInv
<1>4. CASE UNCHANGED vars
  <2>1. LinkInv'
    BY <1>4 DEF vars, coordinatorVars, replicaVars, linkVars, HandlerInv,
       LinkInv, LinkKinds, FreshLinks, FirstAttempt, AwaitedLinks,
       RefusalsNoted, RepliedLinks, Contacted
  <2>2. CoordinatorsRegistered' /\ ParticipantsRegistered' /\ LockInv'
    BY <1>4 DEF vars, coordinatorVars, replicaVars, linkVars, HandlerInv,
       CoordinatorsRegistered, ParticipantsRegistered, LockInv, OneHandler,
       NoHandler, HeldBy, LockingCoordinator, LockingParticipant
  <2> QED
    BY <1>1, <2>1, <2>2 DEF HandlerInv
<1> QED
  BY <1>2, <1>3, <1>4 DEF Next, Terminated

\* The state of the program keeps its types: in particular no version, no
\* identifier and no entry is made out of a message of the wrong kind.
THEOREM TypeCorrect == Spec => []TypeOK
<1>1. HandlerInv => TypeOK
  BY DEF HandlerInv
<1> QED
  BY <1>1, HandlerInvInit, HandlerInvStep, PTL DEF Spec

\* The lock of every replica is held exactly by the one handler that must hold
\* it.
THEOREM LockDisciplineHolds == Spec => []LockDiscipline
<1>1. HandlerInv => LockDiscipline
  <2> SUFFICES ASSUME HandlerInv, NEW r \in Replicas
               PROVE  /\ \A t \in Requests :
                            home[t] = r /\ LockingCoordinator(t)
                            => t \in coordinators[r]
                      /\ \A l \in Links :
                            Peer(l) = r /\ LockingParticipant(l)
                            => l \in participants[r]
    BY DEF HandlerInv, LockInv, LockDiscipline
  <2> QED
    BY DEF HandlerInv, CoordinatorsRegistered, ParticipantsRegistered,
       LockingCoordinator, LockingParticipant, AttachedStages
<1> QED
  BY <1>1, HandlerInvInit, HandlerInvStep, PTL DEF Spec
=============================================================================
