----------------------- MODULE QuorumAgreementProofs -----------------------
(***************************************************************************)
(* What the replicas agree on, for every number of replicas, quorum sizes, *)
(* set of requests and bound on the attempts: only committed values are    *)
(* stored, a datastore only goes forward, identifiers and versions name    *)
(* one transaction, and a committed put is held by a write quorum.         *)
(***************************************************************************)
EXTENDS QuorumStoreProofs, FiniteSetTheorems

-----------------------------------------------------------------------------
(* Steps and the entries of the coordinators.                              *)

\* The registered coordinator that an answer finds is its own.
LEMMA AwaitedCoordinator ==
    ASSUME HandlerInv, NEW l \in Links, link[l] \in Awaited
    PROVE  /\ coordinators[home[Request(l)]] = {Request(l)}
           /\ phase[Request(l)] = "gathering"
           /\ Attempt(l) = attempt[Request(l)]
<1>1. Request(l) \in Requests /\ home[Request(l)] \in Replicas
  BY LinkParts, PlacementAssumption DEF HandlerInv, TypeOK
<1>2. phase[Request(l)] = "gathering" /\ Attempt(l) = attempt[Request(l)]
  BY DEF HandlerInv, LinkInv, AwaitedLinks
<1>3. Request(l) \in coordinators[home[Request(l)]]
  BY <1>1, <1>2 DEF HandlerInv, CoordinatorsRegistered
<1> QED
  BY <1>1, <1>2, <1>3 DEF HandlerInv, LockInv, OneHandler

\* So a vote and a fetched value update the entry of their own request.
LEMMA VoteUpdates ==
    ASSUME HandlerInv, NEW l \in Links, ReceiveVote(l), link[l] = "vote_commit"
    PROVE  /\ entry' = [entry EXCEPT ![Request(l)].ver =
                            HighestVote(@, payload[l].ver)]
           /\ Move(l, "ready")
  BY AwaitedCoordinator DEF ReceiveVote, Awaited

LEMMA FetchedUpdates ==
    ASSUME HandlerInv, NEW l \in Links, ReceiveFetched(l)
    PROVE  /\ entry' = [entry EXCEPT ![Request(l)] = Latest(@, payload[l])]
           /\ Move(l, "read")
  BY AwaitedCoordinator DEF ReceiveFetched, Awaited

\* What a step of connection m leaves alone.
LEMMA ConnectionFrame ==
    ASSUME HandlerInv, NEW m \in Links, ConnectionStep(m)
    PROVE  /\ UNCHANGED <<phase, home, uid, attempt, preceding, replicaTS,
                          coordinators>>
           /\ \A t \in Requests : phase[t] # "gathering" => entry'[t] = entry[t]
           /\ \A l \in Links \ {m} : link'[l] = link[l] /\ payload'[l] = payload[l]
           /\ link[m] \notin {"unused", "closed"}
           /\ \A r \in Replicas \ {Peer(m)} : store'[r] = store[r]
<1>0. TypeOK /\ Request(m) \in Requests /\ Peer(m) \in Replicas
  BY LinkParts DEF HandlerInv
<1> USE DEF TypeOK, Move, coordinatorVars, replicaVars
<1>1. CASE HandlePrepare(m)
  BY <1>0, <1>1 DEF HandlePrepare
<1>2. CASE PrepareParticipant(m)
  BY <1>0, <1>2 DEF PrepareParticipant
<1>3. CASE ReceiveVote(m)
  <2>1. phase[Request(m)] = "gathering"
    BY <1>3, AwaitedCoordinator DEF ReceiveVote, Awaited
  <2>2. \A t \in Requests : phase[t] # "gathering" => entry'[t] = entry[t]
    BY <1>0, <1>3, <2>1, VoteUpdates DEF ReceiveVote
  <2> QED
    BY <1>0, <1>3, <2>2 DEF ReceiveVote
<1>4. CASE ParticipantCommit(m) \/ ParticipantAbort(m)
  BY <1>0, <1>4 DEF ParticipantCommit, ParticipantAbort, Decide
<1>5. CASE LateAbort(m)
  BY <1>0, <1>5 DEF LateAbort
<1>6. CASE RemoveParticipant(m)
  BY <1>0, <1>6 DEF RemoveParticipant
<1>7. CASE HandleFetch(m)
  BY <1>0, <1>7 DEF HandleFetch
<1>8. CASE ReceiveFetched(m)
  <2>1. phase[Request(m)] = "gathering"
    BY <1>8, AwaitedCoordinator DEF ReceiveFetched, Awaited
  <2>2. \A t \in Requests : phase[t] # "gathering" => entry'[t] = entry[t]
    BY <1>0, <1>8, <2>1, FetchedUpdates
  <2> QED
    BY <1>0, <1>8, <2>2 DEF ReceiveFetched
<1>9. CASE HandleRepair(m)
  BY <1>0, <1>9 DEF HandleRepair
<1> QED
  BY <1>1, <1>2, <1>3, <1>4, <1>5, <1>6, <1>7, <1>8, <1>9 DEF ConnectionStep

\* What a step of the coordinator of t leaves alone.
LEMMA CoordinatorFrame ==
    ASSUME TypeOK, NEW t \in Requests, Receive(t) \/ CoordinatorStep(t)
    PROVE  /\ UNCHANGED <<home, flagged>>
           /\ \A c \in Requests \ {t} : /\ phase'[c] = phase[c]
                                        /\ uid'[c] = uid[c]
                                        /\ attempt'[c] = attempt[c]
                                        /\ entry'[c] = entry[c]
                                        /\ preceding'[c] = preceding[c]
           /\ \A l \in Links : Request(l) # t => link'[l] = link[l]
           /\ \A l \in Links : l \notin Contacted(t) => payload'[l] = payload[l]
           /\ \A r \in Replicas \ {home[t]} : store'[r] = store[r]
           /\ phase[t] \notin {"leaving", "done"} \/ UNCHANGED entry
<1>0. home[t] \in Replicas
  BY PlacementAssumption DEF TypeOK
<1> USE DEF TypeOK, Goto, coordinatorVars, replicaVars, linkVars
<1>1. CASE Receive(t) \/ AddCoordinator(t) \/ PrepareLocally(t) \/ ReadLocally(t)
  BY <1>0, <1>1 DEF Receive, AddCoordinator, PrepareLocally, ReadLocally
<1>2. CASE ContactQuorum(t)
  BY <1>0, <1>2 DEF ContactQuorum
<1>3. CASE CommitPut(t)
  BY <1>0, <1>3 DEF CommitPut, AllAt, Contacted
<1>4. CASE AbortPut(t)
  BY <1>0, <1>4 DEF AbortPut, Contacted
<1>5. CASE ReplyToGet(t)
  BY <1>0, <1>5 DEF ReplyToGet, AllAt, Contacted
<1>6. CASE RepairQuorum(t)
  BY <1>0, <1>6 DEF RepairQuorum, AllAt, Contacted
<1>7. CASE ConnectionFails(t) \/ Retry(t) \/ Leave(t)
  BY <1>0, <1>7 DEF ConnectionFails, Retry, Leave
<1> QED
  BY <1>1, <1>2, <1>3, <1>4, <1>5, <1>6, <1>7 DEF CoordinatorStep

\* A put that has committed stays committed, and its entry stays what it is.
LEMMA CommittedStable ==
    ASSUME HandlerInv, [Next]_vars
    PROVE  Committed \subseteq Committed' /\ \A t \in Committed : entry'[t] = entry[t]
<1> USE DEF Committed
<1>0. Puts \subseteq Requests /\ TypeOK
  BY DEF Requests, HandlerInv
<1>1. ASSUME NEW t \in Requests, Receive(t) \/ CoordinatorStep(t)
      PROVE  Committed \subseteq Committed' /\ \A c \in Committed : entry'[c] = entry[c]
  <2>1. \A c \in Requests \ {t} : phase'[c] = phase[c] /\ entry'[c] = entry[c]
    BY <1>0, <1>1, CoordinatorFrame
  <2>2. phase[t] \in {"leaving", "done"} =>
           phase'[t] = "done" /\ UNCHANGED entry
    BY <1>0, <1>1 DEF CoordinatorStep, Receive, AddCoordinator, PrepareLocally,
       ReadLocally, ContactQuorum, ConnectionFails, CommitPut, AbortPut, Retry,
       ReplyToGet, RepairQuorum, Leave, Goto, TypeOK
  <2> QED
    BY <1>0, <2>1, <2>2
<1>2. ASSUME NEW m \in Links, ConnectionStep(m)
      PROVE  Committed \subseteq Committed' /\ \A c \in Committed : entry'[c] = entry[c]
  BY <1>0, <1>2, ConnectionFrame
<1>3. CASE UNCHANGED vars
  BY <1>3 DEF vars, coordinatorVars
<1> QED
  BY <1>1, <1>2, <1>3 DEF Next, Terminated

-----------------------------------------------------------------------------
(* Only entries of committed puts are stored and sent.                     *)

\* Nothing, or the entry of a committed put.
Sound(e) == e = Absent \/ \E t \in Committed : e = entry[t]

\* The same after a step.
SoundAfter(e) == e = Absent \/ \E t \in Committed' : e = entry'[t]

\* A put holds its own value from the prepare on, and commits a version that
\* no absent key has.
PutEntries ==
    /\ \A t \in Puts :
          phase[t] \in {"local", "gathering", "leaving", "done"}
          => entry[t].val = t
    /\ \A t \in Committed : entry[t].ver >= 1

StoresSound == \A r \in Replicas : Sound(store[r])

GetsSound ==
    \A t \in Gets : /\ Sound(entry[t])
                    /\ phase[t] = "replied" => entry[t].ver >= 1

MessagesSound ==
    \A l \in Links :
        /\ link[l] = "commit" =>
              Request(l) \in Committed /\ payload[l] = entry[Request(l)]
        /\ link[l] = "fetched" => Sound(payload[l])
        /\ link[l] = "repair" => Sound(payload[l]) /\ payload[l].ver >= 1

EntryInv == PutEntries /\ StoresSound /\ GetsSound /\ MessagesSound

\* What was sound stays sound.
LEMMA SoundStays ==
    ASSUME HandlerInv, [Next]_vars, NEW e, Sound(e)
    PROVE  SoundAfter(e)
  BY CommittedStable DEF Sound, SoundAfter

\* An entry is present exactly when its version is positive.
LEMMA SoundVersion ==
    ASSUME TypeOK, PutEntries, NEW e, Sound(e)
    PROVE  /\ e \in Entries(Puts)
           /\ IsPresent(e) <=> e.ver >= 1
           /\ e.ver >= 1 => \E t \in Committed : e = entry[t]
           /\ e.ver = 0 => e.val = NoValue
<1>1. ASSUME NEW t \in Committed
      PROVE  /\ t \in Puts
             /\ entry[t] \in Entries(Puts)
             /\ entry[t].ver >= 1
             /\ entry[t].val = t
  BY DEF Committed, PutEntries, TypeOK, Requests
<1>2. CASE e = Absent
  BY <1>2 DEF Absent, Entry, IsPresent, Entries
<1>3. CASE \E t \in Committed : e = entry[t]
  BY <1>1, <1>3, RequestAssumption DEF IsPresent, Entries
<1> QED
  BY <1>2, <1>3 DEF Sound

LEMMA InitEntryInv == Init => EntryInv
  BY DEF Init, EntryInv, PutEntries, StoresSound, GetsSound, MessagesSound,
     Sound, Committed, Requests

\* The entry a put commits.
LEMMA CommitPutEntry ==
    ASSUME TypeOK, EntryInv, NEW t \in Requests, CommitPut(t)
    PROVE  /\ t \in Committed' /\ t \in Puts
           /\ entry'[t] = Entry(t, entry[t].ver + 1)
           /\ entry'[t].val = t /\ entry'[t].ver = entry[t].ver + 1
           /\ entry[t].ver \in Nat
           /\ store'[home[t]] = CommitEntry(store[home[t]], entry'[t])
           /\ \A l \in Contacted(t) :
                 link'[l] = "commit" /\ payload'[l] = entry'[t]
           /\ \A l \in Links \ Contacted(t) :
                 link'[l] = link[l] /\ payload'[l] = payload[l]
<1>1. home[t] \in Replicas /\ entry[t] \in Entries(Puts) /\ entry[t].ver \in Nat
  BY PlacementAssumption DEF TypeOK, Entries
<1>2. t \in Puts /\ phase' = [phase EXCEPT ![t] = "leaving"]
  BY DEF CommitPut, Goto
<1>3. entry' = [entry EXCEPT ![t] = Entry(t, entry[t].ver + 1)]
  BY DEF CommitPut, NextVersion
<1>4. entry'[t] = Entry(t, entry[t].ver + 1)
  BY <1>3 DEF TypeOK
<1>5. store'[home[t]] = CommitEntry(store[home[t]], entry'[t])
  BY <1>1, <1>4 DEF CommitPut, NextVersion, TypeOK
<1>6. /\ \A l \in Contacted(t) :
            l \in Links /\ link'[l] = "commit" /\ payload'[l] = entry'[t]
      /\ \A l \in Links \ Contacted(t) :
            link'[l] = link[l] /\ payload'[l] = payload[l]
  BY <1>4 DEF CommitPut, NextVersion, AllAt, Contacted, TypeOK
<1> QED
  BY <1>1, <1>2, <1>4, <1>5, <1>6 DEF Committed, Entry, TypeOK, Requests

\* A participant that gets GLOBAL_ABORT is the one the message names.
LEMMA AbortIsFlagged ==
    ASSUME HandlerInv, NEW l \in Links, ParticipantAbort(l)
    PROVE  l \in flagged' /\ UNCHANGED store
<1>1. Peer(l) \in Replicas /\ l \in participants[Peer(l)]
  BY LinkParts DEF HandlerInv, ParticipantsRegistered, ParticipantAbort,
     AttachedStages
<1> QED
  BY <1>1 DEF ParticipantAbort, FlagParticipants, Decide

\* Every write to a datastore replaces an older entry by the one of a committed
\* put.
LEMMA StoreWrites ==
    ASSUME HandlerInv, EntryInv, [Next]_vars, NEW r \in Replicas,
           store'[r] # store[r]
    PROVE  /\ SoundAfter(store'[r])
           /\ store'[r].ver > store[r].ver
<1> DEFINE Written(e) == /\ SoundAfter(e)
                         /\ e.ver \in Nat /\ e.ver >= 1
                         /\ \/ store'[r] = CommitEntry(store[r], e)
                            \/ store'[r] = TryUpdateEntry(store[r], e)
<1>0. /\ TypeOK
      /\ Sound(store[r])
      /\ IsPresent(store[r]) <=> store[r].ver >= 1
      /\ store[r].ver \in Nat
  BY SoundVersion DEF HandlerInv, EntryInv, StoresSound, TypeOK, Entries
<1>1. ASSUME NEW t \in Requests, CommitPut(t)
      PROVE  \E e : Written(e)
  <2>1. r = home[t]
    BY <1>1 DEF CommitPut, TypeOK, HandlerInv
  <2> QED
    BY <1>0, <1>1, <2>1, CommitPutEntry DEF SoundAfter
<1>2. ASSUME NEW t \in Requests, RepairQuorum(t)
      PROVE  \E e : Written(e)
  <2>1. /\ r = home[t]
        /\ store'[r] = TryUpdateEntry(store[r], entry[t])
    BY <1>0, <1>2 DEF RepairQuorum, TypeOK
  <2>2. t \in Gets /\ Sound(entry[t]) /\ entry[t].ver >= 1
    BY <1>2 DEF RepairQuorum, HandlerInv, LinkInv, RepliedLinks, EntryInv,
       GetsSound
  <2>3. SoundAfter(entry[t])
    BY <2>2, SoundStays, <1>2 DEF RepairQuorum
  <2>4. entry[t].ver \in Nat
    BY <1>0 DEF TypeOK, Entries
  <2>5. Written(entry[t])
    BY <2>1, <2>2, <2>3, <2>4
  <2> QED
    BY <2>5
<1>3. ASSUME NEW l \in Links, ParticipantCommit(l)
      PROVE  \E e : Written(e)
  <2>1. /\ r = Peer(l)
        /\ store'[r] = CommitEntry(store[r], payload[l])
        /\ UNCHANGED payload
    BY <1>0, <1>3, LinkParts DEF ParticipantCommit, Decide, TypeOK
  <2>2. Request(l) \in Committed /\ payload[l] = entry[Request(l)]
    BY <1>3 DEF ParticipantCommit, EntryInv, MessagesSound
  <2>3. /\ Request(l) \in Committed'
        /\ entry'[Request(l)] = entry[Request(l)]
    BY <2>2, CommittedStable
  <2>4. payload[l].ver \in Nat /\ payload[l].ver >= 1
    BY <1>0, <2>2 DEF EntryInv, PutEntries, TypeOK, Entries
  <2>5. Written(payload[l])
    BY <2>1, <2>2, <2>3, <2>4 DEF SoundAfter
  <2> QED
    BY <2>5
<1>4. ASSUME NEW l \in Links, HandleRepair(l)
      PROVE  \E e : Written(e)
  <2>1. /\ r = Peer(l)
        /\ store'[r] = TryUpdateEntry(store[r], payload[l])
        /\ UNCHANGED payload
    BY <1>0, <1>4, LinkParts DEF HandleRepair, TypeOK
  <2>2. Sound(payload[l]) /\ payload[l].ver >= 1 /\ payload[l].ver \in Nat
    BY <1>0, <1>4 DEF HandleRepair, EntryInv, MessagesSound, TypeOK, Entries
  <2>3. SoundAfter(payload[l])
    BY <2>2, SoundStays
  <2>4. Written(payload[l])
    BY <2>1, <2>2, <2>3
  <2> QED
    BY <2>4
<1>5. \E e : Written(e)
  <2>1. CASE \E t \in Requests : Receive(t) \/ CoordinatorStep(t)
    BY <1>1, <1>2, <2>1 DEF CoordinatorStep, Receive, AddCoordinator,
       PrepareLocally, ReadLocally, ContactQuorum, ConnectionFails, AbortPut,
       Retry, ReplyToGet, Leave, replicaVars
  <2>2. CASE \E l \in Links : ConnectionStep(l)
    BY <1>3, <1>4, <2>2, AbortIsFlagged DEF ConnectionStep, HandlePrepare,
       PrepareParticipant, ReceiveVote, LateAbort, RemoveParticipant,
       HandleFetch, ReceiveFetched, replicaVars
  <2>3. CASE UNCHANGED vars
    BY <2>3 DEF vars, replicaVars
  <2> QED
    BY <2>1, <2>2, <2>3 DEF Next, Terminated
<1>6. PICK e : Written(e)
  BY <1>5
<1>7. store'[r] = e /\ store[r].ver < e.ver
  BY <1>0, <1>6 DEF CommitEntry, TryUpdateEntry
<1> QED
  BY <1>6, <1>7

\* A message that a step neither sends nor handles stays sound.
MessageSoundAfter(l) ==
    /\ link'[l] = "commit" =>
          Request(l) \in Committed' /\ payload'[l] = entry'[Request(l)]
    /\ link'[l] = "fetched" => SoundAfter(payload'[l])
    /\ link'[l] = "repair" => SoundAfter(payload'[l]) /\ payload'[l].ver >= 1

LEMMA MessageStays ==
    ASSUME HandlerInv, EntryInv, [Next]_vars,
           NEW l \in Links, payload'[l] = payload[l],
           link'[l] = link[l] \/ link'[l] \notin {"commit", "fetched", "repair"}
    PROVE  MessageSoundAfter(l)
<1>1. CASE link'[l] = link[l]
  <2>1. link[l] = "commit" =>
           Request(l) \in Committed' /\ payload'[l] = entry'[Request(l)]
    BY <1>1, CommittedStable DEF EntryInv, MessagesSound
  <2>2. link[l] \in {"fetched", "repair"} => SoundAfter(payload[l])
    BY SoundStays DEF EntryInv, MessagesSound
  <2> QED
    BY <1>1, <2>1, <2>2 DEF MessageSoundAfter, EntryInv, MessagesSound
<1>2. CASE link'[l] \notin {"commit", "fetched", "repair"}
  BY <1>2 DEF MessageSoundAfter
<1> QED
  BY <1>1, <1>2

LEMMA StoresSoundStep ==
    ASSUME HandlerInv, EntryInv, [Next]_vars
    PROVE  StoresSound'
<1> SUFFICES ASSUME NEW r \in Replicas
             PROVE  SoundAfter(store'[r])
  BY DEF StoresSound, Sound, SoundAfter, Absent, Entry
<1>1. CASE store'[r] = store[r]
  BY <1>1, SoundStays DEF EntryInv, StoresSound
<1>2. CASE store'[r] # store[r]
  BY <1>2, StoreWrites
<1> QED
  BY <1>1, <1>2

LEMMA CoordinatorPutEntries ==
    ASSUME HandlerInv, EntryInv, NEW t \in Requests, Receive(t) \/ CoordinatorStep(t)
    PROVE  PutEntries'
<1>0. TypeOK /\ PutEntries /\ Puts \subseteq Requests /\ Puts \cap Gets = {}
  BY RequestAssumption DEF HandlerInv, EntryInv, Requests
<1>1. \A c \in Requests \ {t} : phase'[c] = phase[c] /\ entry'[c] = entry[c]
  BY <1>0, CoordinatorFrame
<1>2. ASSUME t \in Puts
      PROVE  /\ phase'[t] \in {"local", "gathering", "leaving", "done"}
                => entry'[t].val = t
             /\ phase'[t] \in {"leaving", "done"} => entry'[t].ver >= 1
  <2> USE <1>0, <1>2 DEF PutEntries, Committed, Goto, TypeOK
  <2>1. CASE PrepareLocally(t)
    BY <2>1 DEF PrepareLocally, Entry
  <2>2. CASE CommitPut(t)
    <3>1. entry'[t].val = t /\ entry'[t].ver = entry[t].ver + 1 /\ entry[t].ver \in Nat
      BY <2>2, CommitPutEntry
    <3> QED
      BY <3>1
  <2>3. CASE ContactQuorum(t) \/ Leave(t)
    BY <2>3 DEF ContactQuorum, Leave
  <2>4. CASE Receive(t) \/ AddCoordinator(t) \/ ConnectionFails(t) \/ AbortPut(t)
             \/ Retry(t)
    BY <2>4 DEF Receive, AddCoordinator, ConnectionFails, AbortPut, Retry
  <2>5. ~(ReadLocally(t) \/ ReplyToGet(t) \/ RepairQuorum(t))
    BY DEF ReadLocally, ReplyToGet, RepairQuorum, HandlerInv, LinkInv,
       RepliedLinks
  <2> QED
    BY <2>1, <2>2, <2>3, <2>4, <2>5 DEF CoordinatorStep
<1> QED
  BY <1>0, <1>1, <1>2 DEF PutEntries, Committed

LEMMA CoordinatorGetsSound ==
    ASSUME HandlerInv, EntryInv, [Next]_vars,
           NEW t \in Requests, Receive(t) \/ CoordinatorStep(t)
    PROVE  GetsSound'
<1>0. /\ TypeOK
      /\ Gets \subseteq Requests
      /\ Puts \cap Gets = {}
      /\ home[t] \in Replicas
  BY RequestAssumption, PlacementAssumption DEF HandlerInv, TypeOK, Requests
<1>1. \A c \in Requests \ {t} : phase'[c] = phase[c] /\ entry'[c] = entry[c]
  BY <1>0, CoordinatorFrame
<1>2. ASSUME NEW c \in Gets, entry'[c] = entry[c]
      PROVE  SoundAfter(entry'[c])
  BY <1>2, SoundStays DEF EntryInv, GetsSound
<1>3. ASSUME t \in Gets
      PROVE  /\ SoundAfter(entry'[t])
             /\ phase'[t] = "replied" => entry'[t].ver >= 1
  <2>1. CASE ReadLocally(t)
    <3>1. entry'[t] = Latest(entry[t], store[home[t]]) /\ phase'[t] = "local"
      BY <1>0, <2>1 DEF ReadLocally, Goto, TypeOK
    <3>2. SoundAfter(entry[t]) /\ SoundAfter(store[home[t]])
      BY <1>0, <1>3, SoundStays DEF EntryInv, GetsSound, StoresSound
    <3> QED
      BY <3>1, <3>2 DEF Latest
  <2>2. CASE ~ReadLocally(t)
    <3>1. entry'[t] = entry[t]
      BY <1>0, <1>3, <2>2 DEF CoordinatorStep, Receive, AddCoordinator,
         PrepareLocally, ContactQuorum, ConnectionFails, CommitPut, AbortPut,
         Retry, ReplyToGet, RepairQuorum, Leave
    <3>2. phase'[t] = "replied" => ReplyToGet(t)
      BY <1>0, <1>3, <2>2 DEF CoordinatorStep, Receive, AddCoordinator,
         PrepareLocally, ContactQuorum, ConnectionFails, CommitPut, AbortPut,
         Retry, RepairQuorum, Leave, Goto, TypeOK
    <3>3. phase'[t] = "replied" => entry[t].ver # 0
      BY <1>0, <3>2 DEF ReplyToGet, Goto, TypeOK
    <3>4. entry[t].ver \in Nat
      BY <1>0 DEF TypeOK, Entries
    <3> QED
      BY <1>2, <1>3, <3>1, <3>3, <3>4
  <2> QED
    BY <2>1, <2>2
<1>4. ASSUME NEW c \in Gets
      PROVE  /\ SoundAfter(entry'[c])
             /\ phase'[c] = "replied" => entry'[c].ver >= 1
  BY <1>0, <1>1, <1>2, <1>3, <1>4 DEF EntryInv, GetsSound
<1> QED
  BY <1>4 DEF GetsSound, Sound, SoundAfter, Absent, Entry

LEMMA CoordinatorMessagesSound ==
    ASSUME HandlerInv, EntryInv, [Next]_vars,
           NEW t \in Requests, Receive(t) \/ CoordinatorStep(t)
    PROVE  MessagesSound'
<1> SUFFICES ASSUME NEW l \in Links
             PROVE  MessageSoundAfter(l)
  BY DEF MessagesSound, MessageSoundAfter, Sound, SoundAfter, Absent, Entry
<1>0. TypeOK /\ Contacted(t) \subseteq Links
  BY DEF HandlerInv, Contacted
<1>1. CASE CommitPut(t)
  <2>1. CASE l \in Contacted(t)
    BY <1>1, <2>1, <1>0, CommitPutEntry DEF MessageSoundAfter, Contacted
  <2>2. CASE l \notin Contacted(t)
    BY <1>1, <2>2, <1>0, CommitPutEntry, MessageStays
  <2> QED
    BY <2>1, <2>2
<1>2. CASE RepairQuorum(t)
  <2>1. CASE l \in Contacted(t)
    <3>1. link'[l] = "repair" /\ payload'[l] = entry[t]
      BY <1>2, <2>1 DEF RepairQuorum, AllAt
    <3>2. t \in Gets /\ Sound(entry[t]) /\ entry[t].ver >= 1
      BY <1>2 DEF RepairQuorum, HandlerInv, LinkInv, RepliedLinks, EntryInv,
         GetsSound
    <3> QED
      BY <3>1, <3>2, SoundStays DEF MessageSoundAfter
  <2>2. CASE l \notin Contacted(t)
    BY <1>2, <2>2, MessageStays DEF RepairQuorum, AllAt
  <2> QED
    BY <2>1, <2>2
<1>3. CASE ~CommitPut(t) /\ ~RepairQuorum(t)
  <2>1. UNCHANGED payload
    BY <1>3 DEF CoordinatorStep, Receive, AddCoordinator, PrepareLocally,
       ReadLocally, ContactQuorum, ConnectionFails, AbortPut, Retry,
       ReplyToGet, Leave, linkVars
  <2>2. CASE ContactQuorum(t)
    BY <2>1, <2>2, MessageStays DEF ContactQuorum
  <2>3. CASE AbortPut(t)
    BY <2>1, <2>3, MessageStays DEF AbortPut
  <2>4. CASE ReplyToGet(t)
    BY <2>1, <2>4, MessageStays DEF ReplyToGet, AllAt
  <2>5. CASE UNCHANGED link
    BY <2>1, <2>5, MessageStays
  <2> QED
    BY <1>3, <2>2, <2>3, <2>4, <2>5 DEF CoordinatorStep, Receive,
       AddCoordinator, PrepareLocally, ReadLocally, ConnectionFails, Retry,
       Leave, linkVars
<1> QED
  BY <1>1, <1>2, <1>3

LEMMA ConnectionEntryInv ==
    ASSUME HandlerInv, EntryInv, [Next]_vars, NEW m \in Links, ConnectionStep(m)
    PROVE  (PutEntries /\ GetsSound /\ MessagesSound)'
<1>0. /\ TypeOK
      /\ Request(m) \in Requests /\ Peer(m) \in Replicas
      /\ Puts \subseteq Requests /\ Gets \subseteq Requests
      /\ Puts \cap Gets = {}
  BY LinkParts, RequestAssumption DEF HandlerInv, Requests
<1>1. /\ UNCHANGED phase
      /\ \A t \in Requests : phase[t] # "gathering" => entry'[t] = entry[t]
      /\ \A l \in Links \ {m} : link'[l] = link[l] /\ payload'[l] = payload[l]
  BY ConnectionFrame
<1>2. CASE ReceiveVote(m) /\ link[m] = "vote_commit"
  <2>1. /\ entry' = [entry EXCEPT ![Request(m)].ver =
                         HighestVote(@, payload[m].ver)]
        /\ link'[m] = "ready"
    BY <1>0, <1>2, VoteUpdates DEF Move, TypeOK
  <2>2. Request(m) \in Puts /\ phase[Request(m)] = "gathering"
    BY <1>2, AwaitedCoordinator DEF Awaited, HandlerInv, LinkInv, LinkKinds,
       PutStages
  <2>3. \A t \in Requests : entry'[t].val = entry[t].val
    BY <1>0, <2>1 DEF TypeOK, Entries
  <2>4. PutEntries'
    BY <1>0, <1>1, <2>3 DEF EntryInv, PutEntries, Committed
  <2>5. \A t \in Gets : entry'[t] = entry[t]
    BY <1>0, <2>1, <2>2 DEF TypeOK
  <2>6. ASSUME NEW t \in Gets
        PROVE  /\ SoundAfter(entry'[t])
               /\ phase'[t] = "replied" => entry'[t].ver >= 1
    BY <1>1, <2>5, SoundStays DEF EntryInv, GetsSound
  <2>7. payload' = payload
    BY <1>2 DEF ReceiveVote
  <2>8. \A l \in Links : MessageSoundAfter(l)
    BY <1>1, <2>1, <2>7, MessageStays
  <2> QED
    BY <2>4, <2>6, <2>8 DEF GetsSound, MessagesSound, MessageSoundAfter, Sound,
       SoundAfter, Absent, Entry
<1>3. CASE ReceiveFetched(m)
  <2>1. /\ entry' = [entry EXCEPT ![Request(m)] = Latest(@, payload[m])]
        /\ link'[m] = "read"
    BY <1>0, <1>3, FetchedUpdates DEF Move, TypeOK
  <2>2. /\ Request(m) \in Gets
        /\ phase[Request(m)] = "gathering"
        /\ link[m] = "fetched"
    BY <1>3, AwaitedCoordinator DEF ReceiveFetched, Awaited, HandlerInv,
       LinkInv, LinkKinds, GetStages
  <2>3. \A t \in Requests \ {Request(m)} : entry'[t] = entry[t]
    BY <1>0, <2>1 DEF TypeOK
  <2>4. PutEntries'
    BY <1>0, <1>1, <2>2, <2>3 DEF EntryInv, PutEntries, Committed
  <2>5. SoundAfter(entry[Request(m)]) /\ SoundAfter(payload[m])
    BY <2>2, SoundStays DEF EntryInv, GetsSound, MessagesSound
  <2>6. SoundAfter(entry'[Request(m)])
    BY <1>0, <2>1, <2>5 DEF Latest, TypeOK
  <2>7. ASSUME NEW t \in Gets
        PROVE  /\ SoundAfter(entry'[t])
               /\ phase'[t] = "replied" => entry'[t].ver >= 1
    <3>1. SoundAfter(entry[t])
      BY SoundStays DEF EntryInv, GetsSound
    <3> QED
      BY <1>0, <1>1, <2>2, <2>3, <2>6, <3>1 DEF EntryInv, GetsSound
  <2>8. payload' = payload
    BY <1>3 DEF ReceiveFetched
  <2>9. \A l \in Links : MessageSoundAfter(l)
    BY <1>1, <2>1, <2>8, MessageStays
  <2> QED
    BY <2>4, <2>7, <2>9 DEF GetsSound, MessagesSound, MessageSoundAfter, Sound,
       SoundAfter, Absent, Entry
<1>4. CASE ~(ReceiveVote(m) /\ link[m] = "vote_commit") /\ ~ReceiveFetched(m)
  <2>1. UNCHANGED entry
    BY <1>4 DEF ConnectionStep, HandlePrepare, PrepareParticipant, ReceiveVote,
       ParticipantCommit, ParticipantAbort, LateAbort, RemoveParticipant,
       HandleFetch, HandleRepair, Decide, coordinatorVars
  <2>2. PutEntries'
    BY <1>1, <2>1 DEF EntryInv, PutEntries, Committed
  <2>3. ASSUME NEW t \in Gets
        PROVE  /\ SoundAfter(entry'[t])
               /\ phase'[t] = "replied" => entry'[t].ver >= 1
    BY <1>1, <2>1, SoundStays DEF EntryInv, GetsSound
  <2>4. MessageSoundAfter(m)
    <3>1. CASE HandleFetch(m)
      <4>1. payload'[m] = store[Peer(m)] /\ link'[m] = "fetched"
        BY <1>0, <3>1 DEF HandleFetch, Move, TypeOK
      <4>2. SoundAfter(store[Peer(m)])
        BY <1>0, SoundStays DEF EntryInv, StoresSound
      <4> QED
        BY <4>1, <4>2 DEF MessageSoundAfter
    <3>2. CASE PrepareParticipant(m)
      BY <1>0, <3>2 DEF PrepareParticipant, Move, TypeOK, MessageSoundAfter
    <3>3. CASE ~HandleFetch(m) /\ ~PrepareParticipant(m)
      <4>1. /\ link'[m] \notin {"commit", "fetched", "repair"}
            /\ payload'[m] = payload[m]
        BY <1>0, <1>4, <3>3 DEF ConnectionStep, HandlePrepare, ReceiveVote,
           ParticipantCommit, ParticipantAbort, LateAbort, RemoveParticipant,
           HandleRepair, Decide, Move, TypeOK
      <4> QED
        BY <4>1, MessageStays
    <3> QED
      BY <3>1, <3>2, <3>3
  <2>5. \A l \in Links : MessageSoundAfter(l)
    BY <1>1, <2>4, MessageStays
  <2> QED
    BY <2>2, <2>3, <2>5 DEF GetsSound, MessagesSound, MessageSoundAfter, Sound,
       SoundAfter, Absent, Entry
<1> QED
  BY <1>2, <1>3, <1>4

LEMMA EntryInvStep ==
    ASSUME HandlerInv, EntryInv, [Next]_vars
    PROVE  EntryInv'
<1>1. CASE \E t \in Requests : Receive(t) \/ CoordinatorStep(t)
  BY <1>1, StoresSoundStep, CoordinatorPutEntries, CoordinatorGetsSound,
     CoordinatorMessagesSound DEF EntryInv
<1>2. CASE \E m \in Links : ConnectionStep(m)
  BY <1>2, StoresSoundStep, ConnectionEntryInv DEF EntryInv
<1>3. CASE UNCHANGED vars
  BY <1>3 DEF vars, coordinatorVars, replicaVars, linkVars, EntryInv,
     PutEntries, StoresSound, GetsSound, MessagesSound, Sound, Committed
<1> QED
  BY <1>1, <1>2, <1>3 DEF Next, Terminated

LEMMA EntryInvHolds == Spec => [](HandlerInv /\ EntryInv)
<1>1. Init => HandlerInv /\ EntryInv
  BY HandlerInvInit, InitEntryInv
<1>2. HandlerInv /\ EntryInv /\ [Next]_vars => (HandlerInv /\ EntryInv)'
  BY HandlerInvStep, EntryInvStep
<1> QED
  BY <1>1, <1>2, PTL DEF Spec

\* No datastore ever holds a value that no put committed: an aborted attempt
\* leaves no trace, whichever replicas had voted for it, and a repair does not
\* bring back a value nobody committed.
THEOREM OnlyCommittedIsStored == Spec => []OnlyCommittedStored
<1>1. HandlerInv /\ EntryInv => OnlyCommittedStored
  BY DEF EntryInv, StoresSound, OnlyCommittedStored, Sound, Absent, Entry,
     IsPresent
<1> QED
  BY <1>1, EntryInvHolds, PTL

\* No step of a coordinator, a participant or a repair takes a datastore back
\* to an older version or changes the value of a version.
THEOREM StoresGrow == Spec => StoreGrows
<1>1. HandlerInv /\ EntryInv /\ [Next]_vars =>
         [\A r \in Replicas :
             store'[r] # store[r] => store'[r].ver > store[r].ver]_vars
  BY StoreWrites
<1> QED
  BY <1>1, EntryInvHolds, PTL DEF Spec, StoreGrows

-----------------------------------------------------------------------------
(* Identifiers.  A replica counts in steps of N - 1 from its own number, so *)
(* the identifiers of replicas 0 and N - 1 are the same ones: they name one *)
(* transaction each as long as clients do not use both.                     *)

FrontendsApart == ~({0, N - 1} \subseteq Frontends)

\* n is one of the numbers replica r counts.
CountedBy(r, n) == \E k \in Nat : n = r + k * ReplicasAmount

UidInv ==
    /\ \A r \in Replicas : CountedBy(r, replicaTS[r])
    /\ \A t \in Requests :
          phase[t] # "idle" =>
             /\ CountedBy(home[t], uid[t])
             /\ uid[t] < replicaTS[home[t]]
    /\ UidsUnique

LEMMA Distributes ==
    ASSUME NEW d \in Int, NEW x \in Int, NEW y \in Int
    PROVE  /\ (x + y) * d = x * d + y * d
           /\ x * d \in Int
           /\ x >= 0 /\ d >= 0 => x * d >= 0
           /\ (x + 1) * d = x * d + d
  OBVIOUS

\* Two counters that start less than one step apart never meet.
LEMMA CountersApart ==
    ASSUME NEW d \in Nat, NEW x \in Nat, NEW y \in Nat, x < y, y < x + d,
           NEW j \in Nat, NEW k \in Nat
    PROVE  x + j * d # y + k * d
<1>1. CASE j <= k
  <2> DEFINE i == k - j
  <2>1. i \in Nat /\ k = j + i
    BY <1>1
  <2> HIDE DEF i
  <2>2. k * d = j * d + i * d /\ i * d >= 0 /\ j * d \in Int /\ i * d \in Int
    BY <2>1, Distributes
  <2> QED
    BY <2>2
<1>2. CASE j > k
  <2> DEFINE i == j - (k + 1)
  <2>1. i \in Nat /\ k + 1 \in Int /\ j = (k + 1) + i
    BY <1>2
  <2> HIDE DEF i
  <2>2. j * d = (k + 1) * d + i * d /\ i * d >= 0 /\ i * d \in Int
    BY <2>1, Distributes
  <2>3. (k + 1) * d = k * d + d /\ k * d \in Int
    BY Distributes
  <2> QED
    BY <2>2, <2>3
<1> QED
  BY <1>1, <1>2

LEMMA FrontendsCountApart ==
    ASSUME FrontendsApart, NEW r \in Frontends, NEW s \in Frontends, r # s,
           NEW m, CountedBy(r, m), NEW n, CountedBy(s, n)
    PROVE  m # n
<1> DEFINE d == N - 1
<1>1. r \in Nat /\ s \in Nat /\ d \in Nat
  BY PlacementAssumption, ReplicasAssumption DEF Replicas
<1>2. r < s + d /\ s < r + d
  BY PlacementAssumption, ReplicasAssumption DEF Replicas, FrontendsApart
<1>3. PICK j \in Nat, k \in Nat : m = r + j * d /\ n = s + k * d
  BY DEF CountedBy, ReplicasAmount
<1> HIDE DEF d
<1>4. CASE r < s
  BY <1>1, <1>2, <1>3, <1>4, CountersApart
<1>5. CASE s < r
  BY <1>1, <1>2, <1>3, <1>5, CountersApart
<1> QED
  BY <1>1, <1>4, <1>5

LEMMA InitUidInv == Init => UidInv
<1> SUFFICES ASSUME Init PROVE UidInv
  OBVIOUS
<1>1. ASSUME NEW r \in Replicas PROVE CountedBy(r, replicaTS[r])
  <2>1. replicaTS[r] = r + 1 * ReplicasAmount
    BY ReplicasAssumption DEF Init, ReplicasAmount, Replicas
  <2> QED
    BY <2>1 DEF CountedBy
<1>2. \A t \in Requests : phase[t] = "idle"
  BY DEF Init
<1> QED
  BY <1>1, <1>2 DEF UidInv, UidsUnique

LEMMA UidInvStep ==
    ASSUME FrontendsApart, HandlerInv, UidInv, [Next]_vars
    PROVE  UidInv'
<1>0. TypeOK /\ Frontends \subseteq Replicas /\ ReplicasAmount \in Nat \ {0}
  BY PlacementAssumption, ReplicasAssumption DEF HandlerInv, ReplicasAmount
<1>1. ASSUME NEW t \in Requests, Receive(t)
      PROVE  UidInv'
  <2> DEFINE h == home[t]
  <2>1. /\ uid' = [uid EXCEPT ![t] = replicaTS[h]]
        /\ phase' = [phase EXCEPT ![t] = "waiting"]
        /\ replicaTS' = [replicaTS EXCEPT ![h] = @ + ReplicasAmount]
        /\ home' = home
        /\ h \in Frontends
    BY <1>0, <1>1 DEF Receive, Goto, TypeOK
  <2>2. CountedBy(h, replicaTS[h] + ReplicasAmount)
    <3>1. PICK k \in Nat : replicaTS[h] = h + k * ReplicasAmount
      BY <1>0, <2>1 DEF UidInv, CountedBy
    <3>2. /\ (k + 1) * ReplicasAmount = k * ReplicasAmount + ReplicasAmount
          /\ k * ReplicasAmount \in Int
      BY <1>0, Distributes
    <3>3. h \in Int
      <4>1. \A r \in Replicas : r \in Int
        BY ReplicasAssumption DEF Replicas
      <4>2. h \in Replicas
        BY <1>0, <2>1
      <4> QED
        BY <4>1, <4>2
    <3>4. replicaTS[h] + ReplicasAmount = h + (k + 1) * ReplicasAmount
      BY <1>0, <3>1, <3>2, <3>3
    <3> QED
      BY <3>4 DEF CountedBy
  <2>3. \A r \in Replicas : CountedBy(r, replicaTS'[r])
    BY <1>0, <2>1, <2>2 DEF UidInv, TypeOK
  <2>4. \A c \in Requests : phase'[c] # "idle" =>
           CountedBy(home[c], uid'[c]) /\ uid'[c] < replicaTS'[home[c]]
    BY <1>0, <2>1 DEF UidInv, TypeOK
  <2>5. ASSUME NEW c \in Requests \ {t}, phase[c] # "idle"
        PROVE  uid[c] # replicaTS[h]
    <3>1. /\ CountedBy(home[c], uid[c]) /\ uid[c] < replicaTS[home[c]]
          /\ CountedBy(h, replicaTS[h])
      BY <1>0, <2>1, <2>5 DEF UidInv
    <3>2. CASE home[c] = h
      BY <1>0, <2>1, <3>1, <3>2 DEF TypeOK
    <3>3. CASE home[c] # h
      BY <1>0, <2>1, <3>1, <3>3, FrontendsCountApart DEF TypeOK
    <3> QED
      BY <3>2, <3>3
  <2>6. UidsUnique'
    BY <1>0, <2>1, <2>5 DEF UidInv, UidsUnique, TypeOK
  <2> QED
    BY <2>1, <2>3, <2>4, <2>6 DEF UidInv, CountedBy
<1>2. ASSUME UNCHANGED <<uid, home, replicaTS>>,
             \A t \in Requests : phase[t] = "idle" <=> phase'[t] = "idle"
      PROVE  UidInv'
  BY <1>2 DEF UidInv, UidsUnique, CountedBy
<1>3. ASSUME NEW t \in Requests, CoordinatorStep(t)
      PROVE  UidInv'
  BY <1>0, <1>2, <1>3 DEF CoordinatorStep, AddCoordinator, PrepareLocally,
     ReadLocally, ContactQuorum, ConnectionFails, CommitPut, AbortPut, Retry,
     ReplyToGet, RepairQuorum, Leave, Goto, replicaVars, TypeOK
<1>4. ASSUME NEW m \in Links, ConnectionStep(m)
      PROVE  UidInv'
  BY <1>2, <1>4, ConnectionFrame
<1>5. CASE UNCHANGED vars
  BY <1>2, <1>5 DEF vars, coordinatorVars, replicaVars
<1> QED
  BY <1>1, <1>3, <1>4, <1>5 DEF Next, Terminated

LEMMA UidInvHolds ==
    ASSUME FrontendsApart
    PROVE  Spec => [](HandlerInv /\ UidInv)
<1>1. Init => HandlerInv /\ UidInv
  BY HandlerInvInit, InitUidInv
<1>2. HandlerInv /\ UidInv /\ [Next]_vars => (HandlerInv /\ UidInv)'
  BY HandlerInvStep, UidInvStep
<1> QED
  BY <1>1, <1>2, PTL DEF Spec

\* An identifier names one transaction, unless clients use both the first and
\* the last replica.
THEOREM UidsAreUnique ==
    ASSUME FrontendsApart
    PROVE  Spec => []UidsUnique
<1>1. UidInv => UidsUnique
  BY DEF UidInv
<1> QED
  BY <1>1, UidInvHolds, PTL

-----------------------------------------------------------------------------
(* The flags of the participants.                                          *)

\* GLOBAL_ABORT is on its way only to the participants of a failed attempt,
\* and only they are flagged.
FlagInv ==
    /\ \A l \in Links :
          link[l] \in {"abort", "late_abort"}
          => phase[Request(l)] \in {"failed", "waiting"}
    /\ \A l \in flagged : link[l] \in {"abort", "applied"}

\* A coordinator moves only connections it waits for, or has not used.
LEMMA CoordinatorMoves ==
    ASSUME HandlerInv, NEW t \in Requests, Receive(t) \/ CoordinatorStep(t),
           NEW l \in Links, link'[l] # link[l]
    PROVE  /\ Request(l) = t
           /\ link[l] \in {"unused", "ready", "refused", "read"}
           /\ link[l] = "unused" => ContactQuorum(t)
<1>0. TypeOK
  BY DEF HandlerInv
<1>1. Request(l) = t
  BY <1>0, CoordinatorFrame
<1>2. CASE ContactQuorum(t)
  <2>1. Attempt(l) = attempt[t]
    BY <1>2 DEF ContactQuorum
  <2>2. link[l] = "unused"
    BY <1>1, <1>2, <2>1, LinkParts, <1>0 DEF HandlerInv, LinkInv, FreshLinks,
       ContactQuorum, TypeOK
  <2> QED
    BY <1>1, <1>2, <2>2
<1>3. CASE CommitPut(t)
  BY <1>1, <1>3 DEF CommitPut, AllAt, Answered
<1>4. CASE AbortPut(t)
  BY <1>1, <1>4 DEF AbortPut, Answered
<1>5. CASE ReplyToGet(t)
  BY <1>1, <1>5 DEF ReplyToGet, AllAt, Answered
<1>6. CASE RepairQuorum(t)
  BY <1>1, <1>6 DEF RepairQuorum, AllAt, HandlerInv, LinkInv, RepliedLinks
<1> QED
  BY <1>1, <1>2, <1>3, <1>4, <1>5, <1>6 DEF CoordinatorStep, Receive,
     AddCoordinator, PrepareLocally, ReadLocally, ConnectionFails, Retry, Leave,
     linkVars

LEMMA InitFlagInv == Init => FlagInv
  BY DEF Init, FlagInv

LEMMA FlagInvStep ==
    ASSUME BackoffOutlastsDelivery, HandlerInv, EntryInv, UidInv, FlagInv,
           [Next]_vars
    PROVE  FlagInv'
<1>0. TypeOK /\ \A l \in Links : Request(l) \in Requests /\ Peer(l) \in Replicas
  BY LinkParts DEF HandlerInv
<1>1. ASSUME NEW t \in Requests, Receive(t) \/ CoordinatorStep(t)
      PROVE  FlagInv'
  <2>1. /\ flagged' = flagged
        /\ \A c \in Requests \ {t} : phase'[c] = phase[c]
    BY <1>0, <1>1, CoordinatorFrame
  <2>2. ASSUME NEW l \in Links, link'[l] \in {"abort", "late_abort"}
        PROVE  phase'[Request(l)] \in {"failed", "waiting"}
    <3>1. CASE link'[l] # link[l]
      <4>1. Request(l) = t /\ AbortPut(t)
        BY <1>1, <2>2, <3>1, CoordinatorMoves DEF CoordinatorStep, Receive,
           AddCoordinator, PrepareLocally, ReadLocally, ContactQuorum,
           ConnectionFails, CommitPut, Retry, ReplyToGet, RepairQuorum, Leave,
           AllAt, linkVars
      <4> QED
        BY <1>0, <4>1 DEF AbortPut, Goto, TypeOK
    <3>2. CASE link'[l] = link[l]
      <4>1. phase[Request(l)] \in {"failed", "waiting"}
        BY <2>2, <3>2 DEF FlagInv
      <4>2. CASE Request(l) # t
        BY <1>0, <2>1, <4>1, <4>2
      <4>3. CASE Request(l) = t
        <5>1. ~AddCoordinator(t)
          BY <2>2, <3>2, <4>3 DEF AddCoordinator, EarlierLinksClosed
        <5> QED
          BY <1>0, <1>1, <4>1, <4>3, <5>1 DEF CoordinatorStep, Receive,
             PrepareLocally, ReadLocally, ContactQuorum, ConnectionFails,
             CommitPut, AbortPut, Retry, ReplyToGet, RepairQuorum, Leave, Goto,
             TypeOK
      <4> QED
        BY <4>2, <4>3
    <3> QED
      BY <3>1, <3>2
  <2>3. \A l \in flagged' : link'[l] \in {"abort", "applied"}
    BY <1>0, <1>1, <2>1, CoordinatorMoves DEF FlagInv, TypeOK
  <2> QED
    BY <2>2, <2>3 DEF FlagInv
<1>2. ASSUME NEW m \in Links, ConnectionStep(m)
      PROVE  FlagInv'
  <2>1. /\ UNCHANGED <<phase, uid>>
        /\ \A l \in Links \ {m} : link'[l] = link[l]
    BY <1>2, ConnectionFrame
  <2>2. link'[m] \notin {"abort", "late_abort"}
    BY <1>0, <1>2 DEF ConnectionStep, HandlePrepare, PrepareParticipant,
       ReceiveVote, ParticipantCommit, ParticipantAbort, LateAbort,
       RemoveParticipant, HandleFetch, ReceiveFetched, HandleRepair, Decide,
       Move, TypeOK
  <2>3. CASE ParticipantAbort(m)
    <3>1. link[m] = "abort" /\ link'[m] = "applied"
      BY <1>0, <2>3 DEF ParticipantAbort, Decide, Move, TypeOK
    <3>2. participants[Peer(m)] \subseteq {m}
      BY <1>0, <3>1 DEF HandlerInv, ParticipantsRegistered, AttachedStages,
         LockInv, OneHandler
    <3>3. flagged' \subseteq flagged \cup {m}
      BY <2>3, <3>2 DEF ParticipantAbort, FlagParticipants
    <3>4. \A l \in flagged' : link'[l] \in {"abort", "applied"}
      BY <1>0, <2>1, <3>1, <3>3 DEF FlagInv, TypeOK
    <3> QED
      BY <2>1, <2>2, <3>4 DEF FlagInv
  <2>4. CASE LateAbort(m)
    <3>1. link[m] = "late_abort" /\ phase[Request(m)] \in {"failed", "waiting"}
      BY <2>4 DEF LateAbort, FlagInv
    <3>2. ASSUME NEW p \in participants[Peer(m)], uid[Request(p)] = uid[Request(m)]
          PROVE  p \in Links /\ link[p] \in {"abort", "applied"}
      <4>1. p \in Links /\ link[p] \in AttachedStages
        BY <1>0 DEF HandlerInv, ParticipantsRegistered, TypeOK
      <4>2. phase[Request(p)] # "idle"
        <5>1. CASE phase[Request(p)] = "idle"
          <6>1. attempt[Request(p)] = 1 /\ Attempt(p) \in Nat /\ Attempt(p) >= 1
            BY <1>0, <4>1, <5>1, LinkParts DEF HandlerInv, LinkInv, FirstAttempt
          <6> QED
            BY <4>1, <5>1, <6>1 DEF HandlerInv, LinkInv, FreshLinks,
               AttachedStages
        <5> QED
          BY <5>1
      <4>3. Request(p) = Request(m)
        BY <1>0, <3>1, <3>2, <4>1, <4>2 DEF UidInv, UidsUnique
      <4>4. link[p] # "commit"
        BY <3>1, <4>1, <4>3 DEF EntryInv, MessagesSound, Committed
      <4>5. link[p] \notin Awaited
        BY <3>1, <4>1, <4>3, AwaitedCoordinator
      <4> QED
        BY <4>1, <4>4, <4>5 DEF AttachedStages, Awaited
    <3>3. \A l \in flagged' : l \in Links /\ link[l] \in {"abort", "applied"}
      BY <1>0, <2>4, <3>2 DEF LateAbort, FlagParticipants, FlagInv, TypeOK
    <3>4. m \notin flagged'
      BY <3>1, <3>3
    <3> QED
      BY <1>0, <2>1, <2>2, <3>3, <3>4 DEF FlagInv
  <2>5. CASE ~ParticipantAbort(m) /\ ~LateAbort(m)
    <3>1. flagged' \subseteq flagged
      BY <1>2, <2>5 DEF ConnectionStep, HandlePrepare, PrepareParticipant,
         ReceiveVote, ParticipantCommit, RemoveParticipant, HandleFetch,
         ReceiveFetched, HandleRepair
    <3>2. m \notin flagged'
      BY <1>2, <2>5 DEF ConnectionStep, HandlePrepare, PrepareParticipant,
         ReceiveVote, ParticipantCommit, RemoveParticipant, HandleFetch,
         ReceiveFetched, HandleRepair, FlagInv
    <3> QED
      BY <1>0, <2>1, <2>2, <3>1, <3>2 DEF FlagInv, TypeOK
  <2> QED
    BY <2>3, <2>4, <2>5
<1>3. CASE UNCHANGED vars
  BY <1>3 DEF vars, coordinatorVars, linkVars, FlagInv
<1> QED
  BY <1>1, <1>2, <1>3 DEF Next, Terminated

-----------------------------------------------------------------------------
(* The quorum of a request.                                                *)

Quorate == {"gathering", "replied", "leaving", "done"}

\* The replicas whose answers t waits for or has counted.
Voters(t) == {home[t]} \cup {Peer(l) : l \in Contacted(t)}

QuorumInv ==
    /\ \A t \in Requests :
          phase[t] \in {"registered", "local"} => attempt[t] <= MaxAttempts
    /\ \A t \in Requests :
          phase[t] \in Quorate => Cardinality(Voters(t)) = Quorum(t)

LEMMA VotersAreReplicas ==
    ASSUME TypeOK, NEW t \in Requests
    PROVE  /\ Voters(t) \subseteq Replicas
           /\ IsFiniteSet(Replicas)
           /\ Cardinality(Replicas) = N
<1>1. Voters(t) \subseteq Replicas
  BY LinkParts, PlacementAssumption DEF Voters, Contacted, TypeOK
<1>2. IsFiniteSet(0 .. N - 1) /\ Cardinality(0 .. N - 1) = N
  BY FS_Interval, ReplicasAssumption
<1> QED
  BY <1>1, <1>2 DEF Replicas

\* The quorum of a request that has contacted it stays the same.
LEMMA VotersStay ==
    ASSUME HandlerInv, [Next]_vars, NEW c \in Requests,
           phase[c] \in Quorate, phase'[c] \in Quorate
    PROVE  Voters(c)' = Voters(c) /\ Contacted(c)' = Contacted(c)
<1>0. TypeOK
  BY DEF HandlerInv
<1>1. attempt'[c] = attempt[c] /\ home'[c] = home[c]
  <2>1. ASSUME NEW t \in Requests, Receive(t) \/ CoordinatorStep(t)
        PROVE  attempt'[c] = attempt[c] /\ home'[c] = home[c]
    <3>1. CASE c # t
      BY <1>0, <2>1, <3>1, CoordinatorFrame
    <3>2. CASE c = t
      BY <1>0, <2>1, <3>2 DEF CoordinatorStep, Receive, AddCoordinator,
         PrepareLocally, ReadLocally, ContactQuorum, ConnectionFails,
         CommitPut, AbortPut, Retry, ReplyToGet, RepairQuorum, Leave, Goto,
         TypeOK, Quorate
    <3> QED
      BY <3>1, <3>2
  <2>2. ASSUME NEW m \in Links, ConnectionStep(m)
        PROVE  attempt'[c] = attempt[c] /\ home'[c] = home[c]
    BY <2>2, ConnectionFrame
  <2>3. CASE UNCHANGED vars
    BY <2>3 DEF vars, coordinatorVars
  <2> QED
    BY <2>1, <2>2, <2>3 DEF Next, Terminated
<1>2. ASSUME NEW l \in Links, Request(l) = c
      PROVE  link'[l] # "unused" <=> link[l] # "unused"
  <2>1. ASSUME NEW t \in Requests, Receive(t) \/ CoordinatorStep(t)
        PROVE  link'[l] # "unused" <=> link[l] # "unused"
    <3>1. CASE link'[l] = link[l]
      BY <3>1
    <3>2. CASE link'[l] # link[l]
      <4>1. Request(l) = t /\ link[l] # "unused"
        BY <1>2, <2>1, <3>2, CoordinatorMoves DEF ContactQuorum, Quorate
      <4>2. link'[l] # "unused"
        BY <2>1, <4>1 DEF CoordinatorStep, Receive, AddCoordinator,
           PrepareLocally, ReadLocally, ContactQuorum, ConnectionFails,
           CommitPut, AbortPut, Retry, ReplyToGet, RepairQuorum, Leave, AllAt,
           linkVars
      <4> QED
        BY <4>1, <4>2
    <3> QED
      BY <3>1, <3>2
  <2>2. ASSUME NEW m \in Links, ConnectionStep(m)
        PROVE  link'[l] # "unused" <=> link[l] # "unused"
    <3>1. CASE l # m
      BY <2>2, <3>1, ConnectionFrame
    <3>2. CASE l = m
      BY <1>0, <2>2, <3>2 DEF ConnectionStep, HandlePrepare,
         PrepareParticipant, ReceiveVote, ParticipantCommit, ParticipantAbort,
         LateAbort, RemoveParticipant, HandleFetch, ReceiveFetched,
         HandleRepair, Decide, Move, TypeOK
    <3> QED
      BY <3>1, <3>2
  <2>3. CASE UNCHANGED vars
    BY <2>3 DEF vars, linkVars
  <2> QED
    BY <2>1, <2>2, <2>3 DEF Next, Terminated
<1>3. Contacted(c)' = Contacted(c)
  BY <1>1, <1>2 DEF Contacted
<1> QED
  BY <1>1, <1>3 DEF Voters

LEMMA InitQuorumInv == Init => QuorumInv
  BY DEF Init, QuorumInv, Quorate

\* connectToQuorum: with the coordinator itself, as many replicas as the quorum.
LEMMA ContactedQuorum ==
    ASSUME HandlerInv, QuorumInv, NEW t \in Requests, ContactQuorum(t)
    PROVE  Cardinality(Voters(t)') = Quorum(t)
<1>0. /\ TypeOK
      /\ home[t] \in Replicas
      /\ attempt[t] \in 1 .. MaxAttempts
  BY PlacementAssumption, AttemptAssumption DEF HandlerInv, TypeOK, QuorumInv,
     ContactQuorum
<1>1. PICK Q \in SUBSET (Replicas \ {home[t]}) :
        /\ Cardinality(Q) = Quorum(t) - 1
        /\ link' = [l \in Links |->
                      IF Request(l) = t /\ Attempt(l) = attempt[t] /\ Peer(l) \in Q
                      THEN IF t \in Puts THEN "prepare" ELSE "fetch"
                      ELSE link[l]]
  BY DEF ContactQuorum
<1>2. \A l \in Links : Request(l) = t /\ Attempt(l) = attempt[t]
                       => link[l] = "unused"
  BY <1>0, LinkParts DEF HandlerInv, LinkInv, FreshLinks, ContactQuorum, TypeOK
<1>3. /\ attempt' = attempt
      /\ home' = home
  BY DEF ContactQuorum
<1>4. Contacted(t)' = {l \in Links : /\ Request(l) = t
                                     /\ Attempt(l) = attempt[t]
                                     /\ Peer(l) \in Q}
  BY <1>1, <1>2, <1>3 DEF Contacted
<1>5. {Peer(l) : l \in Contacted(t)'} = Q
  <2>1. ASSUME NEW q \in Q PROVE \E l \in Contacted(t)' : Peer(l) = q
    <3>1. <<t, attempt[t], q>> \in Links
      BY <1>0 DEF Links
    <3> QED
      BY <1>4, <3>1 DEF Request, Attempt, Peer
  <2> QED
    BY <1>4, <2>1
<1>6. Voters(t)' = Q \cup {home[t]}
  BY <1>3, <1>5 DEF Voters
<1>7. IsFiniteSet(Q)
  BY <1>0, VotersAreReplicas, FS_Subset
<1>8. Cardinality(Q \cup {home[t]}) = Cardinality(Q) + 1
  BY <1>7, FS_AddElement
<1> QED
  BY <1>1, <1>6, <1>8, QuorumAssumption DEF Quorum

LEMMA QuorumInvStep ==
    ASSUME HandlerInv, QuorumInv, [Next]_vars
    PROVE  QuorumInv'
<1>0. TypeOK
  BY DEF HandlerInv
<1>1. ASSUME NEW c \in Requests, phase'[c] \in Quorate
      PROVE  Cardinality(Voters(c)') = Quorum(c)
  <2>1. CASE phase[c] \in Quorate
    BY <1>1, <2>1, VotersStay DEF QuorumInv
  <2>2. CASE phase[c] \notin Quorate
    <3>1. ASSUME NEW t \in Requests, Receive(t) \/ CoordinatorStep(t)
          PROVE  ContactQuorum(c)
      <4>1. c = t
        BY <1>0, <1>1, <2>2, <3>1, CoordinatorFrame
      <4> QED
        BY <1>0, <1>1, <2>2, <3>1, <4>1 DEF CoordinatorStep, Receive,
           AddCoordinator, PrepareLocally, ReadLocally, ConnectionFails,
           CommitPut, AbortPut, Retry, ReplyToGet, RepairQuorum, Leave, Goto,
           TypeOK, Quorate
    <3>2. ~ \E m \in Links : ConnectionStep(m)
      BY <1>1, <2>2, ConnectionFrame
    <3>3. ~ UNCHANGED vars
      BY <1>1, <2>2 DEF vars, coordinatorVars
    <3>4. ContactQuorum(c)
      BY <3>1, <3>2, <3>3 DEF Next, Terminated
    <3> QED
      BY <3>4, ContactedQuorum
  <2> QED
    BY <2>1, <2>2
<1>2. ASSUME NEW c \in Requests, phase'[c] \in {"registered", "local"}
      PROVE  attempt'[c] <= MaxAttempts
  <2>1. ASSUME NEW t \in Requests, Receive(t) \/ CoordinatorStep(t)
        PROVE  attempt'[c] <= MaxAttempts
    <3>1. CASE c # t
      BY <1>0, <1>2, <2>1, <3>1, CoordinatorFrame DEF QuorumInv
    <3>2. CASE c = t
      BY <1>0, <1>2, <2>1, <3>2 DEF CoordinatorStep, Receive, AddCoordinator,
         PrepareLocally, ReadLocally, ContactQuorum, ConnectionFails,
         CommitPut, AbortPut, Retry, ReplyToGet, RepairQuorum, Leave, Goto,
         TypeOK, QuorumInv
    <3> QED
      BY <3>1, <3>2
  <2>2. ASSUME NEW m \in Links, ConnectionStep(m)
        PROVE  attempt'[c] <= MaxAttempts
    BY <1>2, <2>2, ConnectionFrame DEF QuorumInv
  <2>3. CASE UNCHANGED vars
    BY <1>2, <2>3 DEF vars, coordinatorVars, QuorumInv
  <2> QED
    BY <2>1, <2>2, <2>3 DEF Next, Terminated
<1>3. \A c \in Requests : Quorum(c)' = Quorum(c)
  BY DEF Quorum
<1> QED
  BY <1>1, <1>2, <1>3 DEF QuorumInv

-----------------------------------------------------------------------------
(* What a committed put leaves at the replicas of its quorum.              *)

\* Replica r has the value of t or a newer one, or its GLOBAL_COMMIT is on the
\* way.
HeldAt(t, r) ==
    \/ store[r].ver >= entry[t].ver
    \/ \E l \in Links : Request(l) = t /\ Peer(l) = r /\ link[l] = "commit"

VotersHold == \A t \in Committed : \A r \in Voters(t) : HeldAt(t, r)

LEMMA InitVotersHold == Init => VotersHold
  BY DEF Init, VotersHold, Committed, Requests

\* Every vote is a commit when a put commits.
LEMMA CommitPutReady ==
    ASSUME HandlerInv, NEW t \in Requests, CommitPut(t)
    PROVE  \A l \in Contacted(t) : link[l] = "ready"
  BY DEF CommitPut, Answered, HandlerInv, LinkInv, RefusalsNoted, Contacted

\* The puts that commit in a step.
LEMMA NewlyCommitted ==
    ASSUME HandlerInv, [Next]_vars, NEW t \in Committed', t \notin Committed
    PROVE  t \in Requests /\ CommitPut(t)
<1>0. TypeOK /\ t \in Puts /\ t \in Requests /\ t \notin Gets
  BY RequestAssumption DEF HandlerInv, Committed, Requests
<1>1. ASSUME NEW c \in Requests, Receive(c) \/ CoordinatorStep(c)
      PROVE  CommitPut(t)
  <2>1. c = t
    BY <1>0, <1>1, CoordinatorFrame DEF Committed
  <2> QED
    BY <1>0, <1>1, <2>1 DEF CoordinatorStep, Receive, AddCoordinator,
       PrepareLocally, ReadLocally, ContactQuorum, ConnectionFails, AbortPut,
       Retry, ReplyToGet, RepairQuorum, Leave, Goto, TypeOK, Committed,
       HandlerInv, LinkInv, RepliedLinks
<1>2. ~ \E m \in Links : ConnectionStep(m)
  BY ConnectionFrame DEF Committed
<1>3. ~ UNCHANGED vars
  BY DEF Committed, vars, coordinatorVars
<1> QED
  BY <1>0, <1>1, <1>2, <1>3 DEF Next, Terminated

LEMMA VotersHoldStep ==
    ASSUME HandlerInv, EntryInv, FlagInv, VotersHold, [Next]_vars
    PROVE  VotersHold'
<1>0. /\ TypeOK /\ TypeOK'
      /\ \A r \in Replicas : /\ store[r].ver \in Nat
                             /\ store'[r].ver \in Nat
                             /\ store'[r].ver >= store[r].ver
      /\ \A t \in Requests : entry[t].ver \in Nat /\ entry'[t].ver \in Nat
  <2>1. TypeOK /\ TypeOK'
    BY HandlerInvStep DEF HandlerInv
  <2>2. \A r \in Replicas : store[r].ver \in Nat /\ store'[r].ver \in Nat
    BY <2>1 DEF TypeOK, Entries
  <2>3. ASSUME NEW r \in Replicas PROVE store'[r].ver >= store[r].ver
    <3>1. CASE store'[r] = store[r]
      BY <2>2, <3>1
    <3>2. CASE store'[r] # store[r]
      BY <2>2, <3>2, StoreWrites
    <3> QED
      BY <3>1, <3>2
  <2>4. \A t \in Requests : entry[t].ver \in Nat /\ entry'[t].ver \in Nat
    BY <2>1 DEF TypeOK, Entries
  <2> QED
    BY <2>1, <2>2, <2>3, <2>4
<1> SUFFICES ASSUME NEW t \in Committed', NEW r \in Voters(t)'
             PROVE  HeldAt(t, r)'
  BY DEF VotersHold
<1>1. t \in Requests /\ r \in Replicas /\ t \in Puts
  BY <1>0, LinkParts, PlacementAssumption
     DEF Committed, Requests, Voters, Contacted, TypeOK
<1>2. CASE t \in Committed
  <2>1. Voters(t)' = Voters(t) /\ entry'[t] = entry[t]
    BY <1>1, <1>2, VotersStay, CommittedStable DEF Committed, Quorate
  <2>2. CASE store[r].ver >= entry[t].ver
    BY <1>0, <1>1, <2>1, <2>2 DEF HeldAt
  <2>3. ASSUME NEW l \in Links, Request(l) = t, Peer(l) = r, link[l] = "commit"
        PROVE  HeldAt(t, r)'
    <3>1. CASE link'[l] = "commit"
      BY <2>3, <3>1 DEF HeldAt
    <3>2. CASE link'[l] # "commit"
      <4>1. \A c \in Requests : ~(Receive(c) \/ CoordinatorStep(c))
        BY <2>3, <3>2, CoordinatorMoves
      <4>2. PICK m \in Links : ConnectionStep(m)
        BY <2>3, <3>2, <4>1 DEF Next, Terminated, vars, linkVars
      <4>3. m = l
        BY <2>3, <3>2, <4>2, ConnectionFrame
      <4>4. ParticipantCommit(l)
        BY <2>3, <4>2, <4>3 DEF ConnectionStep, HandlePrepare,
           PrepareParticipant, ReceiveVote, ParticipantAbort, LateAbort,
           RemoveParticipant, HandleFetch, ReceiveFetched, HandleRepair
      <4>5. store'[r] = CommitEntry(store[r], payload[l])
        BY <1>0, <1>1, <2>3, <4>4 DEF ParticipantCommit, Decide, FlagInv, TypeOK
      <4>6. payload[l] = entry[t]
        BY <2>3 DEF EntryInv, MessagesSound
      <4>7. store'[r].ver >= entry'[t].ver
        BY <1>0, <1>1, <2>1, <4>5, <4>6 DEF CommitEntry
      <4> QED
        BY <4>7 DEF HeldAt
    <3> QED
      BY <3>1, <3>2
  <2> QED
    BY <1>2, <2>1, <2>2, <2>3 DEF VotersHold, HeldAt
<1>3. CASE t \notin Committed
  <2>1. CommitPut(t)
    BY <1>3, NewlyCommitted
  <2>2. Contacted(t)' = Contacted(t) /\ home'[t] = home[t]
    <3>1. phase[t] \in Quorate /\ phase'[t] \in Quorate
      BY <1>0, <1>1, <2>1 DEF CommitPut, Goto, TypeOK, Quorate
    <3>2. UNCHANGED home
      BY <2>1 DEF CommitPut
    <3> QED
      BY <1>1, <3>1, <3>2, VotersStay
  <2>3. CASE r = home[t]
    <3>1. store'[r] = CommitEntry(store[r], entry'[t])
      BY <1>0, <1>1, <2>1, <2>3, CommitPutEntry
    <3>2. store'[r].ver >= entry'[t].ver
      BY <1>0, <1>1, <3>1 DEF CommitEntry
    <3> QED
      BY <3>2 DEF HeldAt
  <2>4. CASE r # home[t]
    <3>1. PICK l \in Contacted(t) : Peer(l) = r
      BY <2>2, <2>4 DEF Voters
    <3>2. l \in Links /\ Request(l) = t
      BY <3>1 DEF Contacted
    <3>3. link'[l] = "commit"
      BY <1>0, <1>1, <2>1, <3>1, CommitPutEntry
    <3> QED
      BY <3>1, <3>2, <3>3 DEF HeldAt
  <2> QED
    BY <2>3, <2>4
<1> QED
  BY <1>2, <1>3

-----------------------------------------------------------------------------
(* What a request knows of the committed puts when it has its quorum.      *)

\* A version is no lower than those of the puts of S that replica r voted for.
Covers(n, r, S) == \A s \in S : r \in Voters(s) => n >= entry[s].ver

\* The same after a step.
CoversAfter(n, r, S) == \A s \in S : r \in Voters(s)' => n >= entry'[s].ver

\* The puts a request must not miss: a put every committed one, a get those
\* that had committed when it arrived.
Needed(t) == IF t \in Puts THEN Committed ELSE preceding[t]

PrecedingCommitted == \A t \in Requests : preceding[t] \subseteq Committed

\* A coordinator knows what its own replica voted for from the time it prepared
\* or read its datastore...
HomeKnows ==
    \A t \in Requests :
        phase[t] \in {"local", "gathering"}
        => Covers(entry[t].ver, home[t], Needed(t))

\* ... and what another one voted for once its answer is counted.
LinksKnow ==
    \A l \in Links :
        /\ link[l] \in {"vote_commit", "fetched"}
              => Covers(payload[l].ver, Peer(l), Needed(Request(l)))
        /\ link[l] \in {"ready", "read"}
              => Covers(entry[Request(l)].ver, Peer(l), Needed(Request(l)))

KnowledgeInv == PrecedingCommitted /\ HomeKnows /\ LinksKnow

LEMMA InitKnowledgeInv == Init => KnowledgeInv
  BY LinkParts DEF Init, KnowledgeInv, PrecedingCommitted, HomeKnows, LinksKnow

LEMMA NeededCommitted ==
    ASSUME PrecedingCommitted, NEW t \in Requests
    PROVE  Needed(t) \subseteq Committed
  BY DEF PrecedingCommitted, Needed

\* A datastore that no transaction has locked is up to date with its votes.
LEMMA UnlockedCovers ==
    ASSUME HandlerInv, VotersHold, NEW r \in Replicas, owner2pc[r] = {},
           NEW S \in SUBSET Committed
    PROVE  Covers(store[r].ver, r, S)
<1> SUFFICES ASSUME NEW s \in S, r \in Voters(s)
             PROVE  store[r].ver >= entry[s].ver
  BY DEF Covers
<1>1. ASSUME NEW l \in Links, Peer(l) = r, link[l] = "commit"
      PROVE  FALSE
  <2>1. l \in participants[r]
    BY <1>1 DEF HandlerInv, ParticipantsRegistered, AttachedStages
  <2>2. LockingParticipant(l)
    BY <1>1 DEF LockingParticipant
  <2> QED
    BY <2>1, <2>2 DEF HandlerInv, LockInv, HeldBy
<1>2. HeldAt(s, r)
  BY DEF VotersHold
<1> QED
  BY <1>1, <1>2 DEF HeldAt

\* Committed puts keep their version and their quorum.
LEMMA CoversStays ==
    ASSUME HandlerInv, [Next]_vars, NEW S \in SUBSET Committed, NEW r,
           NEW n \in Nat, Covers(n, r, S), NEW m \in Nat, m >= n
    PROVE  CoversAfter(m, r, S)
<1> SUFFICES ASSUME NEW s \in S, r \in Voters(s)'
             PROVE  m >= entry'[s].ver
  BY DEF CoversAfter
<1>1. s \in Requests /\ s \in Committed /\ s \in Committed'
  BY CommittedStable DEF Committed, Requests
<1>2. entry'[s] = entry[s] /\ Voters(s)' = Voters(s)
  BY <1>1, CommittedStable, VotersStay DEF Committed, Quorate
<1>3. n >= entry[s].ver /\ entry[s].ver \in Nat
  BY <1>1, <1>2 DEF Covers, HandlerInv, TypeOK, Entries
<1> QED
  BY <1>2, <1>3

\* While a put holds the handler of a replica, no other put commits with it.
LEMMA NoRivalCommits ==
    ASSUME HandlerInv, NEW t \in Requests, CommitPut(t),
           NEW r \in Replicas, r \in Voters(t)
    PROVE  /\ coordinators[r] \subseteq {t}
           /\ \A l \in participants[r] : Request(l) = t
<1>1. CASE r = home[t]
  <2>1. t \in coordinators[r]
    BY <1>1 DEF HandlerInv, CoordinatorsRegistered, CommitPut
  <2> QED
    BY <2>1 DEF HandlerInv, LockInv, OneHandler
<1>2. ASSUME NEW k \in Contacted(t), Peer(k) = r
      PROVE  /\ coordinators[r] \subseteq {t}
             /\ \A l \in participants[r] : Request(l) = t
  <2>1. k \in Links /\ Request(k) = t /\ link[k] = "ready"
    BY CommitPutReady DEF Contacted
  <2>2. k \in participants[r]
    BY <1>2, <2>1 DEF HandlerInv, ParticipantsRegistered, AttachedStages
  <2> QED
    BY <2>1, <2>2 DEF HandlerInv, LockInv, OneHandler
<1> QED
  BY <1>1, <1>2 DEF Voters

LEMMA RivalCovers ==
    ASSUME HandlerInv, [Next]_vars, NEW t \in Puts, ~CommitPut(t),
           NEW r \in Replicas,
           t \in coordinators[r] \/ \E l \in participants[r] : Request(l) = t,
           NEW n \in Nat, Covers(n, r, Committed), NEW m \in Nat, m >= n
    PROVE  CoversAfter(m, r, Committed')
<1>1. CoversAfter(m, r, Committed)
  BY CoversStays
<1>2. ASSUME NEW s \in Committed', s \notin Committed, r \in Voters(s)'
      PROVE  FALSE
  <2>1. s \in Requests /\ CommitPut(s)
    BY <1>2, NewlyCommitted
  <2>2. phase[s] \in Quorate /\ phase'[s] \in Quorate
    BY <2>1 DEF CommitPut, Goto, HandlerInv, TypeOK, Quorate
  <2>3. r \in Voters(s)
    BY <1>2, <2>1, <2>2, VotersStay
  <2> QED
    BY <2>1, <2>3, NoRivalCommits
<1> QED
  BY <1>1, <1>2 DEF CoversAfter

\* A coordinator forgets a version only when it prepares its datastore anew.
LEMMA EntryGrows ==
    ASSUME HandlerInv, [Next]_vars, NEW t \in Requests, ~PrepareLocally(t)
    PROVE  /\ entry'[t].ver >= entry[t].ver
           /\ entry[t].ver \in Nat /\ entry'[t].ver \in Nat
<1>0. TypeOK /\ TypeOK'
  BY HandlerInvStep DEF HandlerInv
<1>1. entry[t].ver \in Nat /\ entry'[t].ver \in Nat
  BY <1>0 DEF TypeOK, Entries
<1>2. ASSUME NEW c \in Requests, Receive(c) \/ CoordinatorStep(c)
      PROVE  entry'[t].ver >= entry[t].ver
  <2>1. CASE c # t
    BY <1>0, <1>1, <1>2, <2>1, CoordinatorFrame
  <2>2. CASE ReadLocally(t)
    <3>1. entry'[t] = Latest(entry[t], store[home[t]])
      BY <1>0, <2>2 DEF ReadLocally, TypeOK
    <3>2. store[home[t]].ver \in Nat
      BY <1>0, PlacementAssumption DEF TypeOK, Entries
    <3> QED
      BY <1>1, <3>1, <3>2 DEF Latest
  <2>3. CASE CommitPut(t)
    <3>1. entry'[t].ver = entry[t].ver + 1
      BY <1>0, <2>3 DEF CommitPut, NextVersion, Entry, TypeOK
    <3> QED
      BY <1>1, <3>1
  <2>4. CASE c = t /\ ~ReadLocally(t) /\ ~CommitPut(t)
    <3>1. entry'[t] = entry[t]
      BY <1>0, <1>2, <2>4 DEF CoordinatorStep, Receive, AddCoordinator,
         ContactQuorum, ConnectionFails, AbortPut, Retry, ReplyToGet,
         RepairQuorum, Leave
    <3> QED
      BY <1>1, <3>1
  <2> QED
    BY <1>2, <2>1, <2>2, <2>3, <2>4
<1>3. ASSUME NEW m \in Links, ConnectionStep(m)
      PROVE  entry'[t].ver >= entry[t].ver
  <2>0. Request(m) \in Requests /\ payload[m].ver \in Nat
    BY <1>0, LinkParts DEF TypeOK, Entries
  <2>1. CASE ReceiveVote(m) /\ link[m] = "vote_commit"
    <3>1. entry'[t].ver = IF t = Request(m)
                          THEN HighestVote(entry[t].ver, payload[m].ver)
                          ELSE entry[t].ver
      BY <1>0, <2>0, <2>1, VoteUpdates DEF TypeOK, Entries
    <3> QED
      BY <1>1, <2>0, <3>1 DEF HighestVote
  <2>2. CASE ReceiveFetched(m)
    <3>1. entry'[t] = IF t = Request(m) THEN Latest(entry[t], payload[m])
                      ELSE entry[t]
      BY <1>0, <2>0, <2>2, FetchedUpdates DEF TypeOK
    <3> QED
      BY <1>1, <2>0, <3>1 DEF Latest
  <2>3. CASE ~(ReceiveVote(m) /\ link[m] = "vote_commit") /\ ~ReceiveFetched(m)
    <3>1. UNCHANGED entry
      BY <1>3, <2>3 DEF ConnectionStep, HandlePrepare, PrepareParticipant,
         ReceiveVote, ParticipantCommit, ParticipantAbort, LateAbort,
         RemoveParticipant, HandleFetch, HandleRepair, Decide, coordinatorVars
    <3> QED
      BY <1>1, <3>1
  <2> QED
    BY <2>1, <2>2, <2>3
<1>4. CASE UNCHANGED vars
  BY <1>1, <1>4 DEF vars, coordinatorVars
<1> QED
  BY <1>1, <1>2, <1>3, <1>4 DEF Next, Terminated

\* History: what a request found committed is noted once, when it arrives.
LEMMA PrecedingStays ==
    ASSUME HandlerInv, [Next]_vars, NEW t \in Requests, phase[t] # "idle"
    PROVE  preceding'[t] = preceding[t] /\ phase'[t] # "idle"
<1>0. TypeOK
  BY DEF HandlerInv
<1>1. ASSUME NEW c \in Requests, Receive(c) \/ CoordinatorStep(c)
      PROVE  preceding'[t] = preceding[t] /\ phase'[t] # "idle"
  <2>1. CASE c # t
    BY <1>0, <1>1, <2>1, CoordinatorFrame
  <2>2. CASE c = t
    BY <1>0, <1>1, <2>2 DEF CoordinatorStep, Receive, AddCoordinator,
       PrepareLocally, ReadLocally, ContactQuorum, ConnectionFails, CommitPut,
       AbortPut, Retry, ReplyToGet, RepairQuorum, Leave, Goto, TypeOK
  <2> QED
    BY <2>1, <2>2
<1>2. ASSUME NEW m \in Links, ConnectionStep(m)
      PROVE  preceding'[t] = preceding[t] /\ phase'[t] # "idle"
  BY <1>2, ConnectionFrame
<1>3. CASE UNCHANGED vars
  BY <1>3 DEF vars, coordinatorVars
<1> QED
  BY <1>1, <1>2, <1>3 DEF Next, Terminated

LEMMA PrecedingStep ==
    ASSUME HandlerInv, PrecedingCommitted, [Next]_vars
    PROVE  PrecedingCommitted'
<1> SUFFICES ASSUME NEW t \in Requests
             PROVE  preceding'[t] \subseteq Committed'
  BY DEF PrecedingCommitted
<1>0. TypeOK
  BY DEF HandlerInv
<1>1. CASE preceding'[t] = preceding[t]
  BY <1>1, CommittedStable DEF PrecedingCommitted
<1>2. CASE preceding'[t] # preceding[t]
  <2>1. \A m \in Links : ~ConnectionStep(m)
    BY <1>2, ConnectionFrame
  <2>2. PICK c \in Requests : Receive(c) \/ CoordinatorStep(c)
    BY <1>2, <2>1 DEF Next, Terminated, vars, coordinatorVars
  <2>3. c = t
    BY <1>0, <1>2, <2>2, CoordinatorFrame
  <2>4. preceding'[t] = Committed
    BY <1>0, <1>2, <2>2, <2>3 DEF CoordinatorStep, Receive, AddCoordinator,
       PrepareLocally, ReadLocally, ContactQuorum, ConnectionFails, CommitPut,
       AbortPut, Retry, ReplyToGet, RepairQuorum, Leave, TypeOK
  <2> QED
    BY <2>4, CommittedStable
<1> QED
  BY <1>1, <1>2

\* What t knows at replica r is enough after a step that does not commit t.
LEMMA NeededCovered ==
    ASSUME HandlerInv, PrecedingCommitted, [Next]_vars,
           NEW t \in Requests, phase[t] # "idle", ~CommitPut(t),
           NEW r \in Replicas,
           t \in Puts => \/ t \in coordinators[r]
                         \/ \E l \in participants[r] : Request(l) = t,
           NEW n \in Nat, Covers(n, r, Needed(t)), NEW m \in Nat, m >= n
    PROVE  Covers(m, r, Needed(t))'
<1>1. CASE t \in Puts
  <2>1. CoversAfter(m, r, Committed')
    BY <1>1, RivalCovers DEF Needed
  <2> QED
    BY <1>1, <2>1 DEF Needed, Covers, CoversAfter
<1>2. CASE t \notin Puts
  <2>1. preceding'[t] = preceding[t] /\ preceding[t] \subseteq Committed
    BY PrecedingStays DEF PrecedingCommitted
  <2>2. CoversAfter(m, r, preceding[t])
    BY <1>2, <2>1, CoversStays DEF Needed
  <2> QED
    BY <1>2, <2>1, <2>2 DEF Needed, Covers, CoversAfter
<1> QED
  BY <1>1, <1>2

LEMMA HomeKnowsStep ==
    ASSUME HandlerInv, VotersHold, PrecedingCommitted, HomeKnows, [Next]_vars
    PROVE  HomeKnows'
<1>0. TypeOK /\ TypeOK' /\ UNCHANGED home
  <2>1. TypeOK /\ TypeOK'
    BY HandlerInvStep DEF HandlerInv
  <2>2. UNCHANGED home
    BY <2>1, CoordinatorFrame, ConnectionFrame DEF Next, Terminated, vars,
       coordinatorVars
  <2> QED
    BY <2>1, <2>2
<1> SUFFICES ASSUME NEW t \in Requests, phase'[t] \in {"local", "gathering"}
             PROVE  Covers(entry[t].ver, home[t], Needed(t))'
  BY DEF HomeKnows
<1>1. /\ home[t] \in Replicas
      /\ entry[t].ver \in Nat /\ entry'[t].ver \in Nat
      /\ store[home[t]].ver \in Nat
      /\ ~CommitPut(t)
  BY <1>0, PlacementAssumption DEF TypeOK, Entries, CommitPut, Goto
<1>2. CASE phase[t] \in {"local", "gathering"}
  <2>1. t \in coordinators[home[t]]
    BY <1>1, <1>2 DEF HandlerInv, CoordinatorsRegistered
  <2>2. entry'[t].ver >= entry[t].ver
    BY <1>2, EntryGrows DEF PrepareLocally
  <2>3. Covers(entry[t].ver, home[t], Needed(t))
    BY <1>2 DEF HomeKnows
  <2> DEFINE m == entry'[t].ver
  <2>4. \A r \in Replicas : r = home[t] =>
           \A n \in Nat : n = m => Covers(n, r, Needed(t))'
    BY <1>1, <1>2, <2>1, <2>2, <2>3, NeededCovered
  <2> QED
    BY <1>0, <1>1, <2>4 DEF Covers
<1>3. CASE phase[t] \notin {"local", "gathering"}
  <2>1. PrepareLocally(t) \/ ReadLocally(t)
    <3>1. \A m \in Links : ~ConnectionStep(m)
      BY <1>3, ConnectionFrame
    <3>2. PICK c \in Requests : Receive(c) \/ CoordinatorStep(c)
      BY <1>3, <3>1 DEF Next, Terminated, vars, coordinatorVars
    <3>3. c = t
      BY <1>0, <1>3, <3>2, CoordinatorFrame
    <3> QED
      BY <1>0, <1>3, <3>2, <3>3 DEF CoordinatorStep, Receive, AddCoordinator,
         ContactQuorum, ConnectionFails, CommitPut, AbortPut, Retry,
         ReplyToGet, RepairQuorum, Leave, Goto, TypeOK
  <2>2. /\ owner2pc[home[t]] = {}
        /\ entry'[t].ver >= store[home[t]].ver
        /\ phase[t] = "registered"
    <3>1. CASE PrepareLocally(t)
      BY <1>0, <1>1, <3>1 DEF PrepareLocally, Goto, Entry, TypeOK
    <3>2. CASE ReadLocally(t)
      <4>1. entry'[t] = Latest(entry[t], store[home[t]])
        BY <1>0, <3>2 DEF ReadLocally, TypeOK
      <4> QED
        BY <1>1, <3>2, <4>1 DEF ReadLocally, Latest
    <3> QED
      BY <2>1, <3>1, <3>2
  <2>3. Covers(store[home[t]].ver, home[t], Needed(t))
    BY <1>1, <2>2, NeededCommitted, UnlockedCovers
  <2>4. t \in coordinators[home[t]]
    BY <1>1, <2>2 DEF HandlerInv, CoordinatorsRegistered
  <2> DEFINE m == entry'[t].ver
  <2>5. \A r \in Replicas : r = home[t] =>
           \A n \in Nat : n = m => Covers(n, r, Needed(t))'
    BY <1>1, <2>2, <2>3, <2>4, NeededCovered
  <2> QED
    BY <1>0, <1>1, <2>5 DEF Covers
<1> QED
  BY <1>2, <1>3

\* A message keeps what it carries until it is handled.
LEMMA PayloadStays ==
    ASSUME HandlerInv, [Next]_vars, NEW l \in Links,
           link[l] \in {"vote_commit", "fetched"}, link'[l] = link[l]
    PROVE  payload'[l] = payload[l]
<1>0. TypeOK
  BY DEF HandlerInv
<1>1. ASSUME NEW c \in Requests, Receive(c) \/ CoordinatorStep(c)
      PROVE  payload'[l] = payload[l]
  <2>1. CASE CommitPut(c)
    BY <1>0, <2>1, CoordinatorFrame, CommitPutReady DEF CoordinatorStep
  <2>2. CASE RepairQuorum(c)
    <3>1. l \notin Contacted(c)
      BY <2>2 DEF RepairQuorum, HandlerInv, LinkInv, RepliedLinks
    <3> QED
      BY <1>0, <1>1, <3>1, CoordinatorFrame
  <2>3. CASE ~CommitPut(c) /\ ~RepairQuorum(c)
    BY <1>1, <2>3 DEF CoordinatorStep, Receive, AddCoordinator, PrepareLocally,
       ReadLocally, ContactQuorum, ConnectionFails, AbortPut, Retry,
       ReplyToGet, Leave, linkVars
  <2> QED
    BY <2>1, <2>2, <2>3
<1>2. ASSUME NEW m \in Links, ConnectionStep(m)
      PROVE  payload'[l] = payload[l]
  <2>1. CASE l # m
    BY <1>2, <2>1, ConnectionFrame
  <2>2. CASE l = m
    BY <1>0, <1>2, <2>2 DEF ConnectionStep, HandlePrepare, PrepareParticipant,
       ReceiveVote, ParticipantCommit, ParticipantAbort, LateAbort,
       RemoveParticipant, HandleFetch, ReceiveFetched, HandleRepair, Decide
  <2> QED
    BY <2>1, <2>2
<1>3. CASE UNCHANGED vars
  BY <1>3 DEF vars, linkVars
<1> QED
  BY <1>1, <1>2, <1>3 DEF Next, Terminated

\* The steps that give or count an answer.
LEMMA AnswerSteps ==
    ASSUME HandlerInv, [Next]_vars, NEW l \in Links, link'[l] # link[l],
           link'[l] \in {"vote_commit", "fetched", "ready", "read"}
    PROVE  /\ link'[l] = "vote_commit" => PrepareParticipant(l)
           /\ link'[l] = "fetched" => HandleFetch(l)
           /\ link'[l] = "ready" => ReceiveVote(l) /\ link[l] = "vote_commit"
           /\ link'[l] = "read" => ReceiveFetched(l)
           /\ UNCHANGED phase
<1>0. TypeOK
  BY DEF HandlerInv
<1>1. ~ \E c \in Requests : Receive(c) \/ CoordinatorStep(c)
  BY ZenonT(30) DEF CoordinatorStep, Receive, AddCoordinator, PrepareLocally, ReadLocally,
     ContactQuorum, ConnectionFails, CommitPut, AbortPut, Retry, ReplyToGet,
     RepairQuorum, Leave, AllAt, linkVars
<1>2. PICK m \in Links : ConnectionStep(m)
  BY <1>1 DEF Next, Terminated, vars, linkVars
<1>3. m = l /\ UNCHANGED phase
  BY <1>2, ConnectionFrame
<1> QED
  BY <1>0, <1>2, <1>3 DEF ConnectionStep, HandlePrepare, PrepareParticipant,
     ReceiveVote, ParticipantCommit, ParticipantAbort, LateAbort,
     RemoveParticipant, HandleFetch, ReceiveFetched, HandleRepair, Decide, Move,
     TypeOK

LEMMA LinksKnowStep ==
    ASSUME HandlerInv, VotersHold, KnowledgeInv, [Next]_vars
    PROVE  LinksKnow'
<1>0. TypeOK /\ TypeOK'
  BY HandlerInvStep DEF HandlerInv
<1> SUFFICES ASSUME NEW l \in Links
             PROVE  /\ link'[l] \in {"vote_commit", "fetched"} =>
                          Covers(payload[l].ver, Peer(l), Needed(Request(l)))'
                    /\ link'[l] \in {"ready", "read"} =>
                          Covers(entry[Request(l)].ver, Peer(l),
                                 Needed(Request(l)))'
  BY DEF LinksKnow
<1> DEFINE t == Request(l)
           q == Peer(l)
<1>1. /\ t \in Requests /\ q \in Replicas
      /\ payload[l].ver \in Nat /\ payload'[l].ver \in Nat
      /\ entry[t].ver \in Nat /\ entry'[t].ver \in Nat
      /\ store[q].ver \in Nat
  BY <1>0, LinkParts DEF TypeOK, Entries
<1>2. ASSUME link[l] \in AttachedStages
      PROVE  \E k \in participants[q] : Request(k) = t
  BY <1>1, <1>2 DEF HandlerInv, ParticipantsRegistered
<1>3. ASSUME link[l] # "unused"
      PROVE  phase[t] # "idle"
  BY <1>1, <1>3, LinkParts DEF HandlerInv, LinkInv, FreshLinks, FirstAttempt
<1>4. ASSUME t \in Puts, CommitPut(t), link[l] \in Awaited
      PROVE  link'[l] = "commit"
  <2>1. l \in Contacted(t)
    BY <1>4, AwaitedCoordinator DEF Contacted, Awaited
  <2> QED
    BY <1>4, <2>1 DEF CommitPut, AllAt
<1>5. ASSUME link'[l] = link[l],
             link[l] \in {"vote_commit", "fetched", "ready", "read"}
      PROVE  /\ phase[t] # "idle" /\ ~CommitPut(t) /\ ~PrepareLocally(t)
             /\ t \in Puts => \E k \in participants[q] : Request(k) = t
  <2>1. CASE t \in Puts
    <3>1. link[l] \in {"vote_commit", "ready"}
      BY <1>5, <2>1, RequestAssumption DEF HandlerInv, LinkInv, LinkKinds,
         GetStages
    <3>2. phase[t] = "gathering"
      BY <3>1, AwaitedCoordinator DEF Awaited
    <3> QED
      BY <1>2, <1>4, <1>5, <2>1, <3>1, <3>2 DEF AttachedStages, Awaited,
         PrepareLocally
  <2>2. CASE t \notin Puts
    BY <1>3, <1>5, <2>2 DEF CommitPut, PrepareLocally
  <2> QED
    BY <2>1, <2>2
<1>6. ASSUME link'[l] \in {"vote_commit", "fetched"}
      PROVE  Covers(payload[l].ver, Peer(l), Needed(Request(l)))'
  <2>1. CASE link'[l] = link[l]
    <3>1. payload'[l] = payload[l]
      BY <1>6, <2>1, PayloadStays
    <3>2. Covers(payload[l].ver, q, Needed(t))
      BY <1>6, <2>1 DEF KnowledgeInv, LinksKnow
    <3>3. \A n \in Nat : n = payload[l].ver => Covers(n, q, Needed(t))'
      BY <1>1, <1>5, <1>6, <2>1, <3>2, NeededCovered DEF KnowledgeInv
    <3> QED
      BY <1>1, <3>1, <3>3 DEF Covers
  <2>2. CASE link'[l] # link[l]
    <3>1. /\ PrepareParticipant(l) \/ HandleFetch(l)
          /\ link'[l] = "vote_commit" => PrepareParticipant(l)
          /\ link'[l] = "fetched" => HandleFetch(l)
          /\ UNCHANGED phase
      BY <1>6, <2>2, AnswerSteps
    <3>2. owner2pc[q] = {} /\ payload'[l].ver = store[q].ver
      BY <1>0, <1>6, <3>1 DEF PrepareParticipant, HandleFetch, Move, Entry, TypeOK
    <3>3. Covers(store[q].ver, q, Needed(t))
      BY <1>1, <3>2, NeededCommitted, UnlockedCovers DEF KnowledgeInv
    <3>4. /\ phase[t] # "idle" /\ ~CommitPut(t)
          /\ t \in Puts => \E k \in participants[q] : Request(k) = t
      <4>1. ~CommitPut(t)
        BY <1>0, <1>1, <3>1 DEF CommitPut, Goto, TypeOK
      <4>2. t \in Puts => PrepareParticipant(l)
        BY <3>1, RequestAssumption DEF HandleFetch, HandlerInv, LinkInv,
           LinkKinds, GetStages
      <4> QED
        BY <1>2, <1>3, <3>1, <4>1, <4>2 DEF PrepareParticipant, HandleFetch,
           AttachedStages
    <3>5. \A n \in Nat : n = store[q].ver => Covers(n, q, Needed(t))'
      BY <1>1, <3>3, <3>4, NeededCovered DEF KnowledgeInv
    <3> QED
      BY <1>1, <3>2, <3>5 DEF Covers
  <2> QED
    BY <2>1, <2>2
<1>7. ASSUME link'[l] \in {"ready", "read"}
      PROVE  Covers(entry[Request(l)].ver, Peer(l), Needed(Request(l)))'
  <2>1. CASE link'[l] = link[l]
    <3>1. entry'[t].ver >= entry[t].ver
      BY <1>1, <1>5, <1>7, <2>1, EntryGrows
    <3>2. Covers(entry[t].ver, q, Needed(t))
      BY <1>7, <2>1 DEF KnowledgeInv, LinksKnow
    <3>3. \A n \in Nat : n = entry'[t].ver => Covers(n, q, Needed(t))'
      BY <1>1, <1>5, <1>7, <2>1, <3>1, <3>2, NeededCovered DEF KnowledgeInv
    <3> QED
      BY <1>1, <3>3 DEF Covers
  <2>2. CASE link'[l] # link[l]
    <3>1. /\ \/ ReceiveVote(l) /\ link[l] = "vote_commit"
             \/ ReceiveFetched(l) /\ link[l] = "fetched"
          /\ UNCHANGED phase
      BY <1>7, <2>2, AnswerSteps DEF ReceiveFetched
    <3>2. entry'[t].ver >= payload[l].ver
      <4>1. CASE ReceiveVote(l) /\ link[l] = "vote_commit"
        <5>1. entry'[t].ver = HighestVote(entry[t].ver, payload[l].ver)
          BY <1>0, <1>1, <4>1, VoteUpdates DEF TypeOK, Entries
        <5> QED
          BY <1>1, <5>1 DEF HighestVote
      <4>2. CASE ReceiveFetched(l)
        <5>1. entry'[t] = Latest(entry[t], payload[l])
          BY <1>0, <1>1, <4>2, FetchedUpdates DEF TypeOK
        <5> QED
          BY <1>1, <5>1 DEF Latest
      <4> QED
        BY <3>1, <4>1, <4>2
    <3>3. Covers(payload[l].ver, q, Needed(t))
      BY <3>1 DEF KnowledgeInv, LinksKnow
    <3>4. /\ phase[t] # "idle" /\ ~CommitPut(t)
          /\ t \in Puts => \E k \in participants[q] : Request(k) = t
      <4>1. ~CommitPut(t)
        BY <1>0, <1>1, <3>1 DEF CommitPut, Goto, TypeOK
      <4>2. t \in Puts => link[l] = "vote_commit"
        BY <3>1, RequestAssumption DEF HandlerInv, LinkInv, LinkKinds, GetStages
      <4> QED
        BY <1>2, <1>3, <3>1, <4>1, <4>2 DEF AttachedStages
    <3>5. \A n \in Nat : n = entry'[t].ver => Covers(n, q, Needed(t))'
      BY <1>1, <3>2, <3>3, <3>4, NeededCovered DEF KnowledgeInv
    <3> QED
      BY <1>1, <3>5 DEF Covers
  <2> QED
    BY <2>1, <2>2
<1> QED
  BY <1>6, <1>7

-----------------------------------------------------------------------------
(* Agreement.                                                              *)

\* A request that has counted every answer of its quorum knows the version of
\* every put it must not miss: the quorums of the two intersect.
LEMMA QuorumKnows ==
    ASSUME HandlerInv, QuorumInv, KnowledgeInv,
           NEW t \in Requests, phase[t] = "gathering",
           \A l \in Contacted(t) : link[l] \in {"ready", "read"},
           NEW s \in Needed(t)
    PROVE  entry[t].ver >= entry[s].ver
<1>0. TypeOK /\ s \in Committed /\ s \in Puts /\ s \in Requests
  BY NeededCommitted DEF HandlerInv, KnowledgeInv, Committed, Requests
<1>1. /\ Cardinality(Voters(t)) = Quorum(t)
      /\ Cardinality(Voters(s)) = WriteQuorum
  BY <1>0 DEF QuorumInv, Quorate, Committed, Quorum
<1>2. Quorum(t) + WriteQuorum > N /\ Quorum(t) \in Nat /\ WriteQuorum \in Nat
  BY QuorumAssumption, ReplicasAssumption DEF Quorum
<1>3. /\ Voters(t) \subseteq Replicas /\ Voters(s) \subseteq Replicas
      /\ IsFiniteSet(Replicas) /\ Cardinality(Replicas) = N
  BY <1>0, VotersAreReplicas
<1>4. Voters(t) \cap Voters(s) # {}
  BY <1>1, <1>2, <1>3, FS_MajoritiesIntersect
<1>5. PICK r \in Voters(t) : r \in Voters(s)
  BY <1>4
<1>6. Covers(entry[t].ver, r, Needed(t))
  <2>1. CASE r = home[t]
    BY <2>1 DEF KnowledgeInv, HomeKnows
  <2>2. ASSUME NEW l \in Contacted(t), Peer(l) = r
        PROVE  Covers(entry[t].ver, r, Needed(t))
    BY <2>2 DEF KnowledgeInv, LinksKnow, Contacted
  <2> QED
    BY <1>5, <2>1, <2>2 DEF Voters
<1> QED
  BY <1>5, <1>6 DEF Covers

\* A put commits a version above those of all the puts before it.
LEMMA CommitsAbove ==
    ASSUME HandlerInv, EntryInv, QuorumInv, KnowledgeInv,
           NEW t \in Requests, CommitPut(t), NEW s \in Committed
    PROVE  /\ entry'[t].ver > entry[s].ver
           /\ entry[t].ver >= entry[s].ver
           /\ entry[s].ver \in Nat
<1>0. TypeOK
  BY DEF HandlerInv
<1>1. t \in Puts /\ entry'[t].ver = entry[t].ver + 1 /\ entry[t].ver \in Nat
  BY <1>0, CommitPutEntry
<1>2. entry[s].ver \in Nat
  BY <1>0 DEF Committed, Requests, TypeOK, Entries
<1>3. entry[t].ver >= entry[s].ver
  BY <1>1, CommitPutReady, QuorumKnows DEF CommitPut, Needed
<1> QED
  BY <1>1, <1>2, <1>3

LEMMA VersionsUniqueStep ==
    ASSUME HandlerInv, EntryInv, QuorumInv, KnowledgeInv, VersionsUnique,
           [Next]_vars
    PROVE  VersionsUnique'
<1>1. ASSUME NEW s \in Committed', NEW t \in Committed', s \in Committed,
             t \notin Committed
      PROVE  entry'[s].ver # entry'[t].ver
  <2>1. t \in Requests /\ CommitPut(t)
    BY <1>1, NewlyCommitted
  <2>2. entry'[t].ver > entry[s].ver /\ entry[s].ver \in Nat
    BY <1>1, <2>1, CommitsAbove
  <2>3. entry'[s] = entry[s]
    BY <1>1, CommittedStable
  <2>4. entry'[t].ver \in Nat
    BY <2>1, HandlerInvStep DEF HandlerInv, TypeOK, Entries
  <2> QED
    BY <2>2, <2>3, <2>4
<1>2. ASSUME NEW s \in Committed', NEW t \in Committed', s \notin Committed,
             t \notin Committed
      PROVE  s = t
  <2>1. s \in Requests /\ t \in Requests /\ CommitPut(s) /\ CommitPut(t)
    BY <1>2, NewlyCommitted
  <2>2. phase' = [phase EXCEPT ![s] = "leaving"] /\ phase[t] = "gathering"
        /\ phase' = [phase EXCEPT ![t] = "leaving"]
    BY <2>1 DEF CommitPut, Goto
  <2> QED
    BY <2>1, <2>2 DEF HandlerInv, TypeOK
<1>3. ASSUME NEW s \in Committed', NEW t \in Committed', s \in Committed,
             t \in Committed, entry'[s].ver = entry'[t].ver
      PROVE  s = t
  BY <1>3, CommittedStable DEF VersionsUnique
<1> QED
  BY <1>1, <1>2, <1>3 DEF VersionsUnique

AgreementInv ==
    /\ HandlerInv /\ EntryInv /\ UidInv /\ FlagInv /\ QuorumInv
    /\ VotersHold /\ KnowledgeInv /\ VersionsUnique

LEMMA AgreementInvInit == Init => AgreementInv
<1>1. Init => VersionsUnique
  BY DEF Init, VersionsUnique, Committed, Requests
<1> QED
  BY <1>1, HandlerInvInit, InitEntryInv, InitUidInv, InitFlagInv,
     InitQuorumInv, InitVotersHold, InitKnowledgeInv DEF AgreementInv

LEMMA AgreementInvStep ==
    ASSUME FrontendsApart, BackoffOutlastsDelivery, AgreementInv, [Next]_vars
    PROVE  AgreementInv'
<1>1. KnowledgeInv'
  BY PrecedingStep, HomeKnowsStep, LinksKnowStep DEF AgreementInv, KnowledgeInv
<1> QED
  BY <1>1, HandlerInvStep, EntryInvStep, UidInvStep, FlagInvStep,
     QuorumInvStep, VotersHoldStep, VersionsUniqueStep DEF AgreementInv

LEMMA AgreementInvHolds ==
    ASSUME FrontendsApart, BackoffOutlastsDelivery
    PROVE  Spec => []AgreementInv
  BY AgreementInvInit, AgreementInvStep, PTL DEF Spec

\* Two committed puts never get the same version, so the version orders them
\* alike at every replica.
THEOREM VersionsAreUnique ==
    ASSUME FrontendsApart, BackoffOutlastsDelivery
    PROVE  Spec => []VersionsUnique
<1>1. AgreementInv => VersionsUnique
  BY DEF AgreementInv
<1> QED
  BY <1>1, AgreementInvHolds, PTL

\* A committed put is never lost: a write quorum of replicas has it, or a newer
\* value, or is bound to store it.
THEOREM CommitsReachQuorum ==
    ASSUME FrontendsApart, BackoffOutlastsDelivery
    PROVE  Spec => []CommitReachesQuorum
<1>1. AgreementInv => CommitReachesQuorum
  <2> SUFFICES ASSUME AgreementInv, NEW t \in Committed
               PROVE  Cardinality(Holding(t)) >= WriteQuorum
    BY DEF CommitReachesQuorum
  <2>0. TypeOK /\ t \in Requests /\ t \in Puts
    BY DEF AgreementInv, HandlerInv, Committed, Requests
  <2>1. /\ Voters(t) \subseteq Replicas
        /\ IsFiniteSet(Replicas)
    BY <2>0, VotersAreReplicas
  <2>2. Voters(t) \subseteq Holding(t)
    BY <2>1 DEF AgreementInv, VotersHold, HeldAt, Holding, FlagInv
  <2>3. Holding(t) \subseteq Replicas
    BY DEF Holding
  <2>4. IsFiniteSet(Holding(t)) /\ IsFiniteSet(Voters(t))
    BY <2>1, <2>3, FS_Subset
  <2>5. Cardinality(Voters(t)) <= Cardinality(Holding(t))
    BY <2>2, <2>4, FS_Subset
  <2>6. Cardinality(Voters(t)) = WriteQuorum
    BY <2>0 DEF AgreementInv, QuorumInv, Quorate, Committed, Quorum
  <2>7. /\ Cardinality(Holding(t)) \in Nat
        /\ Cardinality(Voters(t)) \in Nat
    BY <2>4, FS_CardinalityType
  <2> QED
    BY <2>5, <2>6, <2>7
<1> QED
  BY <1>1, AgreementInvHolds, PTL

\* GLOBAL_COMMIT makes its participant store the value or leaves a newer one:
\* what docs/messages.md:171 says of it holds as long as identifiers are not
\* shared.
THEOREM GlobalCommitsCommit ==
    ASSUME FrontendsApart, BackoffOutlastsDelivery
    PROVE  Spec => GlobalCommitCommits
<1>1. AgreementInv =>
         \A l \in Links :
             ParticipantCommit(l) => store'[Peer(l)].ver >= payload[l].ver
  <2> SUFFICES ASSUME AgreementInv, NEW l \in Links, ParticipantCommit(l)
               PROVE  store'[Peer(l)].ver >= payload[l].ver
    OBVIOUS
  <2>0. TypeOK /\ Peer(l) \in Replicas
    BY LinkParts DEF AgreementInv, HandlerInv
  <2>1. /\ store[Peer(l)].ver \in Nat
        /\ payload[l].ver \in Nat
    BY <2>0 DEF TypeOK, Entries
  <2>2. l \notin flagged
    BY DEF ParticipantCommit, AgreementInv, FlagInv
  <2>3. store'[Peer(l)] = CommitEntry(store[Peer(l)], payload[l])
    BY <2>0, <2>2 DEF ParticipantCommit, Decide, TypeOK
  <2> QED
    BY <2>1, <2>3 DEF CommitEntry
<1>2. AgreementInv /\ [Next]_vars =>
         [\A l \in Links :
             ParticipantCommit(l) => store'[Peer(l)].ver >= payload[l].ver]_vars
  BY <1>1
<1> QED
  BY <1>2, AgreementInvHolds, PTL DEF Spec, GlobalCommitCommits
=============================================================================
