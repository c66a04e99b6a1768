------------------------ MODULE StoreWithStopsProofs ------------------------
(***************************************************************************)
(* Theorems about StoreWithStops, for any number of replicas, puts and     *)
(* stops: what is acknowledged is kept, what can be read was decided, and  *)
(* a lock that is held has a put that holds it.                            *)
(***************************************************************************)
EXTENDS StoreWithStops, FiniteSetTheorems, TLAPS

-----------------------------------------------------------------------------
(* Types.                                                                  *)

LEMMA LinkParts ==
    /\ \A l \in Links : l[1] \in Puts /\ Peer(l) \in Replicas /\ l = <<l[1], Peer(l)>>
    /\ \A t \in Puts, r \in Replicas :
          <<t, r>> \in Links /\ Peer(<<t, r>>) = r /\ <<t, r>>[1] = t
  BY DEF Links, Peer

\* What the ways to write an entry return is an entry, and commits do not go back.
LEMMA EntryTypes ==
    ASSUME NEW e \in Entries(Puts)
    PROVE  /\ e.ver \in Nat
           /\ \A t \in Puts, n \in Nat :
                 /\ CommitEntry(e, Entry(t, n)) \in Entries(Puts)
                 /\ CommitEntry(e, Entry(t, n)) \in {e, Entry(t, n)}
                 /\ CommitEntry(e, Entry(t, n)).ver >= n
                 /\ IsPresent(e) \/ e = Absent =>
                       CommitEntry(e, Entry(t, n)).ver >= e.ver
                 /\ IsPresent(Entry(t, n)) /\ Entry(t, n).ver = n
           /\ \A f \in Entries(Puts) :
                 /\ TryUpdateEntry(e, f) \in Entries(Puts)
                 /\ TryUpdateEntry(e, f) \in {e, f}
                 /\ IsPresent(e) => TryUpdateEntry(e, f) = e
  BY ValueAssumption
  DEF CommitEntry, TryUpdateEntry, Entry, Entries, IsPresent, Absent

LEMMA TypeOKInit == Init => TypeOK
<1> SUFFICES ASSUME Init PROVE TypeOK
  OBVIOUS
<1>1. 0 \in Replicas /\ Absent \in Entries(Puts)
  BY ReplicasAssumption DEF Replicas, Absent, Entry, Entries
<1> QED
  BY <1>1, StopsAssumption DEF Init, TypeOK, Processes, Phases, Stages

\* The highest vote is one of the versions.
LEMMA HighestVoteType ==
    ASSUME NEW m \in Nat, NEW n \in Nat
    PROVE  HighestVote(m, n) \in Nat
<1>1. \E x \in {m, n} : \A y \in {m, n} : x >= y
  OBVIOUS
<1> QED
  BY <1>1 DEF HighestVote, Max

\* What happens when the process of r ends.
LEMMA ProcessEndsType ==
    ASSUME TypeOK, NEW r \in Replicas, NEW sending \in SUBSET Links,
           ProcessEnds(r, sending)
    PROVE  /\ holder' \in [Replicas -> SUBSET Puts]
           /\ phase' \in [Puts -> Phases]
           /\ cut' \subseteq Links
           /\ hungUp' \subseteq Links
           /\ link' \in [Links -> Stages]
           /\ UNCHANGED <<home, version, vote, stops>>
<1> USE DEF TypeOK, ProcessEnds
<1>1. phase' \in [Puts -> Phases]
  BY DEF Phases
<1>2. link' \in [Links -> Stages]
  BY DEF Stages
<1>3. cut' \subseteq Links /\ hungUp' \subseteq Links
  BY DEF Accepted, Opened
<1> QED
  BY <1>1, <1>2, <1>3

LEMMA StartType ==
    ASSUME TypeOK, NEW r \in Replicas, Start(r)
    PROVE  /\ stage' \in [Replicas -> Processes]
           /\ store' \in [Replicas -> Entries(Puts)]
           /\ asked' \in [Replicas -> SUBSET Replicas]
<1>1. PICK Q \in kSubset(Min({N - 2, Cardinality(Accepting \ {r})}), Accepting \ {r}) :
         asked' = [asked EXCEPT ![r] = Q]
  BY DEF Start
<1>2. Q \subseteq Replicas
  BY DEF kSubset, Accepting
<1> QED
  BY <1>1, <1>2 DEF Start, TypeOK, Processes

LEMMA TypeOKStep == TypeOK /\ [Next]_vars => TypeOK'
<1> SUFFICES ASSUME TypeOK, [Next]_vars PROVE TypeOK'
  OBVIOUS
<1> USE DEF processVars, requestVars, linkVars
<1>1. ASSUME NEW t \in Puts, ClientConnects(t) \/ ClientGivesUp(t) PROVE TypeOK'
  BY <1>1 DEF ClientConnects, ClientGivesUp, Accepting, TypeOK, Phases
<1>2. ASSUME NEW t \in Puts, StartPut(t) PROVE TypeOK'
  <2>1. store[home[t]].ver \in Nat
    BY EntryTypes DEF TypeOK
  <2>2. link' \in [Links -> Stages]
    BY <1>2 DEF StartPut, TypeOK, Stages
  <2> QED
    BY <1>2, <2>1, <2>2 DEF StartPut, TypeOK, Phases
<1>3. ASSUME NEW t \in Puts, CommitPut(t) PROVE TypeOK'
  <2>1. version' \in [Puts -> Nat] /\ version'[t] \in Nat
    BY <1>3 DEF CommitPut, TypeOK
  <2>2. store' \in [Replicas -> Entries(Puts)]
    BY <1>3, <2>1, EntryTypes DEF CommitPut, TypeOK
  <2> QED
    BY <1>3, <2>1, <2>2 DEF CommitPut, TypeOK, Phases
<1>4. ASSUME NEW t \in Puts, Reply(t) PROVE TypeOK'
  BY <1>4 DEF Reply, TypeOK, Phases
<1>5. ASSUME NEW t \in Puts, AbortPut(t) PROVE TypeOK'
  <2>1. link' \in [Links -> Stages] /\ hungUp' \subseteq Links
    BY <1>5 DEF AbortPut, TypeOK, Stages, Contacted, OfPut
  <2> QED
    BY <1>5, <2>1 DEF AbortPut, TypeOK, Phases
<1>6. ASSUME NEW t \in Puts, BrokenPipe(t) PROVE TypeOK'
  <2>1. PICK sending \in SUBSET {l \in Contacted(t) : link[l] = "ready"} :
           ProcessEnds(home[t], sending)
    BY <1>6 DEF BrokenPipe
  <2>2. sending \subseteq Links /\ home[t] \in Replicas
    BY DEF Contacted, OfPut, TypeOK
  <2>3. /\ stage' \in [Replicas -> Processes]
        /\ file' \in [Replicas -> Entries(Puts)] /\ store' = store
        /\ asked' \in [Replicas -> SUBSET Replicas]
        /\ unsaved' \subseteq Replicas
    BY <1>6, <2>2 DEF BrokenPipe, TypeOK, Processes, Without
  <2> QED
    BY <2>1, <2>2, <2>3, ProcessEndsType DEF TypeOK
<1>7. ASSUME NEW l \in Links, ConnectionStep(l) PROVE TypeOK'
  <2>0. l[1] \in Puts /\ Peer(l) \in Replicas
    BY LinkParts
  <2>1. CASE ReceiveVote(l)
    <3>1. HighestVote(version[l[1]], vote[l]) \in Nat
      BY <2>0, HighestVoteType DEF TypeOK
    <3> QED
      BY <2>0, <2>1, <3>1 DEF ReceiveVote, TypeOK, Stages
  <2>2. CASE ReceiveFails(l) \/ SendDecision(l) \/ ParticipantAbort(l)
             \/ ParticipantReceiveFails(l)
    BY <2>0, <2>2 DEF ReceiveFails, SendDecision, ParticipantAbort,
       ParticipantReceiveFails, TypeOK, Stages
  <2>3. CASE Vote(l)
    <3>1. store[Peer(l)].ver \in Nat
      BY <2>0, EntryTypes DEF TypeOK
    <3> QED
      BY <2>0, <2>3, <3>1 DEF Vote, TypeOK, Stages
  <2>4. CASE ParticipantCommit(l)
    <3>1. store' \in [Replicas -> Entries(Puts)]
      BY <2>0, <2>4, EntryTypes DEF ParticipantCommit, TypeOK
    <3> QED
      BY <2>0, <2>4, <3>1 DEF ParticipantCommit, TypeOK, Stages
  <2> QED
    BY <1>7, <2>1, <2>2, <2>3, <2>4 DEF ConnectionStep
<1>8. ASSUME NEW l \in Links, CommitUnasked(l) PROVE TypeOK'
  <2>1. store' \in [Replicas -> Entries(Puts)]
    BY <1>8, LinkParts, EntryTypes DEF CommitUnasked, PreparedVersion, TypeOK
  <2> QED
    BY <1>8, <2>1 DEF CommitUnasked, TypeOK
<1>9. ASSUME NEW r \in Replicas, CloseConnections(r) PROVE TypeOK'
  <2>1. stops' \in 0 .. MaxStops
    BY <1>9, StopsAssumption DEF CloseConnections, TypeOK
  <2> QED
    BY <1>9, <2>1
    DEF CloseConnections, TypeOK, Processes, Without, Accepted, Opened
<1>10. ASSUME NEW r \in Replicas, CloseDatastore(r) PROVE TypeOK'
  BY <1>10 DEF CloseDatastore, TypeOK, Processes
<1>11. ASSUME NEW r \in Replicas, Exit(r) PROVE TypeOK'
  <2>1. ProcessEnds(r, {})
    BY <1>11 DEF Exit
  <2> QED
    BY <1>11, <2>1, ProcessEndsType DEF Exit, TypeOK, Processes
<1>12. ASSUME NEW r \in Replicas, Restart(r) PROVE TypeOK'
  BY <1>12, StartType DEF Restart, TypeOK
<1>13. ASSUME NEW r \in Replicas, RestartAtOnce(r) PROVE TypeOK'
  <2>1. Start(r) /\ ProcessEnds(r, {})
    BY <1>13 DEF RestartAtOnce
  <2> QED
    BY <1>13, <2>1, StartType, ProcessEndsType DEF RestartAtOnce, TypeOK
<1>14. ASSUME NEW r \in Replicas, Synchronized(r) PROVE TypeOK'
  <2>1. PICK e \in {store[q] : q \in Newer(r)} \cup {e \in {store[r]} : Newer(r) = {}} :
           store' = [store EXCEPT ![r] = TryUpdateEntry(@, e)]
    BY <1>14 DEF Synchronized
  <2>2. e \in Entries(Puts)
    BY DEF Newer, TypeOK
  <2>3. store' \in [Replicas -> Entries(Puts)]
    BY <2>1, <2>2, EntryTypes DEF TypeOK
  <2> QED
    BY <1>14, <2>3 DEF Synchronized, TypeOK, Processes
<1>15. CASE UNCHANGED vars
  BY <1>15 DEF vars, TypeOK
<1> QED
  BY <1>1, <1>2, <1>3, <1>4, <1>5, <1>6, <1>7, <1>8, <1>9, <1>10, <1>11, <1>12,
     <1>13, <1>14, <1>15 DEF Next, CoordinatorStep, ShutdownStep

\* TypeOK: whatever is stopped, started or cut off, the state keeps its types; in
\* particular a version is always a number that a replica has sent or counted up.
THEOREM TypeCorrect == Spec => []TypeOK
  BY TypeOKInit, TypeOKStep, PTL DEF Spec
-----------------------------------------------------------------------------
(* The inductive invariant, part by part.                                  *)

\* The peers of a put are other replicas than the one it came to.
HomeInv ==
    \A l \in Links :
        link[l] # "unused" =>
            Peer(l) # home[l[1]] /\ phase[l[1]] \notin {"idle", "gave_up"}

\* A put is served by a process that is there; it gathers votes in one that does
\* not synchronise any more.
ProcessInv ==
    \A t \in Puts :
        /\ Served(t) => stage[home[t]] # "down"
        /\ phase[t] \in {"gathering", "decided"} => stage[home[t]] # "starting"

\* Connections are closed without a decision by a process that ends.
HangUpInv ==
    \A l \in hungUp :
        \/ phase[l[1]] = "lost"
        \/ Served(l[1]) /\ stage[home[l[1]]] \in {"closing", "saved"}

\* A replica that has stopped has closed its connections; an orphan goes on until
\* its process ends.
CutInv ==
    \A l \in Links :
        /\ link[l] = "orphaned" => l \in hungUp \ cut
        /\ Peer(l) \notin Accepting =>
              link[l] \in {"unused", "closed", "orphaned"} \/ l \in cut
        /\ stage[Peer(l)] = "down" => link[l] # "orphaned"

LockInv ==
    \A r \in Replicas :
        /\ r \in Accepting => holder[r] = LockHolders(r)
        /\ stage[r] = "down" => holder[r] = {}
        /\ \A s, t \in holder[r] : s = t

\* An entry that is not there has version 0.
ValueInv ==
    \A r \in Replicas : \A e \in {store[r], file[r]} : IsPresent(e) \/ e = Absent

\* r has version n, or ended without saving it.
Keeps(r, n) == KeptVersion(r) >= n \/ r \in unsaved

DecisionInv ==
    /\ \A t \in Puts :
          /\ phase[t] = "decided" => store[home[t]].ver >= version[t]
          /\ phase[t] = "acked" => Keeps(home[t], version[t])
    /\ \A l \in Links :
          /\ link[l] = "commit" => phase[l[1]] \in {"decided", "acked", "lost"}
          /\ phase[l[1]] \in {"decided", "acked"} /\ link[l] # "unused" =>
                \/ l \in hungUp
                \/ link[l] \in {"ready", "commit"}
                \/ link[l] = "closed" /\ Keeps(Peer(l), version[l[1]])
          /\ phase[l[1]] = "acked" => link[l] # "ready"

StopsInv ==
    /\ TypeOK /\ HomeInv /\ ProcessInv /\ HangUpInv /\ CutInv /\ LockInv
    /\ ValueInv /\ DecisionInv

LEMMA StopsInvInit == Init => StopsInv
<1> SUFFICES ASSUME Init PROVE StopsInv
  OBVIOUS
<1>1. \A r \in Replicas : r \in Accepting /\ LockHolders(r) = {}
  BY LinkParts DEF Init, Accepting, LockHolders, Orphans
<1>2. HomeInv /\ ProcessInv /\ HangUpInv /\ CutInv /\ LockInv
  BY <1>1, LinkParts DEF Init, HomeInv, ProcessInv, HangUpInv, CutInv, LockInv, Served
<1>3. ValueInv /\ DecisionInv
  BY DEF Init, ValueInv, DecisionInv
<1> QED
  BY <1>2, <1>3, TypeOKInit DEF StopsInv

\* The process of r ends, by a shutdown or by SIGPIPE, or is replaced; the aborts
\* in sending are on their way.
Ending(r, sending) ==
    /\ ProcessEnds(r, sending)
    /\ \A l \in sending : /\ home[l[1]] = r /\ phase[l[1]] = "gathering"
                          /\ link[l] = "ready"
    /\ \/ stage' = [stage EXCEPT ![r] = "down"]
       \/ stage' = [stage EXCEPT ![r] = "starting"]

LEMMA EndingSteps ==
    ASSUME TypeOK, NEW r \in Replicas, NEW t \in Puts,
           Exit(r) \/ RestartAtOnce(r) \/ (BrokenPipe(t) /\ home[t] = r)
    PROVE  \E sending \in SUBSET Links : Ending(r, sending)
<1>1. CASE Exit(r) \/ RestartAtOnce(r)
  BY <1>1 DEF Exit, RestartAtOnce, Start, Ending
<1>2. CASE BrokenPipe(t) /\ home[t] = r
  <2>1. PICK sending \in SUBSET {l \in Contacted(t) : link[l] = "ready"} :
           ProcessEnds(home[t], sending)
    BY <1>2 DEF BrokenPipe
  <2>2. phase[t] = "gathering" /\ stage' = [stage EXCEPT ![home[t]] = "down"]
    BY <1>2 DEF BrokenPipe
  <2>3. \A l \in sending : l \in Links /\ l[1] = t /\ link[l] = "ready"
    BY DEF Contacted, OfPut
  <2> QED
    BY <1>2, <2>1, <2>2, <2>3 DEF Ending
<1> QED
  BY <1>1, <1>2

\* The steps, with the three ends of a process as one.
LEMMA Steps ==
    ASSUME TypeOK, [Next]_vars
    PROVE  \/ \E t \in Puts : \/ ClientConnects(t) \/ ClientGivesUp(t)
                              \/ StartPut(t) \/ CommitPut(t) \/ Reply(t) \/ AbortPut(t)
           \/ \E l \in Links : ConnectionStep(l) \/ CommitUnasked(l)
           \/ \E r \in Replicas : \/ CloseConnections(r) \/ CloseDatastore(r)
                                  \/ Restart(r) \/ Synchronized(r)
           \/ \E r \in Replicas, sending \in SUBSET Links : Ending(r, sending)
           \/ UNCHANGED vars
<1>1. ASSUME NEW t \in Puts, BrokenPipe(t)
      PROVE  \E r \in Replicas, sending \in SUBSET Links : Ending(r, sending)
  <2>1. home[t] \in Replicas
    BY DEF TypeOK
  <2> QED
    BY <1>1, <2>1, EndingSteps
<1>2. ASSUME NEW r \in Replicas, Exit(r) \/ RestartAtOnce(r)
      PROVE  \E q \in Replicas, sending \in SUBSET Links : Ending(q, sending)
  BY <1>2 DEF Exit, RestartAtOnce, Start, Ending
<1> QED
  BY <1>1, <1>2 DEF Next, CoordinatorStep, ShutdownStep

LEMMA HomeInvStep ==
    ASSUME StopsInv, [Next]_vars
    PROVE  HomeInv'
<1> USE DEF TypeOK
<1>0. TypeOK /\ HomeInv
  BY DEF StopsInv
<1> SUFFICES ASSUME NEW l \in Links, link'[l] # "unused"
             PROVE  /\ Peer(l) # home'[l[1]]
                    /\ phase'[l[1]] \notin {"idle", "gave_up"}
  BY DEF HomeInv
<1>p. l[1] \in Puts
  BY LinkParts
<1>i. link[l] # "unused" =>
         Peer(l) # home[l[1]] /\ phase[l[1]] \notin {"idle", "gave_up"}
  BY <1>0 DEF HomeInv
<1>1. ASSUME NEW t \in Puts, ClientConnects(t) \/ ClientGivesUp(t)
      PROVE  Peer(l) # home'[l[1]] /\ phase'[l[1]] \notin {"idle", "gave_up"}
  BY <1>0, <1>p, <1>i, <1>1 DEF ClientConnects, ClientGivesUp, linkVars
<1>2. ASSUME NEW t \in Puts, StartPut(t)
      PROVE  Peer(l) # home'[l[1]] /\ phase'[l[1]] \notin {"idle", "gave_up"}
  <2>1. PICK Q \in kSubset(WriteQuorum - 1, Accepting \ {home[t]}) :
          link' = [m \in Links |->
                      IF m \notin OfPut(t) THEN link[m]
                      ELSE IF Peer(m) \in Q THEN "prepare" ELSE "unused"]
    BY <1>2 DEF StartPut
  <2>2. home[t] \notin Q
    BY DEF kSubset
  <2> QED
    BY <1>0, <1>p, <1>i, <1>2, <2>1, <2>2 DEF StartPut, OfPut
<1>3. ASSUME NEW t \in Puts, CommitPut(t) \/ Reply(t) \/ AbortPut(t)
      PROVE  Peer(l) # home'[l[1]] /\ phase'[l[1]] \notin {"idle", "gave_up"}
  BY <1>0, <1>p, <1>i, <1>3
  DEF CommitPut, Reply, AbortPut, Contacted, OfPut, linkVars
<1>4. ASSUME NEW m \in Links, ConnectionStep(m) \/ CommitUnasked(m)
      PROVE  Peer(l) # home'[l[1]] /\ phase'[l[1]] \notin {"idle", "gave_up"}
  BY <1>0, <1>p, <1>i, <1>4
  DEF ConnectionStep, ReceiveVote, ReceiveFails, SendDecision, Vote,
      ParticipantCommit, ParticipantAbort, ParticipantReceiveFails, CommitUnasked,
      requestVars, linkVars
<1>5. ASSUME NEW r \in Replicas,
             CloseConnections(r) \/ CloseDatastore(r) \/ Restart(r) \/ Synchronized(r)
      PROVE  Peer(l) # home'[l[1]] /\ phase'[l[1]] \notin {"idle", "gave_up"}
  BY <1>i, <1>5 DEF CloseConnections, CloseDatastore, Restart, Synchronized,
     requestVars, linkVars
<1>6. ASSUME NEW r \in Replicas, NEW sending \in SUBSET Links, Ending(r, sending)
      PROVE  Peer(l) # home'[l[1]] /\ phase'[l[1]] \notin {"idle", "gave_up"}
  BY <1>p, <1>i, <1>6 DEF Ending, ProcessEnds
<1>7. CASE UNCHANGED vars
  BY <1>i, <1>7 DEF vars, requestVars, linkVars
<1> QED
  BY <1>0, <1>1, <1>2, <1>3, <1>4, <1>5, <1>6, <1>7, Steps

LEMMA ProcessInvStep ==
    ASSUME StopsInv, [Next]_vars
    PROVE  ProcessInv'
<1> USE DEF TypeOK, Served
<1>0. TypeOK /\ ProcessInv
  BY DEF StopsInv
<1> SUFFICES ASSUME NEW t \in Puts
             PROVE  /\ Served(t)' => stage'[home'[t]] # "down"
                    /\ phase'[t] \in {"gathering", "decided"} =>
                          stage'[home'[t]] # "starting"
  BY DEF ProcessInv
<1> DEFINE Goal == /\ Served(t)' => stage'[home'[t]] # "down"
                   /\ phase'[t] \in {"gathering", "decided"} =>
                         stage'[home'[t]] # "starting"
<1>i. /\ Served(t) => stage[home[t]] # "down"
      /\ phase[t] \in {"gathering", "decided"} => stage[home[t]] # "starting"
  BY <1>0 DEF ProcessInv
<1>1. ASSUME NEW u \in Puts, \/ ClientConnects(u) \/ ClientGivesUp(u) \/ StartPut(u)
                             \/ CommitPut(u) \/ Reply(u) \/ AbortPut(u)
      PROVE  Goal
  BY <1>0, <1>i, <1>1 DEF ClientConnects, ClientGivesUp, StartPut, CommitPut, Reply,
     AbortPut, Accepting, processVars
<1>2. ASSUME NEW m \in Links, ConnectionStep(m) \/ CommitUnasked(m) PROVE Goal
  BY <1>i, <1>2
  DEF ConnectionStep, ReceiveVote, ReceiveFails, SendDecision, Vote,
      ParticipantCommit, ParticipantAbort, ParticipantReceiveFails, CommitUnasked,
      processVars, requestVars
<1>3. ASSUME NEW r \in Replicas,
             CloseConnections(r) \/ CloseDatastore(r) \/ Restart(r) \/ Synchronized(r)
      PROVE  Goal
  BY <1>0, <1>i, <1>3 DEF CloseConnections, CloseDatastore, Restart, Start,
     Synchronized, requestVars
<1>4. ASSUME NEW r \in Replicas, NEW sending \in SUBSET Links, Ending(r, sending)
      PROVE  Goal
  BY <1>0, <1>i, <1>4 DEF Ending, ProcessEnds
<1>5. CASE UNCHANGED vars
  BY <1>i, <1>5 DEF vars, processVars, requestVars
<1> QED
  BY <1>0, <1>1, <1>2, <1>3, <1>4, <1>5, Steps
LEMMA HangUpInvStep ==
    ASSUME StopsInv, [Next]_vars
    PROVE  HangUpInv'
<1> USE DEF TypeOK, Served
<1>0. TypeOK /\ ProcessInv /\ HangUpInv
  BY DEF StopsInv
<1> SUFFICES ASSUME NEW l \in hungUp'
             PROVE  \/ phase'[l[1]] = "lost"
                    \/ /\ Served(l[1])'
                       /\ stage'[home'[l[1]]] \in {"closing", "saved"}
  BY DEF HangUpInv
<1> DEFINE t == l[1]
           Goal == \/ phase'[t] = "lost"
                   \/ Served(t)' /\ stage'[home'[t]] \in {"closing", "saved"}
<1>p. l \in Links /\ t \in Puts
  <2>1. l \in Links
    BY <1>0, TypeOKStep
  <2> QED
    BY <2>1, LinkParts
<1>i. /\ l \in hungUp => \/ phase[t] = "lost"
                         \/ Served(t) /\ stage[home[t]] \in {"closing", "saved"}
      /\ Served(t) => stage[home[t]] # "down"
      /\ phase[t] \in {"gathering", "decided"} => stage[home[t]] # "starting"
  BY <1>0, <1>p DEF HangUpInv, ProcessInv
<1>1. ASSUME NEW u \in Puts, ClientConnects(u) \/ ClientGivesUp(u) \/ StartPut(u)
                             \/ CommitPut(u) \/ Reply(u)
      PROVE  Goal
  BY <1>0, <1>p, <1>i, <1>1 DEF ClientConnects, ClientGivesUp, StartPut, CommitPut,
     Reply, HandlerOpen, Accepting, processVars, linkVars
<1>2. ASSUME NEW u \in Puts, AbortPut(u) PROVE Goal
  BY <1>0, <1>p, <1>i, <1>2 DEF AbortPut, SendsNothing, HandlerOpen, Accepting,
     Contacted, OfPut, Processes, processVars
<1>3. ASSUME NEW m \in Links, ConnectionStep(m) \/ CommitUnasked(m) PROVE Goal
  BY <1>0, <1>p, <1>i, <1>3
  DEF ConnectionStep, ReceiveVote, ReceiveFails, SendDecision, HandlerOpen, Accepting,
      Vote, ParticipantCommit, ParticipantAbort, ParticipantReceiveFails,
      CommitUnasked, processVars, requestVars, linkVars, Processes
<1>4. ASSUME NEW r \in Replicas, CloseConnections(r) PROVE Goal
  BY <1>0, <1>p, <1>i, <1>4 DEF CloseConnections, Opened, requestVars
<1>5. ASSUME NEW r \in Replicas, CloseDatastore(r) \/ Restart(r) \/ Synchronized(r)
      PROVE  Goal
  BY <1>0, <1>p, <1>i, <1>5 DEF CloseDatastore, Restart, Start,
     Synchronized, requestVars, linkVars
<1>6. ASSUME NEW r \in Replicas, NEW sending \in SUBSET Links, Ending(r, sending)
      PROVE  Goal
  BY <1>0, <1>p, <1>i, <1>6 DEF Ending, ProcessEnds, Opened
<1>7. CASE UNCHANGED vars
  BY <1>i, <1>7 DEF vars, processVars, requestVars, linkVars
<1> QED
  BY <1>0, <1>1, <1>2, <1>3, <1>4, <1>5, <1>6, <1>7, Steps

LEMMA CutInvStep ==
    ASSUME StopsInv, [Next]_vars
    PROVE  CutInv'
<1> USE DEF TypeOK
<1>0. TypeOK /\ HangUpInv /\ CutInv
  BY DEF StopsInv
<1> SUFFICES ASSUME NEW l \in Links
             PROVE  /\ link'[l] = "orphaned" => l \in hungUp' \ cut'
                    /\ Peer(l) \notin Accepting' =>
                          link'[l] \in {"unused", "closed", "orphaned"} \/ l \in cut'
                    /\ stage'[Peer(l)] = "down" => link'[l] # "orphaned"
  BY DEF CutInv
<1> DEFINE q == Peer(l)
           Goal == /\ link'[l] = "orphaned" => l \in hungUp' \ cut'
                   /\ q \notin Accepting' =>
                         link'[l] \in {"unused", "closed", "orphaned"} \/ l \in cut'
                   /\ stage'[q] = "down" => link'[l] # "orphaned"
<1>p. l[1] \in Puts /\ q \in Replicas
  BY LinkParts
<1>i. /\ link[l] = "orphaned" => l \in hungUp \ cut
      /\ q \notin Accepting =>
            link[l] \in {"unused", "closed", "orphaned"} \/ l \in cut
      /\ stage[q] = "down" => link[l] # "orphaned"
  BY <1>0 DEF CutInv
<1> USE DEF Accepting
<1>1. ASSUME NEW u \in Puts, \/ ClientConnects(u) \/ ClientGivesUp(u)
                             \/ CommitPut(u) \/ Reply(u)
      PROVE  Goal
  BY <1>i, <1>1 DEF ClientConnects, ClientGivesUp, CommitPut, Reply, processVars,
     linkVars
<1>2. ASSUME NEW u \in Puts, AbortPut(u) PROVE Goal
  BY <1>0, <1>p, <1>i, <1>2 DEF AbortPut, Contacted, OfPut, processVars
<1>3. ASSUME NEW u \in Puts, StartPut(u) PROVE Goal
  <2>1. PICK Q \in kSubset(WriteQuorum - 1, Accepting \ {home[u]}) :
          link' = [m \in Links |->
                      IF m \notin OfPut(u) THEN link[m]
                      ELSE IF Peer(m) \in Q THEN "prepare" ELSE "unused"]
    BY <1>3 DEF StartPut
  <2>2. Q \subseteq Accepting
    BY DEF kSubset
  <2>3. /\ cut' = cut \ OfPut(u) /\ hungUp' = hungUp /\ stage' = stage
    BY <1>3 DEF StartPut, processVars
  <2> QED
    BY <1>i, <2>1, <2>2, <2>3
<1>4. ASSUME NEW m \in Links, ConnectionStep(m) \/ CommitUnasked(m) PROVE Goal
  <2>1. CASE m # l
    BY <1>0, <1>i, <1>4, <2>1
    DEF ConnectionStep, ReceiveVote, ReceiveFails, SendDecision, Vote,
        ParticipantCommit, ParticipantAbort, ParticipantReceiveFails,
        CommitUnasked, processVars, linkVars
  <2>2. CASE m = l
    BY <1>0, <1>p, <1>i, <1>4, <2>2
    DEF ConnectionStep, ReceiveVote, ReceiveFails, SendDecision, Vote,
        ParticipantCommit, ParticipantAbort, ParticipantReceiveFails,
        CommitUnasked, processVars, linkVars
  <2> QED
    BY <2>1, <2>2
<1>5. ASSUME NEW r \in Replicas, CloseConnections(r) PROVE Goal
  BY <1>0, <1>p, <1>i, <1>5 DEF CloseConnections, Accepted
<1>6. ASSUME NEW r \in Replicas, CloseDatastore(r) \/ Restart(r) \/ Synchronized(r)
      PROVE  Goal
  BY <1>0, <1>p, <1>i, <1>6 DEF CloseDatastore, Restart, Start, Synchronized, linkVars
<1>7. ASSUME NEW r \in Replicas, NEW sending \in SUBSET Links, Ending(r, sending)
      PROVE  Goal
  BY <1>0, <1>p, <1>i, <1>7 DEF Ending, ProcessEnds, Accepted
<1>8. CASE UNCHANGED vars
  BY <1>i, <1>8 DEF vars, processVars, linkVars
<1> QED
  BY <1>0, <1>1, <1>2, <1>3, <1>4, <1>5, <1>6, <1>7, <1>8, Steps
\* The put t has the lock of r.
Holds(t, r) ==
    \/ home[t] = r /\ phase[t] = "gathering"
    \/ link[<<t, r>>] = "orphaned"
    \/ /\ link[<<t, r>>] \in {"vote_commit", "ready", "commit", "abort"}
       /\ <<t, r>> \notin cut

LEMMA HoldsMeaning ==
    /\ \A r \in Replicas : LockHolders(r) = {t \in Puts : Holds(t, r)}
    /\ \A r \in Replicas : LockHolders(r)' = {t \in Puts : Holds(t, r)'}
  BY LinkParts DEF LockHolders, Orphans, Holds

LEMMA LockInvStep ==
    ASSUME StopsInv, [Next]_vars
    PROVE  LockInv'
<1> USE DEF TypeOK
<1>0. TypeOK /\ HomeInv /\ ProcessInv /\ CutInv /\ LockInv
  BY DEF StopsInv
<1> SUFFICES ASSUME NEW r \in Replicas
             PROVE  /\ r \in Accepting' => holder'[r] = LockHolders(r)'
                    /\ stage'[r] = "down" => holder'[r] = {}
                    /\ \A s, t \in holder'[r] : s = t
  BY DEF LockInv
<1> DEFINE Goal == /\ r \in Accepting' => holder'[r] = {t \in Puts : Holds(t, r)'}
                   /\ stage'[r] = "down" => holder'[r] = {}
                   /\ \A s, t \in holder'[r] : s = t
<1> SUFFICES Goal
  BY HoldsMeaning
<1>i. /\ r \in Accepting => holder[r] = {t \in Puts : Holds(t, r)}
      /\ stage[r] = "down" => holder[r] = {}
      /\ \A s, t \in holder[r] : s = t
  BY <1>0, HoldsMeaning DEF LockInv
<1>h. \A t \in Puts : link[<<t, home[t]>>] = "unused"
  BY <1>0, LinkParts DEF HomeInv
<1> USE DEF Accepting
<1>1. ASSUME UNCHANGED <<holder, stage>>,
             \A t \in Puts : Holds(t, r)' <=> Holds(t, r)
      PROVE  Goal
  BY <1>i, <1>1
<1>2. ASSUME NEW u \in Puts, ClientConnects(u) \/ ClientGivesUp(u) \/ Reply(u)
      PROVE  Goal
  <2>1. UNCHANGED <<holder, stage>>
    BY <1>2 DEF ClientConnects, ClientGivesUp, Reply, processVars
  <2>2. \A t \in Puts : Holds(t, r)' <=> Holds(t, r)
    BY <1>0, <1>2 DEF ClientConnects, ClientGivesUp, Reply, linkVars, Holds
  <2> QED
    BY <1>1, <2>1, <2>2
<1>3. ASSUME NEW u \in Puts, StartPut(u) PROVE Goal
  <2>0. /\ stage' = stage /\ home' = home /\ stage[home[u]] = "up"
        /\ holder' = [holder EXCEPT ![home[u]] = {u}] /\ holder[home[u]] = {}
        /\ phase' = [phase EXCEPT ![u] = "gathering"]
        /\ cut' = cut \ OfPut(u)
    BY <1>3 DEF StartPut, processVars, Busy
  <2>1. ASSUME NEW t \in Puts, t # u
        PROVE  Holds(t, r)' <=> Holds(t, r)
    <3>1. <<t, r>> \in Links /\ <<t, r>> \notin OfPut(u)
      BY <2>1, LinkParts DEF OfPut
    <3>2. link'[<<t, r>>] = link[<<t, r>>] /\ (<<t, r>> \in cut' <=> <<t, r>> \in cut)
      BY <1>3, <2>0, <3>1 DEF StartPut
    <3> QED
      BY <2>0, <2>1, <3>2 DEF Holds
  <2>2. link'[<<u, r>>] \in {"prepare", "unused"}
    <3>1. <<u, r>> \in OfPut(u) /\ <<u, r>> \in Links
      BY LinkParts DEF OfPut
    <3> QED
      BY <1>3, <3>1 DEF StartPut
  <2>3. ~Holds(u, r)
    <3>1. <<u, r>> \in OfPut(u) /\ <<u, r>> \in Links
      BY LinkParts DEF OfPut
    <3>2. Finished(<<u, r>>) /\ phase[u] = "waiting"
      BY <1>3, <3>1 DEF StartPut
    <3> QED
      BY <1>0, <3>1, <3>2 DEF Finished, Holds, CutInv
  <2>4. CASE r = home[u]
    <3>1. \A t \in Puts : ~Holds(t, r)
      BY <1>i, <2>0, <2>4
    <3>2. Holds(u, r)'
      BY <1>0, <2>0, <2>4 DEF Holds
    <3> QED
      BY <1>0, <2>0, <2>1, <2>4, <3>1, <3>2
  <2>5. CASE r # home[u]
    <3>1. ~Holds(u, r)'
      BY <2>0, <2>2, <2>5 DEF Holds
    <3> QED
      BY <1>i, <2>0, <2>1, <2>3, <2>5, <3>1
  <2> QED
    BY <2>4, <2>5
<1>4. ASSUME NEW u \in Puts, CommitPut(u) \/ AbortPut(u) PROVE Goal
  <2>0. /\ stage' = stage /\ home' = home /\ cut' = cut
        /\ holder' = [holder EXCEPT ![home[u]] = @ \ {u}]
        /\ phase' = [phase EXCEPT ![u] = IF CommitPut(u) THEN "decided" ELSE "waiting"]
        /\ phase[u] = "gathering"
    BY <1>4 DEF CommitPut, AbortPut, processVars, linkVars
  <2>1. ASSUME NEW t \in Puts
        PROVE  \/ link'[<<t, r>>] = link[<<t, r>>]
               \/ link[<<t, r>>] = "ready" /\ link'[<<t, r>>] = "abort"
               \/ link[<<t, r>>] = "refused" /\ link'[<<t, r>>] = "closed"
    <3>1. <<t, r>> \in Links
      BY LinkParts
    <3> QED
      BY <1>4, <3>1 DEF CommitPut, AbortPut, linkVars, Contacted, OfPut
  <2>2. \A t \in Puts : Holds(t, r)' <=> Holds(t, r) /\ ~(t = u /\ r = home[u])
    <3>1. ASSUME NEW t \in Puts
          PROVE  Holds(t, r)' <=> Holds(t, r) /\ ~(t = u /\ r = home[u])
      <4>1. CASE t = u
        BY <1>0, <1>h, <2>0, <2>1, <4>1 DEF Holds
      <4>2. CASE t # u
        BY <1>0, <2>0, <2>1, <4>2 DEF Holds
      <4> QED
        BY <4>1, <4>2
    <3> QED
      BY <3>1
  <2> QED
    BY <1>0, <1>i, <2>0, <2>2
<1>5. ASSUME NEW m \in Links, ConnectionStep(m) PROVE Goal
  <2> DEFINE u == m[1]
             q == Peer(m)
  <2>p. u \in Puts /\ q \in Replicas /\ m = <<u, q>>
    BY LinkParts
  <2>1. stage' = stage /\ home' = home /\ phase' = phase /\ cut' = cut
    BY <1>5 DEF ConnectionStep, ReceiveVote, ReceiveFails, SendDecision, Vote,
       ParticipantCommit, ParticipantAbort, ParticipantReceiveFails,
       processVars, requestVars
  <2>2. \A t \in Puts : t # u \/ r # q => (Holds(t, r)' <=> Holds(t, r))
    <3>1. ASSUME NEW t \in Puts, t # u \/ r # q
          PROVE  link'[<<t, r>>] = link[<<t, r>>]
      <4>1. <<t, r>> \in Links /\ <<t, r>> # m
        BY <2>p, <3>1, LinkParts
      <4> QED
        BY <1>0, <1>5, <4>1
        DEF ConnectionStep, ReceiveVote, ReceiveFails, SendDecision, Vote,
            ParticipantCommit, ParticipantAbort, ParticipantReceiveFails
    <3> QED
      BY <2>1, <3>1 DEF Holds
  <2>3. CASE ReceiveVote(m) \/ ReceiveFails(m) \/ SendDecision(m)
             \/ ParticipantReceiveFails(m)
    <3>1. holder' = holder
      BY <2>3 DEF ReceiveVote, ReceiveFails, SendDecision, ParticipantReceiveFails
    <3>2. Holds(u, q)' <=> Holds(u, q)
      BY <1>0, <2>p, <2>1, <2>3
      DEF ReceiveVote, ReceiveFails, SendDecision, ParticipantReceiveFails, Holds
    <3>3. \A t \in Puts : Holds(t, r)' <=> Holds(t, r)
      BY <2>2, <3>2
    <3> QED
      BY <1>1, <2>1, <3>1, <3>3
  <2>4. CASE Vote(m)
    <3>1. CASE Busy(q)
      <4>1. holder' = holder /\ link' = [link EXCEPT ![m] = "vote_abort"]
            /\ link[m] = "prepare"
        BY <1>0, <2>p, <2>4, <3>1 DEF Vote
      <4>2. Holds(u, q)' <=> Holds(u, q)
        BY <1>0, <2>p, <2>1, <4>1 DEF Holds
      <4>3. \A t \in Puts : Holds(t, r)' <=> Holds(t, r)
        BY <2>2, <4>2
      <4> QED
        BY <1>1, <2>1, <4>1, <4>3
    <3>2. CASE ~Busy(q)
      <4>1. /\ holder' = [holder EXCEPT ![q] = {u}] /\ holder[q] = {}
            /\ link' = [link EXCEPT ![m] = "vote_commit"] /\ m \notin cut
            /\ stage[q] = "up"
        BY <2>4, <3>2 DEF Vote, Busy
      <4>2. Holds(u, q)'
        BY <1>0, <2>p, <2>1, <4>1 DEF Holds
      <4>3. CASE r = q
        BY <1>0, <1>i, <2>1, <2>2, <2>p, <4>1, <4>2, <4>3
      <4>4. CASE r # q
        <5>1. \A t \in Puts : Holds(t, r)' <=> Holds(t, r)
          BY <2>2, <4>4
        <5>2. holder'[r] = holder[r]
          BY <4>1, <4>4
        <5> QED
          BY <1>i, <2>1, <5>1, <5>2
      <4> QED
        BY <4>3, <4>4
    <3> QED
      BY <3>1, <3>2
  <2>5. CASE ParticipantCommit(m) \/ ParticipantAbort(m)
    <3>1. /\ holder' = [holder EXCEPT
                           ![q] = IF ParticipantCommit(m) THEN {} ELSE @ \ {u}]
          /\ link' = [link EXCEPT ![m] = "closed"]
          /\ link[m] \in {"commit", "abort"} /\ m \notin cut
      BY <2>5 DEF ParticipantCommit, ParticipantAbort
    <3>2. Holds(u, q) /\ ~Holds(u, q)'
      BY <1>0, <1>h, <2>p, <2>1, <3>1 DEF Holds
    <3>3. CASE r = q
      BY <1>0, <1>i, <2>1, <2>2, <2>p, <3>1, <3>2, <3>3
    <3>4. CASE r # q
      <4>1. \A t \in Puts : Holds(t, r)' <=> Holds(t, r)
        BY <2>2, <3>4
      <4>2. holder'[r] = holder[r]
        BY <3>1, <3>4
      <4> QED
        BY <1>i, <2>1, <4>1, <4>2
    <3> QED
      BY <3>3, <3>4
  <2> QED
    BY <1>5, <2>3, <2>4, <2>5 DEF ConnectionStep
<1>6. ASSUME NEW m \in Links, CommitUnasked(m) PROVE Goal
  BY <1>1, <1>6 DEF CommitUnasked, processVars, requestVars, linkVars, Holds
<1>7. ASSUME NEW q \in Replicas, CloseConnections(q) PROVE Goal
  <2>1. /\ stage' = [stage EXCEPT ![q] = "closing"]
        /\ holder' = holder /\ home' = home /\ phase' = phase /\ link' = link
        /\ cut' = cut \cup Accepted(q)
    BY <1>7 DEF CloseConnections, requestVars
  <2>2. r # q => \A t \in Puts : Holds(t, r)' <=> Holds(t, r)
    BY <2>1, LinkParts DEF Holds, Accepted
  <2> QED
    BY <1>0, <1>i, <2>1, <2>2
<1>8. ASSUME NEW q \in Replicas, CloseDatastore(q) \/ Synchronized(q) PROVE Goal
  <2>1. /\ UNCHANGED <<holder, requestVars, linkVars>>
        /\ \/ stage[q] = "closing" /\ stage' = [stage EXCEPT ![q] = "saved"]
           \/ stage[q] = "starting" /\ stage' = [stage EXCEPT ![q] = "up"]
    BY <1>8 DEF CloseDatastore, Synchronized
  <2>2. \A t \in Puts : Holds(t, r)' <=> Holds(t, r)
    BY <2>1 DEF Holds, requestVars, linkVars
  <2> QED
    BY <1>0, <1>i, <2>1, <2>2
<1>9. ASSUME NEW q \in Replicas, Restart(q) PROVE Goal
  <2>1. /\ UNCHANGED <<holder, requestVars, linkVars>>
        /\ stage[q] = "down" /\ stage' = [stage EXCEPT ![q] = "starting"]
    BY <1>9 DEF Restart, Start
  <2>2. \A t \in Puts : Holds(t, r)' <=> Holds(t, r)
    BY <2>1 DEF Holds, requestVars, linkVars
  <2>3. \A t \in Puts : ~Holds(t, q)
    BY <1>0, <2>1, LinkParts DEF Holds, ProcessInv, CutInv, Served
  <2> QED
    BY <1>0, <1>i, <2>1, <2>2, <2>3
<1>10. ASSUME NEW q \in Replicas, NEW sending \in SUBSET Links, Ending(q, sending)
       PROVE  Goal
  <2>0. /\ ProcessEnds(q, sending)
        /\ \A l \in sending : /\ home[l[1]] = q /\ phase[l[1]] = "gathering"
                              /\ link[l] = "ready"
        /\ \A p \in Replicas : p # q => stage'[p] = stage[p]
    BY <1>0, <1>10 DEF Ending
  <2>1. /\ holder' = [holder EXCEPT ![q] = {}] /\ home' = home
        /\ cut' = cut \cup Accepted(q)
    BY <2>0 DEF ProcessEnds
  <2>2. ASSUME NEW t \in Puts
        PROVE  /\ phase'[t] = IF /\ home[t] = q
                                 /\ phase[t] \in {"waiting", "gathering", "decided"}
                              THEN "lost" ELSE phase[t]
               /\ link'[<<t, r>>] =
                     IF <<t, r>> \in sending THEN "abort"
                     ELSE IF r = q /\ link[<<t, r>>] = "orphaned" THEN "closed"
                     ELSE link[<<t, r>>]
    BY <2>0, LinkParts DEF ProcessEnds
  <2>3. r = q => \A t \in Puts : ~Holds(t, r)'
    <3>1. ASSUME NEW t \in Puts, r = q PROVE ~Holds(t, r)'
      <4>1. <<t, r>> \notin sending
        BY <1>h, <2>0, <3>1, LinkParts
      <4>2. <<t, r>> \in Accepted(q) \/ link[<<t, r>>] \in {"unused", "closed", "orphaned"}
        BY <3>1, LinkParts DEF Accepted
      <4> QED
        BY <2>1, <2>2, <3>1, <4>1, <4>2 DEF Holds
    <3> QED
      BY <3>1
  <2>4. r # q => \A t \in Puts : Holds(t, r)' <=> Holds(t, r)
    <3>1. ASSUME NEW t \in Puts, r # q PROVE Holds(t, r)' <=> Holds(t, r)
      <4>1. <<t, r>> \in cut' <=> <<t, r>> \in cut
        BY <2>1, <3>1, LinkParts DEF Accepted
      <4> QED
        BY <2>0, <2>1, <2>2, <3>1, <4>1 DEF Holds
    <3> QED
      BY <3>1
  <2>5. CASE r = q
    BY <1>0, <2>1, <2>3, <2>5
  <2>6. CASE r # q
    <3>1. holder'[r] = holder[r] /\ stage'[r] = stage[r]
      BY <2>0, <2>1, <2>6
    <3> QED
      BY <1>i, <2>4, <2>6, <3>1
  <2> QED
    BY <2>5, <2>6
<1>11. CASE UNCHANGED vars
  BY <1>1, <1>11 DEF vars, processVars, requestVars, linkVars, Holds
<1> HIDE DEF Goal
<1> QED
  BY <1>0, <1>2, <1>3, <1>4, <1>5, <1>6, <1>7, <1>8, <1>9, <1>10, <1>11, Steps
-----------------------------------------------------------------------------
(* The datastores.                                                         *)

\* The ways the entry of r changes: the commits of a coordinator, of a participant
\* and of one that was stopped, a start and the synchronisation after it.
Decides(r) ==
    \E t \in Puts : /\ CommitPut(t) /\ r = home[t]
                    /\ store'[r] = CommitEntry(store[r], Entry(t, version'[t]))

Follows(r) ==
    \E t \in Puts : /\ ParticipantCommit(<<t, r>>)
                    /\ store'[r] = CommitEntry(store[r], Entry(t, version[t]))

CommitsUnasked(r) ==
    \E t \in Puts : /\ stage[r] \in {"closing", "saved"} /\ stage'[r] = stage[r]
                    /\ store'[r] = CommitEntry(store[r], Entry(t, store[r].ver))

Loads(r) ==
    /\ Restart(r) \/ RestartAtOnce(r)
    /\ store'[r] = file[r]

Learns(r) ==
    \E q \in Replicas : /\ Synchronized(r)
                        /\ store'[r] = TryUpdateEntry(store[r], store[q])

LEMMA EntryChanges ==
    ASSUME TypeOK, [Next]_vars, NEW r \in Replicas
    PROVE  /\ \/ store'[r] = store[r]
              \/ Decides(r) \/ Follows(r) \/ CommitsUnasked(r) \/ Loads(r) \/ Learns(r)
           /\ file'[r] \in {file[r], store[r]}
<1> USE DEF TypeOK
<1>1. ASSUME NEW t \in Puts, CommitPut(t)
      PROVE  store'[r] = store[r] \/ Decides(r)
  BY <1>1 DEF CommitPut, Decides
<1>2. ASSUME NEW l \in Links, ParticipantCommit(l)
      PROVE  store'[r] = store[r] \/ Follows(r)
  <2>1. PICK t \in Puts, q \in Replicas : l = <<t, q>> /\ Peer(l) = q /\ l[1] = t
    BY LinkParts
  <2>2. store' = [store EXCEPT ![q] = CommitEntry(@, Entry(t, version[t]))]
    BY <1>2, <2>1 DEF ParticipantCommit
  <2> QED
    BY <1>2, <2>1, <2>2 DEF Follows
<1>3. ASSUME NEW l \in Links, CommitUnasked(l)
      PROVE  store'[r] = store[r] \/ CommitsUnasked(r)
  BY <1>3, LinkParts
  DEF CommitUnasked, PreparedVersion, CommitsUnasked, processVars
<1>4. ASSUME NEW q \in Replicas, Restart(q) \/ RestartAtOnce(q)
      PROVE  store'[r] = store[r] \/ Loads(r)
  BY ZenonT(30), <1>4 DEF Restart, RestartAtOnce, Start, Loads
<1>5. ASSUME NEW q \in Replicas, Synchronized(q)
      PROVE  store'[r] = store[r] \/ Learns(r)
  <2>1. PICK e \in {store[p] : p \in Newer(q)} \cup {e \in {store[q]} : Newer(q) = {}} :
           store' = [store EXCEPT ![q] = TryUpdateEntry(@, e)]
    BY <1>5 DEF Synchronized
  <2>2. PICK p \in Replicas : e = store[p]
    BY DEF Newer
  <2> QED
    BY <1>5, <2>1, <2>2 DEF Learns
<1>6. \/ store' = store
      \/ \E t \in Puts : CommitPut(t)
      \/ \E l \in Links : ParticipantCommit(l) \/ CommitUnasked(l)
      \/ \E q \in Replicas : Restart(q) \/ RestartAtOnce(q) \/ Synchronized(q)
  BY DEF Next, ClientConnects, ClientGivesUp, CoordinatorStep, StartPut, Reply,
     AbortPut, BrokenPipe, ConnectionStep, ReceiveVote, ReceiveFails, SendDecision,
     Vote, ParticipantAbort, ParticipantReceiveFails, CloseConnections,
     ShutdownStep, CloseDatastore, Exit, vars
<1>7. file'[r] \in {file[r], store[r]}
  BY ZenonT(30) DEF Next, ClientConnects, ClientGivesUp, CoordinatorStep, StartPut, CommitPut,
     Reply, AbortPut, BrokenPipe, ConnectionStep, ReceiveVote, ReceiveFails,
     SendDecision, Vote, ParticipantCommit, ParticipantAbort,
     ParticipantReceiveFails, CommitUnasked, CloseConnections, ShutdownStep,
     CloseDatastore, Exit, Restart, RestartAtOnce, Synchronized, vars, processVars
<1> QED
  BY <1>1, <1>2, <1>3, <1>4, <1>5, <1>6, <1>7

LEMMA ValueInvStep ==
    ASSUME StopsInv, [Next]_vars
    PROVE  ValueInv'
<1>0. TypeOK /\ TypeOK' /\ ValueInv
  BY TypeOKStep DEF StopsInv
<1> SUFFICES ASSUME NEW r \in Replicas
             PROVE  \A e \in {store'[r], file'[r]} : IsPresent(e) \/ e = Absent
  BY DEF ValueInv
<1> DEFINE Good(e) == IsPresent(e) \/ e = Absent
<1>1. \A q \in Replicas : /\ Good(store[q]) /\ Good(file[q])
                          /\ store[q] \in Entries(Puts)
  BY <1>0 DEF ValueInv, TypeOK
<1>2. ASSUME NEW t \in Puts, NEW n \in Nat,
             store'[r] = CommitEntry(store[r], Entry(t, n))
      PROVE  Good(store'[r])
  BY <1>1, <1>2, EntryTypes
<1>3. Decides(r) => Good(store'[r])
  BY <1>0, <1>2 DEF Decides, TypeOK
<1>4. Follows(r) => Good(store'[r])
  BY <1>0, <1>2 DEF Follows, TypeOK
<1>5. CommitsUnasked(r) => Good(store'[r])
  BY <1>1, <1>2, EntryTypes DEF CommitsUnasked
<1>6. Learns(r) => Good(store'[r])
  BY <1>1, EntryTypes DEF Learns
<1>7. Loads(r) => Good(store'[r])
  BY <1>1 DEF Loads
<1>8. /\ \/ store'[r] = store[r]
         \/ Decides(r) \/ Follows(r) \/ CommitsUnasked(r) \/ Loads(r) \/ Learns(r)
      /\ file'[r] \in {file[r], store[r]}
  BY <1>0, EntryChanges, Zenon
<1>9. Good(store'[r]) /\ Good(file'[r])
  BY <1>1, <1>3, <1>4, <1>5, <1>6, <1>7, <1>8
<1> QED
  BY <1>9

\* While a process runs its entry does not go back.
LEMMA MemoryGrows ==
    ASSUME StopsInv, [Next]_vars, NEW r \in Replicas
    PROVE  \/ store'[r].ver >= store[r].ver
           \/ Restart(r) \/ RestartAtOnce(r)
<1>0. TypeOK /\ TypeOK' /\ ValueInv
  BY TypeOKStep DEF StopsInv
<1>1. /\ store[r] \in Entries(Puts) /\ store[r].ver \in Nat
      /\ IsPresent(store[r]) \/ store[r] = Absent
  BY <1>0, EntryTypes DEF TypeOK, ValueInv
<1>g. ASSUME NEW t \in Puts, NEW n \in Nat,
             store'[r] = CommitEntry(store[r], Entry(t, n))
      PROVE  store'[r].ver >= store[r].ver
  BY <1>1, <1>g, EntryTypes
<1>2. Decides(r) => store'[r].ver >= store[r].ver
  BY <1>0, <1>g DEF Decides, TypeOK
<1>3. Follows(r) => store'[r].ver >= store[r].ver
  BY <1>0, <1>g DEF Follows, TypeOK
<1>4. CommitsUnasked(r) => store'[r].ver >= store[r].ver
  BY <1>1, <1>g DEF CommitsUnasked
<1>5. Learns(r) => store'[r].ver >= store[r].ver
  <2>1. ASSUME NEW q \in Replicas, store'[r] = TryUpdateEntry(store[r], store[q])
        PROVE  store'[r].ver >= store[r].ver
    <3>1. store[q] \in Entries(Puts) /\ store[q].ver \in Nat
      BY <1>0, EntryTypes DEF TypeOK
    <3> QED
      BY <1>1, <2>1, <3>1, EntryTypes DEF Absent, Entry
  <2> QED
    BY <2>1 DEF Learns
<1>6. \/ store'[r] = store[r]
      \/ Decides(r) \/ Follows(r) \/ CommitsUnasked(r) \/ Loads(r) \/ Learns(r)
  BY <1>0, EntryChanges, Zenon
<1> QED
  BY <1>1, <1>2, <1>3, <1>4, <1>5, <1>6 DEF Loads

\* What r has kept it keeps, unless it ends without saving it.
LEMMA KeptGrows ==
    ASSUME StopsInv, [Next]_vars, NEW r \in Replicas, NEW n \in Nat, Keeps(r, n)
    PROVE  Keeps(r, n)'
<1>0. TypeOK /\ TypeOK'
  BY TypeOKStep DEF StopsInv
<1>1. /\ store[r].ver \in Nat /\ file[r].ver \in Nat
      /\ store'[r].ver \in Nat /\ file'[r].ver \in Nat
  BY <1>0, EntryTypes DEF TypeOK
<1> SUFFICES \/ KeptVersion(r)' >= KeptVersion(r)
             \/ r \in unsaved'
  <2>1. r \in unsaved => r \in unsaved'
    BY <1>0 DEF Next, ClientConnects, ClientGivesUp, CoordinatorStep, StartPut,
       CommitPut, Reply, AbortPut, BrokenPipe, ConnectionStep, ReceiveVote,
       ReceiveFails, SendDecision, Vote, ParticipantCommit, ParticipantAbort,
       ParticipantReceiveFails, CommitUnasked, CloseConnections, ShutdownStep,
       CloseDatastore, Exit, Restart, RestartAtOnce, Synchronized, vars, processVars
  <2> QED
    BY <1>1, <2>1 DEF Keeps, KeptVersion
<1>2. ASSUME stage'[r] = stage[r], file'[r] = file[r]
      PROVE  KeptVersion(r)' >= KeptVersion(r)
  <2>1. ~(Restart(r) \/ RestartAtOnce(r))
    BY <1>0, <1>2 DEF Restart, RestartAtOnce, Start, TypeOK
  <2> QED
    BY <1>1, <1>2, <2>1, MemoryGrows DEF KeptVersion
<1>3. ASSUME NEW t \in Puts, BrokenPipe(t)
      PROVE  KeptVersion(r)' >= KeptVersion(r) \/ r \in unsaved'
  <2>1. CASE r = home[t]
    BY <1>3, <2>1 DEF BrokenPipe
  <2>2. CASE r # home[t]
    BY <1>0, <1>2, <1>3, <2>2 DEF BrokenPipe, TypeOK
  <2> QED
    BY <2>1, <2>2
<1>4. ASSUME NEW q \in Replicas, CloseConnections(q) \/ Synchronized(q)
      PROVE  KeptVersion(r)' >= KeptVersion(r)
  <2>1. file' = file /\ (stage'[r] = stage[r] \/ r = q)
    BY <1>0, <1>4 DEF CloseConnections, Synchronized, TypeOK
  <2>2. r = q => /\ stage[r] \in {"up", "starting"} /\ stage'[r] \in {"up", "closing"}
                 /\ ~(Restart(r) \/ RestartAtOnce(r))
    BY <1>0, <1>4 DEF CloseConnections, Synchronized, Restart, RestartAtOnce, TypeOK
  <2> QED
    BY <1>1, <1>2, <2>1, <2>2, MemoryGrows DEF KeptVersion
<1>5. ASSUME NEW q \in Replicas, CloseDatastore(q) \/ Exit(q) \/ Restart(q)
      PROVE  KeptVersion(r)' >= KeptVersion(r)
  <2>1. CASE r # q
    BY <1>0, <1>2, <1>5, <2>1 DEF CloseDatastore, Exit, Restart, Start, TypeOK
  <2>2. CASE r = q
    BY <1>0, <1>1, <1>5, <2>2
    DEF CloseDatastore, Exit, Restart, Start, KeptVersion, TypeOK
  <2> QED
    BY <2>1, <2>2
<1>6. ASSUME NEW q \in Replicas, RestartAtOnce(q)
      PROVE  KeptVersion(r)' >= KeptVersion(r) \/ r \in unsaved'
  <2>1. CASE r # q
    BY <1>0, <1>2, <1>6, <2>1 DEF RestartAtOnce, Start, TypeOK
  <2>2. CASE r = q
    BY <1>6, <2>2 DEF RestartAtOnce
  <2> QED
    BY <2>1, <2>2
<1>7. \/ stage' = stage /\ file' = file
      \/ \E t \in Puts : BrokenPipe(t)
      \/ \E q \in Replicas : \/ CloseConnections(q) \/ Synchronized(q)
                             \/ CloseDatastore(q) \/ Exit(q) \/ Restart(q)
                             \/ RestartAtOnce(q)
  BY DEF Next, ClientConnects, ClientGivesUp, CoordinatorStep, StartPut, CommitPut,
     Reply, AbortPut, ConnectionStep, ReceiveVote, ReceiveFails, SendDecision,
     Vote, ParticipantCommit, ParticipantAbort, ParticipantReceiveFails,
     CommitUnasked, ShutdownStep, vars, processVars
<1> QED
  BY <1>2, <1>3, <1>4, <1>5, <1>6, <1>7
-----------------------------------------------------------------------------
(* The decisions.                                                          *)

Settled(t) == phase[t] \in {"decided", "acked", "lost"}

\* A put is decided by CommitPut and acknowledged by Reply, and what it has decided
\* stays.
LEMMA PhaseSteps ==
    ASSUME TypeOK, [Next]_vars, NEW t \in Puts
    PROVE  /\ phase'[t] = "decided" => phase[t] = "decided" \/ CommitPut(t)
           /\ phase'[t] = "acked" => phase[t] = "acked" \/ Reply(t)
           /\ Settled(t) => /\ Settled(t)' /\ home'[t] = home[t]
                            /\ version'[t] = version[t]
           /\ phase[t] \in {"acked", "lost"} => phase'[t] = phase[t]
<1> USE DEF TypeOK, Settled
<1> DEFINE Goal ==
              /\ phase'[t] = "decided" => phase[t] = "decided" \/ CommitPut(t)
              /\ phase'[t] = "acked" => phase[t] = "acked" \/ Reply(t)
              /\ Settled(t) => /\ Settled(t)' /\ home'[t] = home[t]
                               /\ version'[t] = version[t]
              /\ phase[t] \in {"acked", "lost"} => phase'[t] = phase[t]
<1> SUFFICES Goal
  OBVIOUS
<1>1. ASSUME NEW u \in Puts, \/ ClientConnects(u) \/ ClientGivesUp(u) \/ StartPut(u)
                             \/ AbortPut(u)
      PROVE  Goal
  BY <1>1 DEF ClientConnects, ClientGivesUp, StartPut, AbortPut
<1>2. ASSUME NEW u \in Puts, CommitPut(u) PROVE Goal
  <2>1. /\ phase[u] = "gathering" /\ phase' = [phase EXCEPT ![u] = "decided"]
        /\ version' = [version EXCEPT ![u] = @ + 1] /\ home' = home
    BY <1>2 DEF CommitPut
  <2> QED
    BY <1>2, <2>1
<1>3. ASSUME NEW u \in Puts, Reply(u) PROVE Goal
  <2>1. /\ phase[u] = "decided"
        /\ phase' = [phase EXCEPT ![u] = IF HandlerOpen(home[u]) THEN "acked" ELSE "lost"]
        /\ version' = version /\ home' = home
    BY <1>3 DEF Reply
  <2> QED
    BY <1>3, <2>1
<1>4. ASSUME NEW m \in Links, ConnectionStep(m) \/ CommitUnasked(m) PROVE Goal
  BY <1>4, LinkParts
  DEF ConnectionStep, ReceiveVote, ReceiveFails, SendDecision, Vote,
      ParticipantCommit, ParticipantAbort, ParticipantReceiveFails, CommitUnasked,
      requestVars
<1>5. ASSUME NEW r \in Replicas,
             CloseConnections(r) \/ CloseDatastore(r) \/ Restart(r) \/ Synchronized(r)
      PROVE  Goal
  BY <1>5 DEF CloseConnections, CloseDatastore, Restart, Synchronized, requestVars
<1>6. ASSUME NEW r \in Replicas, NEW sending \in SUBSET Links, Ending(r, sending)
      PROVE  Goal
  BY <1>6 DEF Ending, ProcessEnds
<1>7. CASE UNCHANGED vars
  BY <1>7 DEF vars, requestVars
<1> HIDE DEF Goal
<1> QED
  BY <1>1, <1>2, <1>3, <1>4, <1>5, <1>6, <1>7, Steps

\* Once its put is settled a link carries the decision, or goes its way to an end.
LEMMA LinkSteps ==
    ASSUME TypeOK, [Next]_vars, NEW l \in Links, Settled(l[1])
    PROVE  /\ l \in hungUp => l \in hungUp'
           /\ \/ link'[l] = link[l]
              \/ SendDecision(l)
              \/ ParticipantCommit(l)
              \/ /\ link[l] \notin {"ready", "commit"} \/ l \in hungUp
                 /\ link[l] \notin {"unused", "closed"}
                 /\ link'[l] \notin {"ready", "commit"}
<1> USE DEF TypeOK, Settled
<1> DEFINE Goal ==
              /\ l \in hungUp => l \in hungUp'
              /\ \/ link'[l] = link[l]
                 \/ SendDecision(l)
                 \/ ParticipantCommit(l)
                 \/ /\ link[l] \notin {"ready", "commit"} \/ l \in hungUp
                    /\ link[l] \notin {"unused", "closed"}
                    /\ link'[l] \notin {"ready", "commit"}
<1> SUFFICES Goal
  OBVIOUS
<1>1. ASSUME NEW u \in Puts, \/ ClientConnects(u) \/ ClientGivesUp(u) \/ CommitPut(u)
                             \/ Reply(u)
      PROVE  Goal
  BY <1>1 DEF ClientConnects, ClientGivesUp, CommitPut, Reply, linkVars
<1>2. ASSUME NEW u \in Puts, StartPut(u) \/ AbortPut(u) PROVE Goal
  <2>1. l[1] # u
    BY <1>2 DEF StartPut, AbortPut
  <2> QED
    BY <1>2, <2>1 DEF StartPut, AbortPut, Contacted, OfPut
<1>4. ASSUME NEW m \in Links, ConnectionStep(m) \/ CommitUnasked(m) PROVE Goal
  <2>1. CASE SendDecision(m) \/ ParticipantCommit(m)
    BY <2>1 DEF SendDecision, ParticipantCommit
  <2>2. CASE ReceiveVote(m) \/ ReceiveFails(m) \/ Vote(m) \/ ParticipantAbort(m)
             \/ ParticipantReceiveFails(m) \/ CommitUnasked(m)
    BY <2>2 DEF ReceiveVote, ReceiveFails, Vote, ParticipantAbort,
       ParticipantReceiveFails, CommitUnasked, linkVars
  <2> QED
    BY <1>4, <2>1, <2>2 DEF ConnectionStep
<1>5. ASSUME NEW r \in Replicas,
             CloseConnections(r) \/ CloseDatastore(r) \/ Restart(r) \/ Synchronized(r)
      PROVE  Goal
  BY <1>5 DEF CloseConnections, CloseDatastore, Restart, Synchronized, linkVars
<1>6. ASSUME NEW r \in Replicas, NEW sending \in SUBSET Links, Ending(r, sending)
      PROVE  Goal
  <2>1. l \notin sending
    BY <1>6 DEF Ending
  <2> QED
    BY <1>6, <2>1 DEF Ending, ProcessEnds
<1>7. CASE UNCHANGED vars
  BY <1>7 DEF vars, linkVars
<1> HIDE DEF Goal
<1> QED
  BY <1>1, <1>2, <1>4, <1>5, <1>6, <1>7, Steps

\* The coordinator has what it has decided, and keeps it once it has sent the ACK.
LEMMA CoordinatorKeeps ==
    ASSUME StopsInv, [Next]_vars, NEW t \in Puts
    PROVE  /\ phase'[t] = "decided" => store'[home'[t]].ver >= version'[t]
           /\ phase'[t] = "acked" => Keeps(home[t], version[t])'
<1>0. /\ TypeOK /\ TypeOK' /\ ProcessInv
      /\ phase[t] = "decided" => store[home[t]].ver >= version[t]
      /\ phase[t] = "acked" => Keeps(home[t], version[t])
  BY TypeOKStep DEF StopsInv, DecisionInv
<1>t. /\ home[t] \in Replicas /\ version[t] \in Nat
      /\ store[home[t]] \in Entries(Puts) /\ store[home[t]].ver \in Nat
      /\ store'[home[t]].ver \in Nat /\ version'[t] \in Nat
  BY <1>0, EntryTypes DEF TypeOK
<1>1. ASSUME CommitPut(t) PROVE store'[home'[t]].ver >= version'[t]
  <2>1. /\ home' = home
        /\ store'[home[t]] = CommitEntry(store[home[t]], Entry(t, version'[t]))
    BY <1>0, <1>1, <1>t DEF CommitPut, TypeOK
  <2> QED
    BY <1>t, <2>1, EntryTypes
<1>2. ASSUME phase[t] = "decided", phase'[t] = "decided"
      PROVE  store'[home'[t]].ver >= version'[t]
  <2>1. home'[t] = home[t] /\ version'[t] = version[t]
    BY <1>0, <1>2, PhaseSteps DEF Settled
  <2>2. ~(Restart(home[t]) \/ RestartAtOnce(home[t]))
    BY <1>0, <1>2
    DEF Restart, RestartAtOnce, ProcessEnds, ProcessInv, Served, TypeOK
  <2> QED
    BY <1>0, <1>2, <1>t, <2>1, <2>2, MemoryGrows
<1>3. ASSUME phase[t] = "acked" PROVE Keeps(home[t], version[t])'
  <2>1. home'[t] = home[t] /\ version'[t] = version[t]
    BY <1>0, <1>3, PhaseSteps DEF Settled
  <2>2. Keeps(home[t], version[t])
    BY <1>0, <1>3
  <2> HIDE DEF Keeps
  <2>3. ASSUME NEW r \in Replicas, NEW n \in Nat, Keeps(r, n) PROVE Keeps(r, n)'
    BY <2>3, KeptGrows
  <2> QED
    BY <1>t, <2>1, <2>2, <2>3 DEF Keeps, KeptVersion
<1>4. ASSUME Reply(t), phase'[t] = "acked" PROVE Keeps(home[t], version[t])'
  <2>1. /\ HandlerOpen(home[t]) /\ phase[t] = "decided"
        /\ UNCHANGED <<stage, store, file, home, version, unsaved>>
    BY <1>0, <1>4 DEF Reply, processVars, TypeOK
  <2>2. stage[home[t]] \notin {"saved", "down"}
    BY <2>1 DEF HandlerOpen, Accepting
  <2> QED
    BY <1>0, <2>1, <2>2 DEF Keeps, KeptVersion
<1> QED
  BY <1>0, <1>1, <1>2, <1>3, <1>4, PhaseSteps
LEMMA DecisionInvStep ==
    ASSUME StopsInv, [Next]_vars
    PROVE  DecisionInv'
<1>0. TypeOK /\ TypeOK' /\ HangUpInv /\ CutInv /\ ValueInv /\ DecisionInv
  BY TypeOKStep DEF StopsInv
<1>1. ASSUME NEW t \in Puts
      PROVE  /\ phase'[t] = "decided" => store'[home'[t]].ver >= version'[t]
             /\ phase'[t] = "acked" => Keeps(home[t], version[t])'
  BY CoordinatorKeeps
<1>2. ASSUME NEW l \in Links
      PROVE  /\ link'[l] = "commit" => phase'[l[1]] \in {"decided", "acked", "lost"}
             /\ phase'[l[1]] \in {"decided", "acked"} /\ link'[l] # "unused" =>
                   \/ l \in hungUp'
                   \/ link'[l] \in {"ready", "commit"}
                   \/ link'[l] = "closed" /\ Keeps(Peer(l), version[l[1]])'
             /\ phase'[l[1]] = "acked" => link'[l] # "ready"
  <2> DEFINE t == l[1]
             r == Peer(l)
  <2>p. t \in Puts /\ r \in Replicas /\ l = <<t, r>>
    BY LinkParts
  <2>t. version[t] \in Nat
    BY <1>0, <2>p DEF TypeOK
  <2>i. /\ link[l] = "commit" => Settled(t)
        /\ phase[t] \in {"decided", "acked"} /\ link[l] # "unused" =>
              \/ l \in hungUp
              \/ link[l] \in {"ready", "commit"}
              \/ link[l] = "closed" /\ Keeps(r, version[t])
        /\ phase[t] = "acked" => link[l] # "ready"
    BY <1>0 DEF DecisionInv, Settled
  <2>s. /\ phase'[t] = "decided" => phase[t] = "decided" \/ CommitPut(t)
        /\ phase'[t] = "acked" => phase[t] = "acked" \/ Reply(t)
        /\ Settled(t) => /\ Settled(t)' /\ home'[t] = home[t]
                         /\ version'[t] = version[t]
        /\ phase[t] \in {"acked", "lost"} => phase'[t] = phase[t]
    BY <1>0, <2>p, PhaseSteps, Zenon
  <2>k. Keeps(r, version[t]) /\ version'[t] = version[t] => Keeps(r, version[t])'
    <3>1. ASSUME NEW n \in Nat, Keeps(r, n) PROVE Keeps(r, n)'
      BY <2>p, <3>1, KeptGrows
    <3> QED
      BY <2>t, <3>1 DEF Keeps
  <2>1. CASE CommitPut(t)
    <3>1. /\ link' = link /\ hungUp' = hungUp /\ phase'[t] = "decided"
          /\ \A m \in Contacted(t) : link[m] = "ready" \/ m \in hungUp
      BY <1>0, <2>1, <2>p DEF CommitPut, linkVars, TypeOK
    <3>2. link[l] # "unused" => l \in Contacted(t)
      BY DEF Contacted, OfPut
    <3> QED
      BY <3>1, <3>2
  <2>2. CASE ~CommitPut(t) /\ Settled(t)
    <3>l. /\ l \in hungUp => l \in hungUp'
          /\ \/ link'[l] = link[l]
             \/ SendDecision(l)
             \/ ParticipantCommit(l)
             \/ /\ link[l] \notin {"ready", "commit"} \/ l \in hungUp
                /\ link[l] \notin {"unused", "closed"}
                /\ link'[l] \notin {"ready", "commit"}
      BY <1>0, <2>2, LinkSteps, Zenon
    <3>d. phase'[t] \in {"decided", "acked"} => phase[t] \in {"decided", "acked"}
      BY <2>s, <2>2 DEF Reply
    <3>k. Keeps(r, version[t]) => Keeps(r, version[t])'
      BY <2>2, <2>s, <2>k
    <3>1. Settled(t)'
      BY <2>2, <2>s
    <3>2. ASSUME phase'[t] \in {"decided", "acked"}, link'[l] # "unused"
          PROVE  \/ l \in hungUp'
                 \/ link'[l] \in {"ready", "commit"}
                 \/ link'[l] = "closed" /\ Keeps(r, version[t])'
      <4>1. CASE link'[l] = link[l]
        BY <2>i, <3>2, <3>d, <3>l, <3>k, <4>1
      <4>2. CASE SendDecision(l)
        BY <1>0, <4>2 DEF SendDecision, TypeOK
      <4>3. CASE ParticipantCommit(l)
        <5>1. /\ link'[l] = "closed" /\ l \notin cut /\ link[l] = "commit"
              /\ stage' = stage /\ version' = version
              /\ store' = [store EXCEPT
                              ![r] = CommitEntry(@, Entry(t, version[t]))]
          BY <1>0, <4>3 DEF ParticipantCommit, processVars, requestVars, TypeOK
        <5>2. stage[r] \notin {"saved", "down"}
          BY <1>0, <5>1 DEF CutInv, Accepting
        <5>3. store'[r].ver >= version[t]
          <6>1. store[r] \in Entries(Puts)
            BY <1>0, <2>p DEF TypeOK
          <6>2. CommitEntry(store[r], Entry(t, version[t])).ver >= version[t]
            BY <2>p, <2>t, <6>1, EntryTypes
          <6>3. store'[r] = CommitEntry(store[r], Entry(t, version[t]))
            BY <1>0, <2>p, <5>1 DEF TypeOK
          <6> QED
            BY <6>2, <6>3
        <5>4. Keeps(r, version[t])'
          BY <5>1, <5>2, <5>3 DEF Keeps, KeptVersion
        <5> QED
          BY <5>1, <5>4
      <4>4. CASE l \in hungUp
        BY <3>l, <4>4
      <4>5. CASE link[l] \notin {"ready", "commit", "unused", "closed"}
        BY <2>i, <3>2, <3>d, <3>l, <4>5
      <4> QED
        BY <3>l, <4>1, <4>2, <4>3, <4>4, <4>5
    <3>3. ASSUME phase'[t] = "acked", link'[l] = "ready" PROVE FALSE
      <4>1. link[l] = "ready"
        BY <1>0, <3>l, <3>3 DEF SendDecision, ParticipantCommit, TypeOK
      <4>2. Reply(t)
        BY <2>i, <2>s, <3>3, <4>1
      <4>3. l \in hungUp
        BY <4>1, <4>2 DEF Reply, Contacted, OfPut
      <4>4. HandlerOpen(home[t]) /\ phase[t] = "decided"
        BY <1>0, <2>p, <3>3, <4>2 DEF Reply, TypeOK
      <4>5. stage[home[t]] \in {"closing", "saved"}
        BY <1>0, <4>3, <4>4 DEF HangUpInv
      <4> QED
        BY <4>4, <4>5 DEF HandlerOpen, Accepting
    <3> QED
      BY <3>1, <3>2, <3>3 DEF Settled
  <2>3. CASE ~CommitPut(t) /\ ~Settled(t)
    <3>1. phase'[t] \notin {"decided", "acked"}
      BY <2>3, <2>s DEF Settled, Reply
    <3>2. link'[l] # "commit"
      <4>1. link[l] # "commit"
        BY <2>3, <2>i
      <4>2. ~SendDecision(l)
        BY <2>3 DEF SendDecision, Settled
      <4>3. ASSUME NEW m \in Links, ConnectionStep(m) \/ CommitUnasked(m)
            PROVE  link'[l] # "commit"
        BY <1>0, <4>1, <4>2, <4>3
        DEF ConnectionStep, ReceiveVote, ReceiveFails, SendDecision, Vote,
            ParticipantCommit, ParticipantAbort, ParticipantReceiveFails,
            CommitUnasked, linkVars, TypeOK
      <4>4. ASSUME NEW u \in Puts, \/ ClientConnects(u) \/ ClientGivesUp(u)
                                   \/ StartPut(u) \/ CommitPut(u) \/ Reply(u)
                                   \/ AbortPut(u)
            PROVE  link'[l] # "commit"
        BY SMTT(30), <1>0, <4>1, <4>4 DEF ClientConnects, ClientGivesUp, StartPut, CommitPut,
           Reply, AbortPut, linkVars, TypeOK
      <4>5. ASSUME NEW q \in Replicas, \/ CloseConnections(q) \/ CloseDatastore(q)
                                       \/ Restart(q) \/ Synchronized(q)
            PROVE  link'[l] # "commit"
        BY <4>1, <4>5 DEF CloseConnections, CloseDatastore, Restart, Synchronized,
           linkVars
      <4>6. ASSUME NEW q \in Replicas, NEW sending \in SUBSET Links,
                   Ending(q, sending)
            PROVE  link'[l] # "commit"
        BY <1>0, <4>1, <4>6 DEF Ending, ProcessEnds
      <4>7. ASSUME UNCHANGED vars PROVE link'[l] # "commit"
        BY <4>1, <4>7 DEF vars, linkVars
      <4> QED
        BY <1>0, <4>3, <4>4, <4>5, <4>6, <4>7, Steps
    <3> QED
      BY <3>1, <3>2
  <2> QED
    BY <2>1, <2>2, <2>3
<1> QED
  BY <1>1, <1>2 DEF DecisionInv

LEMMA StopsInvStep == StopsInv /\ [Next]_vars => StopsInv'
<1> SUFFICES ASSUME StopsInv, [Next]_vars PROVE StopsInv'
  OBVIOUS
<1>1. TypeOK'
  BY TypeOKStep DEF StopsInv
<1> QED
  BY <1>1, HomeInvStep, ProcessInvStep, HangUpInvStep, CutInvStep, LockInvStep,
     ValueInvStep, DecisionInvStep DEF StopsInv

\* StopsInv, the inductive invariant: where the connections of a process that ends are
\* left, who holds its locks, and what its memory and its file have of each decision.
LEMMA StopsInvHolds == Spec => []StopsInv
  BY StopsInvInit, StopsInvStep, PTL DEF Spec

\* LocksExplained: a lock is held for the put that gathers votes there or has voted
\* there, or by an orphan, and an orphan's put is not served and has no ACK.
THEOREM LocksHaveHolders == Spec => []LocksExplained
<1>1. StopsInv => LocksExplained
  <2> SUFFICES ASSUME StopsInv, NEW r \in Accepting
               PROVE  /\ holder[r] = LockHolders(r)
                      /\ \A l \in Orphans(r) :
                            /\ stage[home[l[1]]] = "up" => ~Served(l[1])
                            /\ phase[l[1]] # "acked"
    BY DEF LocksExplained
  <2>1. r \in Replicas
    BY DEF Accepting
  <2>2. ASSUME NEW l \in Orphans(r)
        PROVE  /\ stage[home[l[1]]] = "up" => ~Served(l[1])
               /\ phase[l[1]] # "acked"
    <3>1. l \in hungUp
      BY DEF StopsInv, CutInv, Orphans
    <3> QED
      BY <3>1 DEF StopsInv, HangUpInv, Served
  <2> QED
    BY <2>1, <2>2 DEF StopsInv, LockInv
<1> QED
  BY <1>1, StopsInvHolds, PTL

\* AckedKept: the coordinator and the participants of an acknowledged put have it,
\* in memory or in the file, or are still to commit it, whoever is stopped.
THEOREM AcknowledgedIsKept == Spec => []AckedKept
<1>1. StopsInv => AckedKept
  <2> SUFFICES ASSUME StopsInv, NEW t \in Puts, phase[t] = "acked",
                      NEW r \in {home[t]} \cup {Peer(l) : l \in Contacted(t)}
               PROVE  \/ KeptVersion(r) >= version[t]
                      \/ link[<<t, r>>] = "commit"
                      \/ r \in unsaved
    BY DEF AckedKept
  <2>1. CASE r = home[t]
    BY <2>1 DEF StopsInv, DecisionInv, Keeps
  <2>2. ASSUME NEW l \in Contacted(t), r = Peer(l)
        PROVE  link[<<t, r>>] = "commit" \/ Keeps(r, version[t])
    <3>1. l \in Links /\ l[1] = t /\ link[l] # "unused" /\ l = <<t, r>>
      BY <2>2, LinkParts DEF Contacted, OfPut
    <3>2. l \notin hungUp
      BY <3>1 DEF StopsInv, HangUpInv, Served
    <3> QED
      BY <2>2, <3>1, <3>2 DEF StopsInv, DecisionInv
  <2> QED
    BY <2>1, <2>2 DEF Keeps
<1> QED
  BY <1>1, StopsInvHolds, PTL
\* What e shows was decided by its coordinator, with that version; and after a step.
ShowsDecision(e) == e.ver > 0 => Settled(e.val) /\ e.ver = version[e.val]

ShowsDecisionAfter(e) ==
    e.ver > 0 => /\ phase'[e.val] \in {"decided", "acked", "lost"}
                 /\ e.ver = version'[e.val]

LEMMA VisibleStep == StopsInv /\ OnlyDecidedVisible /\ [Next]_vars => OnlyDecidedVisible'
<1> SUFFICES ASSUME StopsInv, OnlyDecidedVisible, [Next]_vars,
                    NEW r \in Replicas, NEW e \in {store'[r], file'[r]}
             PROVE  ShowsDecisionAfter(e)
  BY DEF OnlyDecidedVisible, ShowsDecisionAfter
<1>0. TypeOK /\ TypeOK'
  BY TypeOKStep DEF StopsInv
<1>1. \A q \in Replicas : \A f \in {store[q], file[q]} :
         /\ f \in Entries(Puts) /\ ShowsDecision(f)
         /\ IsPresent(f) \/ f = Absent
  BY <1>0
  DEF OnlyDecidedVisible, ShowsDecision, Settled, StopsInv, ValueInv, TypeOK
<1>s. ASSUME NEW t \in Puts, Settled(t)
      PROVE  Settled(t)' /\ version'[t] = version[t]
  BY <1>0, <1>s, PhaseSteps
<1>2. ASSUME NEW q \in Replicas, NEW f \in {store[q], file[q]}
      PROVE  ShowsDecisionAfter(f)
  <2> SUFFICES ASSUME f.ver > 0
               PROVE  Settled(f.val)' /\ f.ver = version'[f.val]
    BY DEF ShowsDecisionAfter, Settled
  <2>1. f.val \in Puts
    BY <1>1 DEF Entries, Absent, Entry, IsPresent
  <2>2. Settled(f.val) /\ f.ver = version[f.val]
    BY <1>1 DEF ShowsDecision
  <2> QED
    BY <1>s, <2>1, <2>2
<1>c. ASSUME NEW t \in Puts, NEW n \in Nat,
             store'[r] = CommitEntry(store[r], Entry(t, n))
      PROVE  store'[r] = store[r] \/ store'[r] = Entry(t, n)
  BY <1>1, <1>c, EntryTypes
<1>3. Decides(r) => store'[r] = store[r] \/ ShowsDecisionAfter(store'[r])
  <2> SUFFICES ASSUME NEW t \in Puts, CommitPut(t),
                      store'[r] = CommitEntry(store[r], Entry(t, version'[t]))
               PROVE  store'[r] = store[r] \/ ShowsDecisionAfter(store'[r])
    BY DEF Decides
  <2>1. phase'[t] = "decided" /\ version'[t] \in Nat
    BY <1>0 DEF CommitPut, TypeOK
  <2>2. store'[r] = store[r] \/ store'[r] = Entry(t, version'[t])
    BY <1>c, <2>1
  <2> QED
    BY <2>1, <2>2 DEF Entry, ShowsDecisionAfter
<1>4. Follows(r) => store'[r] = store[r] \/ ShowsDecisionAfter(store'[r])
  <2> SUFFICES ASSUME NEW t \in Puts, ParticipantCommit(<<t, r>>),
                      store'[r] = CommitEntry(store[r], Entry(t, version[t]))
               PROVE  store'[r] = store[r] \/ ShowsDecisionAfter(store'[r])
    BY DEF Follows
  <2>1. Settled(t) /\ version[t] \in Nat
    BY <1>0, LinkParts DEF ParticipantCommit, StopsInv, DecisionInv, Settled, TypeOK
  <2>2. store'[r] = store[r] \/ store'[r] = Entry(t, version[t])
    BY <1>c, <2>1
  <2>3. Settled(t)' /\ version'[t] = version[t]
    BY <1>s, <2>1
  <2> QED
    BY <2>2, <2>3 DEF Entry, Settled, ShowsDecisionAfter
<1>5. CommitsUnasked(r) => store'[r] = store[r] \/ store'[r].ver = 0
  <2> SUFFICES ASSUME NEW t \in Puts,
                      store'[r] = CommitEntry(store[r], Entry(t, store[r].ver))
               PROVE  store'[r] = store[r] \/ store'[r].ver = 0
    BY DEF CommitsUnasked
  <2>1. store[r].ver \in Nat /\ (IsPresent(store[r]) \/ store[r].ver = 0)
    BY <1>1, EntryTypes DEF Absent, Entry
  <2> QED
    BY <2>1 DEF CommitEntry, Entry
<1>6. Learns(r) => \E q \in Replicas : store'[r] = store[q]
  BY <1>1, EntryTypes DEF Learns
<1>7. /\ \/ store'[r] = store[r]
         \/ Decides(r) \/ Follows(r) \/ CommitsUnasked(r) \/ Loads(r) \/ Learns(r)
      /\ file'[r] \in {file[r], store[r]}
  BY <1>0, EntryChanges, Zenon
<1>8. \/ \E q \in Replicas : store'[r] \in {store[q], file[q]}
      \/ ShowsDecisionAfter(store'[r])
  BY <1>3, <1>4, <1>5, <1>6, <1>7 DEF Loads, ShowsDecisionAfter
<1> QED
  BY <1>2, <1>7, <1>8

\* OnlyDecidedVisible: what a get can return was decided by the coordinator of its
\* put, with that version.
THEOREM VisibleIsDecided == Spec => []OnlyDecidedVisible
<1>1. Init => OnlyDecidedVisible
  BY DEF Init, OnlyDecidedVisible, Absent, Entry
<1> QED
  BY <1>1, VisibleStep, StopsInvHolds, PTL DEF Spec
-----------------------------------------------------------------------------
(* Versions, when all replicas have to vote.                               *)

\* A put whose ACK is sent or can still be sent.
Firm(t) == phase[t] = "acked" \/ (phase[t] = "decided" /\ stage[home[t]] = "up")

\* The replica r has voted for t.
Voted(t, r) == link[<<t, r>>] \in {"vote_commit", "ready"}

\* A put asks every other replica.
AskedInv ==
    \A t \in Puts : \A r \in Replicas :
        phase[t] = "gathering" /\ r # home[t] => link[<<t, r>>] # "unused"

\* Of two puts at different replicas one does not have the vote of the other's.
CrossInv ==
    \A s, t \in Puts :
        s # t /\ phase[s] = "gathering" /\ phase[t] = "gathering" =>
            ~(Voted(s, home[t]) /\ Voted(t, home[s]))

\* A put that gathers votes takes its version above those of the firm puts whose
\* coordinator has voted for it, or is its own.
AboveInv ==
    \A s, t \in Puts :
        s # t /\ Firm(s) /\ home[s] \notin unsaved /\ phase[t] = "gathering" =>
            /\ home[t] = home[s] => version[t] >= version[s]
            /\ link[<<t, home[s]>>] = "vote_commit" =>
                  vote[<<t, home[s]>>] >= version[s]
            /\ link[<<t, home[s]>>] = "ready" => version[t] >= version[s]

FirmUnique ==
    \A s, t \in Puts :
        /\ s # t /\ Firm(s) /\ Firm(t)
        /\ home[s] \notin unsaved /\ home[t] \notin unsaved
        => version[s] # version[t]

LEMMA HighestVoteAbove ==
    ASSUME NEW m \in Nat, NEW n \in Nat
    PROVE  HighestVote(m, n) \in Nat /\ HighestVote(m, n) >= m /\ HighestVote(m, n) >= n
<1>1. \E x \in {m, n} : \A y \in {m, n} : x >= y
  OBVIOUS
<1> QED
  BY <1>1 DEF HighestVote, Max

\* How a put comes to gather votes, and what it keeps while it does.
LEMMA GatheringSteps ==
    ASSUME TypeOK, [Next]_vars, NEW t \in Puts, phase'[t] = "gathering"
    PROVE  \/ StartPut(t)
           \/ /\ phase[t] = "gathering" /\ home'[t] = home[t]
              /\ version'[t] = version[t] \/ \E l \in Links : l[1] = t /\ ReceiveVote(l)
<1> USE DEF TypeOK
<1> DEFINE Goal ==
              \/ StartPut(t)
              \/ /\ phase[t] = "gathering" /\ home'[t] = home[t]
                 /\ version'[t] = version[t] \/ \E l \in Links : l[1] = t /\ ReceiveVote(l)
<1> SUFFICES Goal
  OBVIOUS
<1>1. ASSUME NEW u \in Puts, \/ ClientConnects(u) \/ ClientGivesUp(u) \/ StartPut(u)
                             \/ CommitPut(u) \/ Reply(u) \/ AbortPut(u)
      PROVE  Goal
  <2>1. CASE u = t /\ ~StartPut(u)
    <3>1. \/ phase' = [phase EXCEPT ![t] = "waiting"]
          \/ phase' = [phase EXCEPT ![t] = "gave_up"]
          \/ phase' = [phase EXCEPT ![t] = "decided"]
          \/ phase' = [phase EXCEPT
                          ![t] = IF HandlerOpen(home[t]) THEN "acked" ELSE "lost"]
      BY <1>1, <2>1 DEF ClientConnects, ClientGivesUp, CommitPut, Reply, AbortPut
    <3> QED
      BY <3>1
  <2>2. CASE u # t
    <3>1. phase[t] = "gathering" /\ home'[t] = home[t]
      BY <1>1, <2>2
      DEF ClientConnects, ClientGivesUp, StartPut, CommitPut, Reply, AbortPut
    <3>2. version'[t] = version[t]
      BY <1>1, <2>2
      DEF ClientConnects, ClientGivesUp, StartPut, CommitPut, Reply, AbortPut
    <3> QED
      BY <3>1, <3>2
  <2> QED
    BY <1>1, <2>1, <2>2
<1>2. ASSUME NEW m \in Links, ConnectionStep(m) \/ CommitUnasked(m) PROVE Goal
  <2>1. phase' = phase /\ home' = home
    BY <1>2
    DEF ConnectionStep, ReceiveVote, ReceiveFails, SendDecision, Vote,
        ParticipantCommit, ParticipantAbort, ParticipantReceiveFails, CommitUnasked,
        requestVars
  <2>2. version'[t] = version[t] \/ (m[1] = t /\ ReceiveVote(m))
    BY <1>2
    DEF ConnectionStep, ReceiveVote, ReceiveFails, SendDecision, Vote,
        ParticipantCommit, ParticipantAbort, ParticipantReceiveFails, CommitUnasked,
        requestVars
  <2> QED
    BY <2>1, <2>2
<1>3. ASSUME NEW r \in Replicas,
             CloseConnections(r) \/ CloseDatastore(r) \/ Restart(r) \/ Synchronized(r)
      PROVE  Goal
  BY <1>3 DEF CloseConnections, CloseDatastore, Restart, Synchronized, requestVars
<1>4. ASSUME NEW r \in Replicas, NEW sending \in SUBSET Links, Ending(r, sending)
      PROVE  Goal
  BY <1>4 DEF Ending, ProcessEnds
<1>5. CASE UNCHANGED vars
  BY <1>5 DEF vars, requestVars
<1> HIDE DEF Goal
<1> QED
  BY <1>1, <1>2, <1>3, <1>4, <1>5, Steps

\* How a link comes to carry a vote.
LEMMA VoteSteps ==
    ASSUME TypeOK, [Next]_vars, NEW l \in Links, phase[l[1]] = "gathering",
           phase'[l[1]] = "gathering"
    PROVE  /\ link'[l] = "vote_commit" =>
                 \/ Vote(l)
                 \/ link[l] = "vote_commit" /\ vote'[l] = vote[l]
           /\ link'[l] = "ready" =>
                 \/ link[l] = "ready"
                 \/ link[l] = "vote_commit" /\ ReceiveVote(l)
           /\ link'[l] = "unused" => link[l] = "unused"
<1> USE DEF TypeOK
<1> DEFINE Goal ==
              /\ link'[l] = "vote_commit" =>
                    \/ Vote(l)
                    \/ link[l] = "vote_commit" /\ vote'[l] = vote[l]
              /\ link'[l] = "ready" =>
                    \/ link[l] = "ready"
                    \/ link[l] = "vote_commit" /\ ReceiveVote(l)
              /\ link'[l] = "unused" => link[l] = "unused"
<1> SUFFICES Goal
  OBVIOUS
<1>1. ASSUME NEW u \in Puts, \/ ClientConnects(u) \/ ClientGivesUp(u) \/ CommitPut(u)
                             \/ Reply(u)
      PROVE  Goal
  BY <1>1 DEF ClientConnects, ClientGivesUp, CommitPut, Reply, linkVars
<1>2. ASSUME NEW u \in Puts, StartPut(u) \/ AbortPut(u) PROVE Goal
  <2>1. l[1] # u
    BY <1>2 DEF StartPut, AbortPut
  <2>2. /\ l \notin OfPut(u) /\ l \notin Contacted(u) /\ vote' = vote
    BY <1>2, <2>1 DEF StartPut, AbortPut, Contacted, OfPut
  <2> QED
    BY <1>2, <2>2 DEF StartPut, AbortPut
<1>3. ASSUME NEW m \in Links, ConnectionStep(m) \/ CommitUnasked(m) PROVE Goal
  <2>1. CASE m # l
    BY <1>3, <2>1
    DEF ConnectionStep, ReceiveVote, ReceiveFails, SendDecision, Vote,
        ParticipantCommit, ParticipantAbort, ParticipantReceiveFails, CommitUnasked,
        linkVars
  <2>2. CASE m = l
    BY <1>3, <2>2
    DEF ConnectionStep, ReceiveVote, ReceiveFails, SendDecision, Vote,
        ParticipantCommit, ParticipantAbort, ParticipantReceiveFails, CommitUnasked,
        linkVars
  <2> QED
    BY <2>1, <2>2
<1>4. ASSUME NEW r \in Replicas,
             CloseConnections(r) \/ CloseDatastore(r) \/ Restart(r) \/ Synchronized(r)
      PROVE  Goal
  BY <1>4 DEF CloseConnections, CloseDatastore, Restart, Synchronized, linkVars
<1>5. ASSUME NEW r \in Replicas, NEW sending \in SUBSET Links, Ending(r, sending)
      PROVE  Goal
  BY <1>5 DEF Ending, ProcessEnds
<1>6. CASE UNCHANGED vars
  BY <1>6 DEF vars, linkVars
<1> HIDE DEF Goal
<1> QED
  BY <1>1, <1>2, <1>3, <1>4, <1>5, <1>6, Steps
\* A replica that ended without saving stays noted.
LEMMA UnsavedGrows ==
    ASSUME TypeOK, [Next]_vars
    PROVE  unsaved \subseteq unsaved'
  BY DEF Next, CoordinatorStep, ConnectionStep, ShutdownStep, ClientConnects,
     ClientGivesUp, StartPut, CommitPut, Reply, AbortPut, BrokenPipe, ReceiveVote,
     ReceiveFails, SendDecision, Vote, ParticipantCommit, ParticipantAbort,
     ParticipantReceiveFails, CommitUnasked, CloseConnections, CloseDatastore, Exit,
     Restart, RestartAtOnce, Synchronized, processVars, vars

\* Only a process that has synchronised becomes up.
LEMMA NotUpAgain ==
    ASSUME TypeOK, [Next]_vars, NEW r \in Replicas, stage'[r] = "up",
           stage[r] # "starting"
    PROVE  stage[r] = "up"
<1> USE DEF TypeOK
<1>1. CASE stage' = stage
  BY <1>1
<1>2. ASSUME NEW q \in Replicas,
             \/ stage' = [stage EXCEPT ![q] = "closing"]
             \/ stage' = [stage EXCEPT ![q] = "saved"]
             \/ stage' = [stage EXCEPT ![q] = "down"]
             \/ stage' = [stage EXCEPT ![q] = "starting"]
             \/ stage[q] = "starting" /\ stage' = [stage EXCEPT ![q] = "up"]
      PROVE  stage[r] = "up"
  <2>1. r # q
    BY <1>2
  <2> QED
    BY <1>2, <2>1
<1>3. \/ stage' = stage
      \/ \E q \in Replicas :
             \/ stage' = [stage EXCEPT ![q] = "closing"]
             \/ stage' = [stage EXCEPT ![q] = "saved"]
             \/ stage' = [stage EXCEPT ![q] = "down"]
             \/ stage' = [stage EXCEPT ![q] = "starting"]
             \/ stage[q] = "starting" /\ stage' = [stage EXCEPT ![q] = "up"]
  BY Steps DEF ConnectionStep, ClientConnects, ClientGivesUp, StartPut, CommitPut,
     Reply, AbortPut, ReceiveVote, ReceiveFails, SendDecision, Vote,
     ParticipantCommit, ParticipantAbort, ParticipantReceiveFails, CommitUnasked,
     CloseConnections, CloseDatastore, Restart, Start, Synchronized, Ending,
     processVars, vars
<1> QED
  BY <1>1, <1>2, <1>3

\* An acknowledged version, or one that can be: before a step it was that already,
\* unless its coordinator commits in this step.
LEMMA FirmSteps ==
    ASSUME StopsInv, [Next]_vars, NEW s \in Puts,
           Firm(s)', home'[s] \notin unsaved'
    PROVE  \/ /\ Firm(s) /\ home[s] \notin unsaved
              /\ home'[s] = home[s] /\ version'[s] = version[s]
           \/ CommitPut(s) /\ stage[home[s]] = "up"
<1>0. TypeOK /\ TypeOK' /\ ProcessInv
  BY TypeOKStep DEF StopsInv
<1>s. /\ phase'[s] = "decided" => phase[s] = "decided" \/ CommitPut(s)
      /\ phase'[s] = "acked" => phase[s] = "acked" \/ Reply(s)
      /\ Settled(s) => Settled(s)' /\ home'[s] = home[s] /\ version'[s] = version[s]
  BY <1>0, PhaseSteps, Zenon
<1>u. unsaved \subseteq unsaved'
  BY <1>0, UnsavedGrows
<1>1. CASE CommitPut(s)
  <2>1. phase'[s] = "decided" /\ home' = home /\ stage' = stage
    BY <1>0, <1>1 DEF CommitPut, processVars, TypeOK
  <2> QED
    BY <1>1, <2>1 DEF Firm
<1>2. CASE Reply(s)
  <2>1. phase[s] = "decided" /\ HandlerOpen(home[s])
    BY <1>0, <1>2 DEF Reply, Firm, TypeOK
  <2>2. stage[home[s]] = "up"
    BY <1>0, <2>1 DEF HandlerOpen, Accepting, ProcessInv
  <2> QED
    BY <1>s, <1>u, <2>1, <2>2 DEF Firm, Settled
<1>3. CASE ~CommitPut(s) /\ ~Reply(s) /\ phase'[s] = "acked"
  BY <1>s, <1>u, <1>3 DEF Firm, Settled
<1>4. CASE ~CommitPut(s) /\ phase'[s] = "decided"
  <2>1. phase[s] = "decided" /\ stage[home[s]] # "starting"
    BY <1>0, <1>s, <1>4 DEF ProcessInv
  <2>2. stage'[home[s]] = "up"
    BY <1>s, <1>4, <2>1 DEF Firm, Settled
  <2>3. stage[home[s]] = "up"
    BY <1>0, <2>1, <2>2, NotUpAgain DEF TypeOK
  <2> QED
    BY <1>s, <1>u, <2>1, <2>3 DEF Firm, Settled
<1> QED
  BY <1>1, <1>2, <1>3, <1>4 DEF Firm

\* The replica of a firm put has its version, while it is up.
LEMMA FirmStored ==
    ASSUME StopsInv, NEW s \in Puts, Firm(s), home[s] \notin unsaved,
           stage[home[s]] = "up"
    PROVE  store[home[s]].ver >= version[s]
  BY DEF StopsInv, DecisionInv, Firm, Keeps, KeptVersion

\* When all replicas have to vote, a put asks all the others.
LEMMA AsksAll ==
    ASSUME WriteQuorum = N, TypeOK, NEW t \in Puts, StartPut(t), NEW r \in Replicas
    PROVE  link'[<<t, r>>] = IF r = home[t] THEN "unused" ELSE "prepare"
<1> DEFINE others == Replicas \ {home[t]}
<1>1. home[t] \in Replicas
  BY DEF TypeOK
<1>2. IsFiniteSet(Replicas) /\ Cardinality(Replicas) = N
  <2>1. 0 \in Int /\ N - 1 \in Int /\ 0 <= N - 1 + 1 /\ N - 1 - 0 + 1 = N
    BY ReplicasAssumption
  <2> QED
    BY <2>1, FS_Interval DEF Replicas
<1>3. IsFiniteSet(others) /\ Cardinality(others) = N - 1
  BY <1>1, <1>2, FS_RemoveElement
<1>4. PICK Q \in kSubset(WriteQuorum - 1, Accepting \ {home[t]}) :
         link' = [l \in Links |->
                     IF l \notin OfPut(t) THEN link[l]
                     ELSE IF Peer(l) \in Q THEN "prepare" ELSE "unused"]
  BY DEF StartPut
<1>5. Q \subseteq others /\ Cardinality(Q) = N - 1
  BY DEF kSubset, Accepting
<1>6. Q = others
  BY <1>3, <1>5, FS_Subset
<1>7. <<t, r>> \in OfPut(t) /\ <<t, r>> \in Links /\ Peer(<<t, r>>) = r
  BY LinkParts DEF OfPut
<1> QED
  BY <1>4, <1>6, <1>7
VersionsInv == StopsInv /\ AskedInv /\ CrossInv /\ AboveInv /\ FirmUnique

LEMMA AskedInvStep ==
    ASSUME WriteQuorum = N, VersionsInv, [Next]_vars
    PROVE  AskedInv'
<1>0. TypeOK
  BY DEF VersionsInv, StopsInv
<1> SUFFICES ASSUME NEW t \in Puts, NEW r \in Replicas,
                    phase'[t] = "gathering", r # home'[t]
             PROVE  link'[<<t, r>>] # "unused"
  BY DEF AskedInv
<1>1. CASE StartPut(t)
  <2>1. home' = home
    BY <1>1 DEF StartPut
  <2> QED
    BY <1>0, <1>1, <2>1, AsksAll
<1>2. CASE ~StartPut(t)
  <2>1. phase[t] = "gathering" /\ home'[t] = home[t]
    BY <1>0, <1>2, GatheringSteps
  <2>2. link[<<t, r>>] # "unused"
    BY <2>1 DEF VersionsInv, AskedInv
  <2>3. <<t, r>> \in Links /\ <<t, r>>[1] = t
    BY LinkParts
  <2> QED
    BY <1>0, <2>1, <2>2, <2>3, VoteSteps
<1> QED
  BY <1>1, <1>2

\* A put that asks has no vote yet; a vote is given where no put has the lock.
LEMMA NewVotes ==
    ASSUME WriteQuorum = N, VersionsInv, [Next]_vars, NEW t \in Puts,
           NEW r \in Replicas, phase'[t] = "gathering", Voted(t, r)'
    PROVE  /\ phase[t] = "gathering" /\ home'[t] = home[t]
           /\ Voted(t, r) \/ (Vote(<<t, r>>) /\ ~Busy(r) /\ stage[r] = "up")
<1>0. TypeOK
  BY DEF VersionsInv, StopsInv
<1>1. ~StartPut(t)
  BY <1>0, AsksAll DEF Voted
<1>2. phase[t] = "gathering" /\ home'[t] = home[t]
  BY <1>0, <1>1, GatheringSteps
<1>3. <<t, r>> \in Links /\ <<t, r>>[1] = t /\ Peer(<<t, r>>) = r
  BY LinkParts
<1>4. ASSUME Vote(<<t, r>>) PROVE Voted(t, r) \/ (~Busy(r) /\ stage[r] = "up")
  BY <1>0, <1>3, <1>4 DEF Vote, Voted, TypeOK
<1>5. Voted(t, r) \/ Vote(<<t, r>>)
  BY <1>0, <1>2, <1>3, VoteSteps DEF Voted
<1> QED
  BY <1>2, <1>4, <1>5

LEMMA CrossInvStep ==
    ASSUME WriteQuorum = N, VersionsInv, [Next]_vars
    PROVE  CrossInv'
<1>0. TypeOK /\ TypeOK' /\ LockInv
  BY TypeOKStep DEF VersionsInv, StopsInv
<1> SUFFICES ASSUME NEW s \in Puts, NEW t \in Puts, s # t,
                    phase'[s] = "gathering", phase'[t] = "gathering",
                    Voted(s, home[t])', Voted(t, home[s])'
             PROVE  FALSE
  BY DEF CrossInv
<1>h. home'[s] \in Replicas /\ home'[t] \in Replicas
  BY <1>0 DEF TypeOK
<1>n. ASSUME NEW u \in Puts, NEW r \in Replicas, phase'[u] = "gathering",
             link'[<<u, r>>] \in {"vote_commit", "ready"}
      PROVE  /\ phase[u] = "gathering" /\ home'[u] = home[u]
             /\ Voted(u, r) \/ (Vote(<<u, r>>) /\ ~Busy(r) /\ stage[r] = "up")
  <2>1. Voted(u, r)'
    BY <1>n DEF Voted
  <2> QED
    BY <1>n, <2>1, NewVotes
<1>s. /\ link'[<<s, home'[t]>>] \in {"vote_commit", "ready"}
      /\ link'[<<t, home'[s]>>] \in {"vote_commit", "ready"}
  BY DEF Voted
<1>1. phase[s] = "gathering" /\ home'[s] = home[s]
  BY <1>h, <1>n, <1>s
<1>2. phase[t] = "gathering" /\ home'[t] = home[t]
  BY <1>h, <1>n, <1>s
<1>3. ASSUME NEW u \in Puts, phase[u] = "gathering", stage[home[u]] = "up"
      PROVE  Busy(home[u])
  <2>1. home[u] \in Replicas /\ home[u] \in Accepting
    BY <1>0, <1>3 DEF TypeOK, Accepting
  <2>2. u \in LockHolders(home[u]) /\ holder[home[u]] = LockHolders(home[u])
    BY <1>0, <1>3, <2>1 DEF LockInv, LockHolders
  <2> QED
    BY <2>2 DEF Busy
<1>4. Voted(s, home[t])
  BY <1>1, <1>2, <1>3, <1>h, <1>n, <1>s
<1>5. Voted(t, home[s])
  BY <1>1, <1>2, <1>3, <1>h, <1>n, <1>s
<1> QED
  BY <1>1, <1>2, <1>4, <1>5 DEF VersionsInv, CrossInv

\* When a put commits, the others have all voted for it and are not lost.
LEMMA VotesAtCommit ==
    ASSUME VersionsInv, NEW s \in Puts, CommitPut(s), stage[home[s]] = "up",
           NEW r \in Replicas, r # home[s]
    PROVE  link[<<s, r>>] = "ready"
<1>1. phase[s] = "gathering" /\ <<s, r>> \in Links /\ <<s, r>>[1] = s
  BY LinkParts DEF CommitPut
<1>2. <<s, r>> \in Contacted(s)
  BY <1>1 DEF VersionsInv, AskedInv, Contacted, OfPut
<1>3. <<s, r>> \notin hungUp
  BY <1>1 DEF VersionsInv, StopsInv, HangUpInv
<1> QED
  BY <1>2, <1>3 DEF CommitPut

LEMMA AboveInvStep ==
    ASSUME WriteQuorum = N, VersionsInv, [Next]_vars
    PROVE  AboveInv'
<1>0. TypeOK /\ TypeOK' /\ LockInv /\ StopsInv
  BY TypeOKStep DEF VersionsInv, StopsInv
<1> SUFFICES ASSUME NEW s \in Puts, NEW t \in Puts, s # t, Firm(s)',
                    home'[s] \notin unsaved', phase'[t] = "gathering"
             PROVE  /\ home'[t] = home'[s] => version'[t] >= version'[s]
                    /\ link'[<<t, home'[s]>>] = "vote_commit" =>
                          vote'[<<t, home'[s]>>] >= version'[s]
                    /\ link'[<<t, home'[s]>>] = "ready" => version'[t] >= version'[s]
  BY DEF AboveInv
<1> DEFINE h == home[s]
           l == <<t, h>>
<1>t. /\ h \in Replicas /\ home[t] \in Replicas /\ l \in Links /\ Peer(l) = h /\ l[1] = t
      /\ version[s] \in Nat /\ version[t] \in Nat /\ vote[l] \in Nat
      /\ store[h].ver \in Nat
  BY <1>0, LinkParts, EntryTypes DEF TypeOK
<1>1. CASE CommitPut(s) /\ stage[h] = "up"
  <2>1. /\ phase[s] = "gathering" /\ phase[t] = "gathering" /\ home' = home
        /\ link' = link
    BY <1>0, <1>1 DEF CommitPut, linkVars, TypeOK
  <2>2. home[t] # h
    <3>1. h \in Accepting
      BY <1>1, <1>t DEF Accepting
    <3>2. home[t] = h => s \in holder[h] /\ t \in holder[h]
      BY ZenonT(30), <1>0, <1>t, <2>1, <3>1 DEF LockInv, LockHolders
    <3> QED
      BY <1>0, <1>t, <3>2 DEF LockInv
  <2>3. Voted(s, home[t])
    BY <1>1, <1>t, <2>2, VotesAtCommit DEF Voted
  <2>4. ~Voted(t, h)
    BY <2>1, <2>3 DEF VersionsInv, CrossInv
  <2> QED
    BY <2>1, <2>2, <2>4 DEF Voted
<1>2. CASE Firm(s) /\ h \notin unsaved /\ home'[s] = h /\ version'[s] = version[s]
  <2>1. CASE StartPut(t)
    <3>1. home' = home /\ version'[t] = store[home[t]].ver /\ stage[home[t]] = "up"
      BY <1>0, <2>1 DEF StartPut, TypeOK
    <3>2. home[t] = h => version'[t] >= version[s]
      BY <1>0, <1>2, <3>1, FirmStored
    <3>3. link'[l] \notin {"vote_commit", "ready"}
      BY <1>0, <1>t, <2>1, AsksAll
    <3> QED
      BY <1>2, <3>1, <3>2, <3>3
  <2>2. CASE ~StartPut(t)
    <3>1. /\ phase[t] = "gathering" /\ home'[t] = home[t]
          /\ version'[t] = version[t] \/ \E m \in Links : m[1] = t /\ ReceiveVote(m)
      BY <1>0, <2>2, GatheringSteps
    <3>2. /\ home[t] = h => version[t] >= version[s]
          /\ link[l] = "vote_commit" => vote[l] >= version[s]
          /\ link[l] = "ready" => version[t] >= version[s]
      BY <1>2, <3>1 DEF VersionsInv, AboveInv
    <3>r. ASSUME NEW m \in Links, m[1] = t, ReceiveVote(m)
          PROVE  version'[t] = HighestVote(version[t], vote[m]) /\ vote[m] \in Nat
      BY <1>0, <3>r DEF ReceiveVote, TypeOK
    <3>3. version'[t] \in Nat /\ version'[t] >= version[t]
      <4>1. CASE version'[t] = version[t]
        BY <1>t, <4>1
      <4>2. ASSUME NEW m \in Links, m[1] = t, ReceiveVote(m)
            PROVE  version'[t] \in Nat /\ version'[t] >= version[t]
        BY <1>t, <3>r, <4>2, HighestVoteAbove
      <4> QED
        BY <3>1, <4>1, <4>2
    <3>4. home'[t] = home'[s] => version'[t] >= version'[s]
      BY <1>2, <1>t, <3>1, <3>2, <3>3
    <3>5. /\ link'[l] = "vote_commit" =>
                Vote(l) \/ (link[l] = "vote_commit" /\ vote'[l] = vote[l])
          /\ link'[l] = "ready" =>
                link[l] = "ready" \/ (link[l] = "vote_commit" /\ ReceiveVote(l))
      BY <1>0, <1>t, <3>1, VoteSteps
    <3>6. ASSUME Vote(l), link'[l] = "vote_commit" PROVE vote'[l] >= version[s]
      <4>1. vote'[l] = store[h].ver /\ stage[h] = "up"
        BY <1>0, <1>t, <3>6 DEF Vote, TypeOK
      <4> QED
        BY <1>0, <1>2, <4>1, FirmStored
    <3>7. ASSUME link[l] = "vote_commit", ReceiveVote(l) PROVE version'[t] >= version[s]
      <4>1. version'[t] >= vote[l]
        BY <1>t, <3>7, <3>r, HighestVoteAbove
      <4> QED
        BY <1>t, <3>2, <3>3, <3>7, <4>1
    <3>8. link[l] = "ready" => version'[t] >= version[s]
      BY <1>t, <3>2, <3>3
    <3> QED
      BY <1>2, <3>2, <3>4, <3>5, <3>6, <3>7, <3>8
  <2> QED
    BY <2>1, <2>2
<1> QED
  BY <1>0, <1>1, <1>2, FirmSteps

LEMMA FirmUniqueStep ==
    ASSUME WriteQuorum = N, VersionsInv, [Next]_vars
    PROVE  FirmUnique'
<1>0. TypeOK /\ TypeOK' /\ StopsInv
  BY TypeOKStep DEF VersionsInv, StopsInv
<1>1. ASSUME NEW s \in Puts, NEW t \in Puts, s # t, CommitPut(t), stage[home[t]] = "up",
             Firm(s), home[s] \notin unsaved, version'[s] = version[s]
      PROVE  version'[t] # version'[s]
  <2>1. /\ phase[t] = "gathering" /\ version'[t] = version[t] + 1
        /\ version[t] \in Nat /\ version[s] \in Nat /\ home[s] \in Replicas
    BY <1>0, <1>1 DEF CommitPut, TypeOK
  <2>2. /\ home[t] = home[s] => version[t] >= version[s]
        /\ link[<<t, home[s]>>] = "ready" => version[t] >= version[s]
    BY <1>1, <2>1 DEF VersionsInv, AboveInv
  <2>3. home[t] # home[s] => link[<<t, home[s]>>] = "ready"
    BY <1>1, <2>1, VotesAtCommit
  <2> QED
    BY <1>1, <2>1, <2>2, <2>3
<1>2. ASSUME NEW s \in Puts, NEW t \in Puts, s # t, Firm(s)', Firm(t)',
             home'[s] \notin unsaved', home'[t] \notin unsaved'
      PROVE  version'[s] # version'[t]
  <2>1. ASSUME NEW u \in Puts, Firm(u)', home'[u] \notin unsaved'
        PROVE  \/ /\ Firm(u) /\ home[u] \notin unsaved /\ version'[u] = version[u]
                  /\ ~CommitPut(u)
               \/ CommitPut(u) /\ stage[home[u]] = "up"
    <3>1. Firm(u) => ~CommitPut(u)
      BY DEF Firm, CommitPut
    <3> QED
      BY <1>0, <2>1, <3>1, FirmSteps
  <2>2. ~(CommitPut(s) /\ CommitPut(t))
    BY <1>0, <1>2 DEF CommitPut, TypeOK
  <2>3. \/ /\ Firm(s) /\ home[s] \notin unsaved /\ version'[s] = version[s]
           /\ ~CommitPut(s)
        \/ CommitPut(s) /\ stage[home[s]] = "up"
    BY <1>2, <2>1
  <2>4. \/ /\ Firm(t) /\ home[t] \notin unsaved /\ version'[t] = version[t]
           /\ ~CommitPut(t)
        \/ CommitPut(t) /\ stage[home[t]] = "up"
    BY <1>2, <2>1
  <2>5. CASE CommitPut(s) \/ CommitPut(t)
    <3>1. CASE CommitPut(t)
      BY <1>1, <1>2, <2>2, <2>3, <2>4, <3>1
    <3>2. CASE CommitPut(s)
      <4>1. version'[s] # version'[t]
        BY <1>1, <1>2, <2>2, <2>3, <2>4, <3>2
      <4> QED
        BY <4>1
    <3> QED
      BY <2>5, <3>1, <3>2
  <2>6. CASE ~CommitPut(s) /\ ~CommitPut(t)
    BY <1>2, <2>3, <2>4, <2>6 DEF VersionsInv, FirmUnique
  <2> QED
    BY <2>5, <2>6
<1> QED
  BY <1>2 DEF FirmUnique

\* AckedVersionsUnique, when all replicas have to vote: no two acknowledged puts have
\* the same version, unless the replica of one of them ended without saving it.
THEOREM AcknowledgedVersionsDiffer ==
    ASSUME WriteQuorum = N
    PROVE  Spec => []AckedVersionsUnique
<1>1. Init => VersionsInv
  <2> SUFFICES ASSUME Init PROVE VersionsInv
    OBVIOUS
  <2>1. \A t \in Puts : phase[t] = "idle"
    BY DEF Init
  <2> QED
    BY <2>1, StopsInvInit
    DEF VersionsInv, AskedInv, CrossInv, AboveInv, FirmUnique, Firm
<1>2. VersionsInv /\ [Next]_vars => VersionsInv'
  <2> SUFFICES ASSUME VersionsInv, [Next]_vars PROVE VersionsInv'
    OBVIOUS
  <2>1. StopsInv'
    BY StopsInvStep DEF VersionsInv
  <2> QED
    BY <2>1, AskedInvStep, CrossInvStep, AboveInvStep, FirmUniqueStep DEF VersionsInv
<1>3. VersionsInv => AckedVersionsUnique
  BY DEF VersionsInv, FirmUnique, Firm, AckedVersionsUnique
<1> QED
  BY <1>1, <1>2, <1>3, PTL DEF Spec
=============================================================================
