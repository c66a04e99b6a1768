------------------------ MODULE QuorumRegisterProofs ------------------------
(***************************************************************************)
(* The replicated store implements the atomic register of AtomicRegister,  *)
(* for every number of replicas, quorum sizes, set of requests and bound   *)
(* on the attempts: the initial state maps to the initial state, and every *)
(* step to an arrival, a write, a read or a stutter.                       *)
(***************************************************************************)
EXTENDS QuorumAgreementProofs, Sequences

-----------------------------------------------------------------------------
(* Histories ordered by versions.                                          *)

\* The puts of C in the order of their versions in e.
HistoryOf(C, e) ==
    [n \in 1 .. Cardinality(C) |-> CHOOSE t \in C : e[t].ver = n]

\* The versions of the puts of C are 1, 2, ... without a gap or a repetition.
Ordered(C, e) ==
    /\ IsFiniteSet(C)
    /\ \A t \in C : e[t].ver \in 1 .. Cardinality(C)
    /\ \A n \in 1 .. Cardinality(C) : \E t \in C : e[t].ver = n
    /\ \A s, t \in C : e[s].ver = e[t].ver => s = t

LEMMA HistoryValues ==
    ASSUME NEW C, NEW e, Ordered(C, e)
    PROVE  /\ Cardinality(C) \in Nat
           /\ HistoryOf(C, e) \in Seq(C)
           /\ Len(HistoryOf(C, e)) = Cardinality(C)
           /\ \A s \in C : HistoryOf(C, e)[e[s].ver] = s
<1>1. Cardinality(C) \in Nat
  BY FS_CardinalityType DEF Ordered
<1>2. ASSUME NEW n \in 1 .. Cardinality(C)
      PROVE  /\ HistoryOf(C, e)[n] \in C
             /\ e[HistoryOf(C, e)[n]].ver = n
  <2>1. \E t \in C : e[t].ver = n
    BY DEF Ordered
  <2>2. HistoryOf(C, e)[n] = CHOOSE t \in C : e[t].ver = n
    BY DEF HistoryOf
  <2> QED
    BY <2>1, <2>2
<1>3. HistoryOf(C, e) \in [1 .. Cardinality(C) -> C]
  BY <1>2 DEF HistoryOf
<1>4. ASSUME NEW s \in C PROVE HistoryOf(C, e)[e[s].ver] = s
  BY <1>2 DEF Ordered
<1> QED
  BY <1>1, <1>3, <1>4

LEMMA SameHistory ==
    ASSUME NEW C, NEW e, NEW f, Ordered(C, e), \A t \in C : f[t] = e[t]
    PROVE  Ordered(C, f) /\ HistoryOf(C, f) = HistoryOf(C, e)
<1>1. Ordered(C, f)
  BY DEF Ordered
<1>2. ASSUME NEW n \in 1 .. Cardinality(C)
      PROVE  HistoryOf(C, f)[n] = HistoryOf(C, e)[n]
  <2>1. PICK t \in C : e[t].ver = n
    BY DEF Ordered
  <2> QED
    BY <1>1, <2>1, HistoryValues
<1> QED
  BY <1>1, <1>2 DEF HistoryOf

\* The versions f are those of e, and the next one for the new put t.
Extends(C, e, t, f) ==
    /\ t \notin C
    /\ \A s \in C : f[s] = e[s]
    /\ f[t].ver = Cardinality(C) + 1

\* A name that the lemma's uses can be matched with.
IsAppend(g, h, t) == g = Append(h, t)

LEMMA LongerHistory ==
    ASSUME NEW C, NEW e, NEW t, NEW f, Ordered(C, e), Extends(C, e, t, f)
    PROVE  /\ Ordered(C \cup {t}, f)
           /\ IsAppend(HistoryOf(C \cup {t}, f), HistoryOf(C, e), t)
<1>0. /\ t \notin C /\ \A s \in C : f[s] = e[s]
      /\ f[t].ver = Cardinality(C) + 1
  BY DEF Extends
<1> DEFINE D == C \cup {t}
           k == Cardinality(C)
<1>1. k \in Nat /\ IsFiniteSet(D) /\ Cardinality(D) = k + 1
  <2>1. IsFiniteSet(C) /\ k \in Nat
    BY FS_CardinalityType DEF Ordered
  <2> QED
    BY <1>0, <2>1, FS_AddElement
<1>2. Ordered(D, f)
  <2>1. \A s \in D : f[s].ver \in 1 .. k + 1
    BY <1>0, <1>1 DEF Ordered
  <2>2. \A n \in 1 .. k + 1 : \E s \in D : f[s].ver = n
    BY <1>0, <1>1 DEF Ordered
  <2>3. \A r, s \in D : f[r].ver = f[s].ver => r = s
    BY <1>0, <1>1 DEF Ordered
  <2> QED
    BY <1>1, <2>1, <2>2, <2>3 DEF Ordered
<1> DEFINE h == HistoryOf(C, e)
           g == HistoryOf(D, f)
<1>3. /\ h \in Seq(C) /\ Len(h) = k
      /\ g \in Seq(D) /\ Len(g) = k + 1
  BY <1>1, <1>2, HistoryValues
<1>4. ASSUME NEW n \in 1 .. k + 1 PROVE g[n] = Append(h, t)[n]
  <2>1. CASE n = k + 1
    <3>1. g[f[t].ver] = t
      BY <1>2, HistoryValues
    <3> QED
      BY <1>0, <1>1, <1>3, <2>1, <3>1
  <2>2. CASE n # k + 1
    <3>1. n \in 1 .. k
      BY <1>1, <2>2
    <3>2. PICK s \in C : e[s].ver = n
      BY <3>1 DEF Ordered
    <3>3. g[f[s].ver] = s /\ h[e[s].ver] = s
      BY <1>2, HistoryValues
    <3> QED
      BY <1>0, <1>1, <1>3, <3>1, <3>2, <3>3
  <2> QED
    BY <2>1, <2>2
<1>5. g = Append(h, t)
  <2>1. Append(h, t) \in Seq(D) /\ Len(Append(h, t)) = k + 1
    BY <1>1, <1>3
  <2> HIDE DEF g, h, k, D
  <2> QED
    BY <1>1, <1>3, <1>4, <2>1
<1> QED
  BY <1>2, <1>5 DEF IsAppend

-----------------------------------------------------------------------------
(* The versions of the committed puts.                                     *)

LastVersion == Cardinality(Committed)

\* A put that has not committed knows no version above the last one.
VersionsBounded ==
    /\ \A t \in Puts :
          phase[t] \in {"local", "gathering"} => entry[t].ver <= LastVersion
    /\ \A l \in Links :
          link[l] = "vote_commit" => payload[l].ver <= LastVersion

RegisterInv ==
    AgreementInv /\ Ordered(Committed, entry) /\ VersionsBounded

\* At most one put commits in a step.
LEMMA CommittedStep ==
    ASSUME HandlerInv, [Next]_vars
    PROVE  \/ /\ Committed' = Committed
              /\ \A t \in Requests : ~CommitPut(t)
           \/ \E t \in Puts : /\ t \in Requests /\ CommitPut(t)
                              /\ t \notin Committed
                              /\ Committed' = Committed \cup {t}
<1>0. TypeOK /\ Committed \subseteq Committed'
  BY CommittedStable DEF HandlerInv
<1>1. CASE \A t \in Requests : ~CommitPut(t)
  BY <1>0, <1>1, NewlyCommitted
<1>2. ASSUME NEW t \in Requests, CommitPut(t)
      PROVE  /\ t \in Puts /\ t \notin Committed
             /\ Committed' = Committed \cup {t}
  <2>1. /\ t \in Puts /\ phase[t] = "gathering" /\ phase'[t] = "leaving"
        /\ \A s \in Requests \ {t} : phase'[s] = phase[s]
    BY <1>0, <1>2 DEF CommitPut, Goto, TypeOK
  <2> QED
    BY <1>0, <2>1 DEF Committed, Requests
<1> QED
  BY <1>1, <1>2

LEMMA LastVersionGrows ==
    ASSUME HandlerInv, Ordered(Committed, entry), [Next]_vars
    PROVE  /\ LastVersion \in Nat /\ LastVersion' \in Nat
           /\ LastVersion <= LastVersion'
<1>1. IsFiniteSet(Committed) /\ LastVersion \in Nat
  BY FS_CardinalityType DEF Ordered, LastVersion
<1>2. CASE Committed' = Committed
  BY <1>1, <1>2 DEF LastVersion
<1>3. ASSUME NEW t, t \notin Committed, Committed' = Committed \cup {t}
      PROVE  LastVersion' = LastVersion + 1
  <2>1. Cardinality(Committed \cup {t}) = Cardinality(Committed) + 1
    BY <1>1, <1>3, FS_AddElement
  <2> QED
    BY <1>3, <2>1 DEF LastVersion
<1> QED
  BY <1>1, <1>2, <1>3, CommittedStep

\* A put gets the version after the last one.
LEMMA CommitsNext ==
    ASSUME RegisterInv, NEW t \in Requests, CommitPut(t)
    PROVE  entry'[t].ver = LastVersion + 1
<1>0. /\ TypeOK /\ HandlerInv /\ EntryInv
      /\ LastVersion \in Nat
  BY FS_CardinalityType
  DEF RegisterInv, AgreementInv, HandlerInv, Ordered, LastVersion
<1>1. /\ t \in Puts /\ entry'[t].ver = entry[t].ver + 1
      /\ entry[t].ver \in Nat
  BY <1>0, CommitPutEntry
<1>2. entry[t].ver <= LastVersion
  BY <1>1 DEF CommitPut, RegisterInv, VersionsBounded
<1>3. CASE LastVersion = 0
  BY <1>1, <1>2, <1>3
<1>4. CASE LastVersion # 0
  <2>1. PICK s \in Committed : entry[s].ver = LastVersion
    BY <1>0, <1>4 DEF RegisterInv, Ordered, LastVersion
  <2>2. entry[t].ver >= LastVersion
    BY <2>1, CommitsAbove DEF RegisterInv, AgreementInv
  <2> QED
    BY <1>0, <1>1, <1>2, <2>2
<1> QED
  BY <1>3, <1>4

\* The history grows by the put that commits, and by nothing else.
LEMMA HistoryStep ==
    ASSUME RegisterInv, [Next]_vars
    PROVE  /\ Ordered(Committed, entry)'
           /\ (\A t \in Requests : ~CommitPut(t)) => History' = History
           /\ \A t \in Requests :
                 CommitPut(t) => History' = Append(History, t)
<1>0. HandlerInv /\ Ordered(Committed, entry)
  BY DEF RegisterInv, AgreementInv
<1>1. \A s \in Committed : entry'[s] = entry[s]
  BY <1>0, CommittedStable
<1>2. CASE Committed' = Committed /\ \A t \in Requests : ~CommitPut(t)
  <2>1. /\ Ordered(Committed, entry')
        /\ HistoryOf(Committed, entry') = HistoryOf(Committed, entry)
    BY <1>0, <1>1, SameHistory
  <2> QED
    BY <1>2, <2>1 DEF History, HistoryOf, Ordered
<1>3. ASSUME NEW t \in Requests, CommitPut(t), t \notin Committed,
             Committed' = Committed \cup {t}
      PROVE  /\ Ordered(Committed, entry)'
             /\ History' = Append(History, t)
             /\ \A s \in Requests : CommitPut(s) => s = t
  <2>1. entry'[t].ver = Cardinality(Committed) + 1
    BY <1>3, CommitsNext DEF LastVersion
  <2>2. /\ Ordered(Committed \cup {t}, entry')
        /\ HistoryOf(Committed \cup {t}, entry') =
              Append(HistoryOf(Committed, entry), t)
    <3>1. Extends(Committed, entry, t, entry')
      BY <1>1, <1>3, <2>1 DEF Extends
    <3>2. IsAppend(HistoryOf(Committed \cup {t}, entry'),
                   HistoryOf(Committed, entry), t)
      BY <1>0, <3>1, LongerHistory
    <3>3. Ordered(Committed \cup {t}, entry')
      BY <1>0, <3>1, LongerHistory
    <3> QED
      BY <3>2, <3>3 DEF IsAppend
  <2>3. \A s \in Requests : CommitPut(s) => s = t
    BY <1>0, <1>3 DEF CommitPut, Goto, HandlerInv, TypeOK
  <2>4. History' = HistoryOf(Committed', entry')
    BY DEF History, HistoryOf
  <2>5. History = HistoryOf(Committed, entry)
    BY DEF History, HistoryOf
  <2>6. Ordered(Committed, entry)' <=> Ordered(Committed', entry')
    BY DEF Ordered
  <2> QED
    BY <1>3, <2>2, <2>3, <2>4, <2>5, <2>6
<1> QED
  BY <1>0, <1>2, <1>3, CommittedStep

\* No datastore has a version above the last one.
LEMMA StoresBounded ==
    ASSUME RegisterInv, NEW r \in Replicas
    PROVE  store[r].ver \in Nat /\ store[r].ver <= LastVersion
<1>0. /\ TypeOK /\ PutEntries /\ Sound(store[r])
      /\ LastVersion \in Nat
  BY FS_CardinalityType DEF RegisterInv, AgreementInv, HandlerInv, EntryInv,
     StoresSound, Ordered, LastVersion
<1>1. store[r].ver \in Nat
  BY <1>0 DEF TypeOK, Entries
<1>2. CASE store[r].ver = 0
  BY <1>0, <1>2
<1>3. CASE store[r].ver >= 1
  <2>1. PICK t \in Committed : store[r] = entry[t]
    BY <1>0, <1>3, SoundVersion
  <2> QED
    BY <1>0, <1>1, <2>1 DEF RegisterInv, Ordered, LastVersion
<1> QED
  BY <1>1, <1>2, <1>3

\* A put starts to hold the lock of its replica with its prepare.
LEMMA LocalSteps ==
    ASSUME HandlerInv, [Next]_vars, NEW t \in Puts,
           phase'[t] \in {"local", "gathering"}
    PROVE  phase[t] \in {"local", "gathering"} \/ PrepareLocally(t)
<1>0. TypeOK /\ t \in Requests /\ t \notin Gets
  BY RequestAssumption DEF HandlerInv, Requests
<1>1. ASSUME NEW c \in Requests, Receive(c) \/ CoordinatorStep(c)
      PROVE  phase[t] \in {"local", "gathering"} \/ PrepareLocally(t)
  <2>1. CASE c # t
    BY <1>0, <1>1, <2>1, CoordinatorFrame
  <2>2. CASE c = t
    BY <1>0, <1>1, <2>2 DEF CoordinatorStep, Receive, AddCoordinator,
       ReadLocally, ContactQuorum, ConnectionFails, CommitPut, AbortPut, Retry,
       ReplyToGet, RepairQuorum, Leave, Goto, TypeOK
  <2> QED
    BY <2>1, <2>2
<1>2. ASSUME NEW m \in Links, ConnectionStep(m)
      PROVE  phase[t] \in {"local", "gathering"}
  BY <1>0, <1>2, ConnectionFrame
<1>3. CASE UNCHANGED vars
  BY <1>3 DEF vars, coordinatorVars
<1> QED
  BY <1>1, <1>2, <1>3 DEF Next, Terminated

\* Only the votes for a put change its version before it commits.
LEMMA PutEntrySteps ==
    ASSUME HandlerInv, [Next]_vars, NEW t \in Puts, ~PrepareLocally(t),
           ~CommitPut(t), entry'[t] # entry[t]
    PROVE  \E l \in Links : /\ link[l] = "vote_commit"
                            /\ Request(l) = t
                            /\ entry'[t].ver = HighestVote(entry[t].ver,
                                                           payload[l].ver)
<1>0. TypeOK /\ t \in Requests /\ t \notin Gets
  BY RequestAssumption DEF HandlerInv, Requests
<1>1. ~ \E c \in Requests : Receive(c) \/ CoordinatorStep(c)
  <2> SUFFICES ASSUME NEW c \in Requests, Receive(c) \/ CoordinatorStep(c)
               PROVE  FALSE
    OBVIOUS
  <2>1. c = t
    BY <1>0, CoordinatorFrame
  <2> QED
    BY <1>0, <2>1 DEF CoordinatorStep, Receive, AddCoordinator, ReadLocally,
       ContactQuorum, ConnectionFails, AbortPut, Retry, ReplyToGet,
       RepairQuorum, Leave
<1>2. PICK l \in Links : ConnectionStep(l)
  BY <1>1 DEF Next, Terminated, vars, coordinatorVars
<1>3. CASE ReceiveVote(l) /\ link[l] = "vote_commit"
  BY <1>0, <1>3, VoteUpdates, LinkParts DEF TypeOK, Entries
<1>4. CASE ReceiveFetched(l)
  <2>1. Request(l) \in Gets
    BY <1>4 DEF ReceiveFetched, HandlerInv, LinkInv, LinkKinds, GetStages
  <2> QED
    BY <1>0, <1>4, <2>1, FetchedUpdates DEF TypeOK
<1>5. CASE ~ReceiveFetched(l) /\ ~(ReceiveVote(l) /\ link[l] = "vote_commit")
  BY <1>0, <1>2, <1>5 DEF ConnectionStep, HandlePrepare, PrepareParticipant,
     ReceiveVote, ParticipantCommit, ParticipantAbort, LateAbort,
     RemoveParticipant, HandleFetch, HandleRepair, Decide, coordinatorVars
<1> QED
  BY <1>3, <1>4, <1>5

LEMMA VersionsBoundedStep ==
    ASSUME RegisterInv, [Next]_vars
    PROVE  VersionsBounded'
<1>0. /\ HandlerInv /\ HandlerInv' /\ TypeOK /\ TypeOK'
      /\ LastVersion \in Nat /\ LastVersion' \in Nat
      /\ LastVersion <= LastVersion'
  BY HandlerInvStep, LastVersionGrows DEF RegisterInv, AgreementInv, HandlerInv
<1>1. ASSUME NEW t \in Puts, phase'[t] \in {"local", "gathering"}
      PROVE  entry'[t].ver <= LastVersion'
  <2>0. /\ t \in Requests /\ home[t] \in Replicas /\ ~CommitPut(t)
        /\ entry[t].ver \in Nat /\ entry'[t].ver \in Nat
    BY <1>0, <1>1, PlacementAssumption
    DEF Requests, TypeOK, Entries, CommitPut, Goto
  <2>1. CASE PrepareLocally(t)
    <3>1. entry'[t].ver = store[home[t]].ver
      BY <1>0, <1>1, <2>0, <2>1 DEF PrepareLocally, Goto, Entry, TypeOK
    <3> QED
      BY <1>0, <2>0, <3>1, StoresBounded
  <2>2. CASE ~PrepareLocally(t)
    <3>1. entry[t].ver <= LastVersion
      BY <1>0, <1>1, <2>2, LocalSteps DEF RegisterInv, VersionsBounded
    <3>2. CASE entry'[t] = entry[t]
      BY <1>0, <2>0, <3>1, <3>2
    <3>3. CASE entry'[t] # entry[t]
      <4>1. PICK l \in Links : /\ link[l] = "vote_commit"
                               /\ entry'[t].ver = HighestVote(entry[t].ver,
                                                              payload[l].ver)
        BY <1>0, <2>0, <2>2, <3>3, PutEntrySteps
      <4>2. payload[l].ver <= LastVersion /\ payload[l].ver \in Nat
        BY <1>0, <4>1 DEF RegisterInv, VersionsBounded, TypeOK, Entries
      <4> QED
        BY <1>0, <2>0, <3>1, <4>1, <4>2 DEF HighestVote
    <3> QED
      BY <3>2, <3>3
  <2> QED
    BY <2>1, <2>2
<1>2. ASSUME NEW l \in Links, link'[l] = "vote_commit"
      PROVE  payload'[l].ver <= LastVersion'
  <2>0. payload[l].ver \in Nat /\ Peer(l) \in Replicas
    BY <1>0, LinkParts DEF TypeOK, Entries
  <2>1. CASE link[l] = "vote_commit"
    BY <1>0, <1>2, <2>0, <2>1, PayloadStays DEF RegisterInv, VersionsBounded
  <2>2. CASE link[l] # "vote_commit"
    <3>1. PrepareParticipant(l)
      BY <1>0, <1>2, <2>2, AnswerSteps
    <3>2. payload'[l].ver = store[Peer(l)].ver
      BY <1>0, <1>2, <3>1 DEF PrepareParticipant, Move, Entry, TypeOK
    <3> QED
      BY <1>0, <2>0, <3>2, StoresBounded
  <2> QED
    BY <2>1, <2>2
<1> QED
  BY <1>1, <1>2 DEF VersionsBounded

LEMMA RegisterInvInit == Init => RegisterInv
<1> SUFFICES ASSUME Init PROVE RegisterInv
  OBVIOUS
<1>1. Committed = {}
  BY DEF Init, Committed, Requests
<1>2. Ordered(Committed, entry)
  BY <1>1, FS_EmptySet DEF Ordered
<1>3. VersionsBounded
  BY DEF Init, VersionsBounded, Requests
<1> QED
  BY <1>2, <1>3, AgreementInvInit DEF RegisterInv

LEMMA RegisterInvStep ==
    ASSUME FrontendsApart, BackoffOutlastsDelivery, RegisterInv, [Next]_vars
    PROVE  RegisterInv'
  BY AgreementInvStep, HistoryStep, VersionsBoundedStep DEF RegisterInv

-----------------------------------------------------------------------------
(* Every step is a step of the register, or none.                          *)

RegisterSince == [t \in Requests |-> Cardinality(preceding[t])]

RegisterResult ==
    [t \in Requests |->
        IF t \in Gets /\ RegisterStatus[t] = "returned"
        THEN entry[t].val ELSE NoValue]

\* What the register sees of request t.
SameRequest(t) ==
    /\ RegisterStatus'[t] = RegisterStatus[t]
    /\ RegisterSince'[t] = RegisterSince[t]
    /\ RegisterResult'[t] = RegisterResult[t]

LEMMA SameView ==
    ASSUME NEW t \in Requests,
           preceding'[t] = preceding[t],
           t \in Gets /\ phase[t] \in {"replied", "leaving", "done"}
              => entry'[t] = entry[t],
           \/ phase'[t] = phase[t]
           \/ /\ phase[t] \in {"replied", "leaving", "done"}
              /\ phase'[t] \in {"replied", "leaving", "done"}
           \/ /\ phase[t] \in {"waiting", "registered", "local", "gathering",
                               "failed"}
              /\ phase'[t] \in {"waiting", "registered", "local", "gathering",
                                "failed"}
    PROVE  SameRequest(t)
  BY DEF SameRequest, RegisterStatus, RegisterSince, RegisterResult

\* A step that is no arrival, commit or reply of t shows nothing of it.
LEMMA UnseenSteps ==
    ASSUME HandlerInv, [Next]_vars, NEW t \in Requests,
           ~Receive(t), ~CommitPut(t), ~ReplyToGet(t)
    PROVE  SameRequest(t)
<1>0. TypeOK
  BY DEF HandlerInv
<1>1. ASSUME NEW c \in Requests, Receive(c) \/ CoordinatorStep(c)
      PROVE  SameRequest(t)
  <2>1. CASE c # t
    BY <1>0, <1>1, <2>1, CoordinatorFrame, SameView
  <2>2. CASE c = t
    <3>1. preceding'[t] = preceding[t]
      BY <1>1, <2>2 DEF CoordinatorStep, AddCoordinator, PrepareLocally,
         ReadLocally, ContactQuorum, ConnectionFails, AbortPut, Retry,
         RepairQuorum, Leave
    <3>2. phase[t] \in {"replied", "leaving", "done"} =>
             phase'[t] \in {"replied", "leaving", "done"} /\ UNCHANGED entry
      BY <1>0, <1>1, <2>2 DEF CoordinatorStep, AddCoordinator, PrepareLocally,
         ReadLocally, ContactQuorum, ConnectionFails, AbortPut, Retry,
         RepairQuorum, Leave, Goto, TypeOK
    <3>3. phase[t] \notin {"replied", "leaving", "done"} =>
             /\ phase[t] \in {"waiting", "registered", "local", "gathering",
                              "failed"}
             /\ phase'[t] \in {"waiting", "registered", "local", "gathering",
                               "failed"}
      BY <1>0, <1>1, <2>2 DEF CoordinatorStep, AddCoordinator, PrepareLocally,
         ReadLocally, ContactQuorum, ConnectionFails, AbortPut, Retry,
         RepairQuorum, Leave, Goto, TypeOK
    <3> QED
      BY <3>1, <3>2, <3>3, SameView
  <2> QED
    BY <2>1, <2>2
<1>2. ASSUME NEW m \in Links, ConnectionStep(m)
      PROVE  SameRequest(t)
  BY <1>2, ConnectionFrame, SameView
<1>3. CASE UNCHANGED vars
  BY <1>3, SameView DEF vars, coordinatorVars
<1> QED
  BY <1>1, <1>2, <1>3 DEF Next, Terminated

\* Two requests do not arrive, commit or reply in one step.
LEMMA OneSeenStep ==
    ASSUME TypeOK, NEW t \in Requests,
           Receive(t) \/ CommitPut(t) \/ ReplyToGet(t)
    PROVE  \A c \in Requests \ {t} :
              ~Receive(c) /\ ~CommitPut(c) /\ ~ReplyToGet(c)
<1>1. \A c \in Requests \ {t} : phase'[c] = phase[c]
  BY CoordinatorFrame DEF CoordinatorStep
<1>2. ASSUME NEW c \in Requests, Receive(c) \/ CommitPut(c) \/ ReplyToGet(c)
      PROVE  phase'[c] # phase[c]
  BY <1>2 DEF Receive, CommitPut, ReplyToGet, Goto, TypeOK
<1> QED
  BY <1>1, <1>2

\* A step of t changes what the register sees of t only.
LEMMA SeenChange ==
    ASSUME HandlerInv, [Next]_vars, NEW t \in Requests,
           Receive(t) \/ CommitPut(t) \/ ReplyToGet(t)
    PROVE  /\ RegisterStatus' = [RegisterStatus EXCEPT ![t] = RegisterStatus'[t]]
           /\ RegisterSince' = [RegisterSince EXCEPT ![t] = RegisterSince'[t]]
           /\ RegisterResult' = [RegisterResult EXCEPT ![t] = RegisterResult'[t]]
<1>1. \A c \in Requests \ {t} : SameRequest(c)
  BY UnseenSteps, OneSeenStep DEF HandlerInv
<1>2. RegisterStatus' = [RegisterStatus EXCEPT ![t] = RegisterStatus'[t]]
  BY <1>1 DEF SameRequest, RegisterStatus
<1>3. RegisterSince' = [RegisterSince EXCEPT ![t] = RegisterSince'[t]]
  BY <1>1 DEF SameRequest, RegisterSince
<1>4. RegisterResult' = [RegisterResult EXCEPT ![t] = RegisterResult'[t]]
  BY <1>1 DEF SameRequest, RegisterResult
<1> QED
  BY <1>2, <1>3, <1>4

LEMMA ReceiveArrives ==
    ASSUME RegisterInv, [Next]_vars, NEW t \in Requests, Receive(t)
    PROVE  Register!Arrive(t)
<1>0. /\ HandlerInv /\ TypeOK /\ Ordered(Committed, entry)
      /\ phase[t] = "idle" /\ phase'[t] = "waiting"
      /\ preceding'[t] = Committed
  BY DEF RegisterInv, AgreementInv, HandlerInv, TypeOK, Receive, Goto
<1>1. History' = History
  <2>1. \A c \in Requests : ~CommitPut(c)
    BY <1>0, OneSeenStep DEF CommitPut
  <2> QED
    BY <2>1, HistoryStep
<1>2. RegisterStatus[t] = "idle" /\ RegisterStatus'[t] = "pending"
  BY <1>0 DEF RegisterStatus
<1>3. RegisterSince'[t] = Len(History)
  <2>1. Len(HistoryOf(Committed, entry)) = Cardinality(Committed)
    BY <1>0, HistoryValues
  <2>2. History = HistoryOf(Committed, entry)
    BY DEF History, HistoryOf
  <2> QED
    BY <1>0, <2>1, <2>2 DEF RegisterSince
<1>4. RegisterResult' = RegisterResult
  <2>1. RegisterResult'[t] = RegisterResult[t]
    BY <1>2 DEF RegisterResult
  <2> QED
    BY <1>0, <2>1, SeenChange DEF RegisterResult
<1>5. /\ RegisterStatus' = [RegisterStatus EXCEPT ![t] = "pending"]
      /\ RegisterSince' = [RegisterSince EXCEPT ![t] = Len(History)]
  BY <1>0, <1>2, <1>3, SeenChange
<1> QED
  BY <1>1, <1>2, <1>4, <1>5
  DEF Register!Arrive, RegisterSince, RegisterResult

LEMMA CommitWrites ==
    ASSUME RegisterInv, [Next]_vars, NEW t \in Requests, CommitPut(t)
    PROVE  Register!Write(t)
<1>0. /\ HandlerInv /\ TypeOK /\ t \in Puts /\ t \notin Gets
      /\ phase[t] = "gathering" /\ phase'[t] = "leaving"
      /\ preceding'[t] = preceding[t]
  BY RequestAssumption
  DEF RegisterInv, AgreementInv, HandlerInv, TypeOK, CommitPut, Goto
<1>1. History' = Append(History, t)
  BY HistoryStep
<1>2. RegisterStatus[t] = "pending" /\ RegisterStatus'[t] = "returned"
  BY <1>0 DEF RegisterStatus
<1>3. RegisterSince' = RegisterSince
  <2>1. RegisterSince'[t] = RegisterSince[t]
    BY <1>0 DEF RegisterSince
  <2> QED
    BY <1>0, <2>1, SeenChange DEF RegisterSince
<1>4. RegisterResult' = RegisterResult
  <2>1. RegisterResult'[t] = RegisterResult[t]
    BY <1>0 DEF RegisterResult
  <2> QED
    BY <1>0, <2>1, SeenChange DEF RegisterResult
<1>5. RegisterStatus' = [RegisterStatus EXCEPT ![t] = "returned"]
  BY <1>0, <1>2, SeenChange
<1> QED
  BY <1>0, <1>1, <1>2, <1>3, <1>4, <1>5
  DEF Register!Write, RegisterSince, RegisterResult

\* The versions of the puts that committed before a get arrived are distinct
\* and none exceeds the version it replies with, so that is at least their
\* number.
LEMMA ReplyIsRecent ==
    ASSUME RegisterInv, NEW t \in Requests, ReplyToGet(t)
    PROVE  /\ entry[t].ver \in Cardinality(preceding[t]) .. LastVersion
           /\ entry[t].val = IF entry[t].ver = 0
                             THEN NoValue ELSE History[entry[t].ver]
<1> DEFINE n == entry[t].ver
           P == preceding[t]
<1>0. /\ HandlerInv /\ EntryInv /\ QuorumInv /\ KnowledgeInv
      /\ TypeOK /\ PutEntries
      /\ Ordered(Committed, entry)
      /\ n \in Nat /\ LastVersion \in Nat
      /\ t \in Gets /\ t \notin Puts /\ Sound(entry[t])
  BY RequestAssumption, FS_CardinalityType
  DEF RegisterInv, AgreementInv, HandlerInv, EntryInv, GetsSound, Ordered,
      LastVersion, ReplyToGet, TypeOK, Entries
<1>1. P \subseteq Committed
  BY <1>0 DEF KnowledgeInv, PrecedingCommitted
<1>2. \A s \in P : entry[s].ver \in 1 .. n
  <2>1. \A l \in Contacted(t) : link[l] \in {"ready", "read"}
    BY DEF ReplyToGet, Answered
  <2>2. \A s \in P : n >= entry[s].ver
    BY <1>0, <2>1, QuorumKnows DEF ReplyToGet, Needed
  <2>3. \A s \in P : entry[s].ver \in Nat /\ entry[s].ver >= 1
    BY <1>0, <1>1 DEF Ordered
  <2> QED
    BY <1>0, <2>2, <2>3
<1>3. Cardinality(P) <= n /\ Cardinality(P) \in Nat
  <2>1. IsFiniteSet(P) /\ Cardinality(P) \in Nat
    BY <1>0, <1>1, FS_Subset, FS_CardinalityType DEF Ordered
  <2>2. IsFiniteSet(1 .. n) /\ Cardinality(1 .. n) = n
    <3>1. \A m \in Nat : IsFiniteSet(1 .. m) /\ Cardinality(1 .. m) = m
      BY FS_Interval
    <3> QED
      BY <1>0, <3>1
  <2> DEFINE f == [s \in P |-> entry[s].ver]
  <2>3. f \in [P -> 1 .. n]
    BY <1>2
  <2>4. \A x, y \in P : f[x] = f[y] => x = y
    BY <1>0, <1>1 DEF Ordered
  <2>5. ~(Cardinality(1 .. n) < Cardinality(P))
    <3> DEFINE T == 1 .. n
    <3>1. f \in [P -> T] /\ IsFiniteSet(P) /\ IsFiniteSet(T)
      BY <2>1, <2>2, <2>3
    <3>2. \A x, y \in P : f[x] = f[y] => x = y
      BY <2>4
    <3> HIDE DEF f, P, T
    <3> SUFFICES ASSUME Cardinality(T) < Cardinality(P) PROVE FALSE
      BY DEF T
    <3>3. \E x, y \in P : x # y /\ f[x] = f[y]
      BY <3>1, FS_PigeonHole
    <3> QED
      BY <3>2, <3>3
  <2> QED
    BY <1>0, <2>1, <2>2, <2>5
<1>4. CASE n = 0
  <2>1. entry[t].val = NoValue
    BY <1>0, <1>4, SoundVersion
  <2> QED
    BY <1>0, <1>3, <1>4, <2>1
<1>5. CASE n # 0
  <2>1. PICK s \in Committed : entry[t] = entry[s]
    BY <1>0, <1>5, SoundVersion
  <2>2. entry[s].ver \in 1 .. LastVersion /\ entry[s].val = s
    BY <1>0, <2>1 DEF Ordered, LastVersion, PutEntries, Committed
  <2>3. HistoryOf(Committed, entry)[entry[s].ver] = s
    BY <1>0, <2>1, HistoryValues
  <2>4. History = HistoryOf(Committed, entry)
    BY DEF History, HistoryOf
  <2> QED
    BY <1>0, <1>3, <1>5, <2>1, <2>2, <2>3, <2>4
<1> QED
  BY <1>4, <1>5

LEMMA ReplyReads ==
    ASSUME RegisterInv, [Next]_vars, NEW t \in Requests, ReplyToGet(t)
    PROVE  Register!Read(t)
<1>0. /\ HandlerInv /\ TypeOK /\ t \in Gets
      /\ phase[t] = "gathering" /\ phase'[t] \in {"leaving", "replied"}
      /\ preceding'[t] = preceding[t] /\ entry'[t] = entry[t]
  BY DEF RegisterInv, AgreementInv, HandlerInv, TypeOK, ReplyToGet, Goto
<1>1. History' = History
  <2>1. \A c \in Requests : ~CommitPut(c)
    BY <1>0, OneSeenStep, RequestAssumption DEF CommitPut
  <2> QED
    BY <2>1, HistoryStep
<1>2. RegisterStatus[t] = "pending" /\ RegisterStatus'[t] = "returned"
  BY <1>0 DEF RegisterStatus
<1>3. RegisterSince' = RegisterSince
  <2>1. RegisterSince'[t] = RegisterSince[t]
    BY <1>0 DEF RegisterSince
  <2> QED
    BY <1>0, <2>1, SeenChange DEF RegisterSince
<1>4. /\ RegisterStatus' = [RegisterStatus EXCEPT ![t] = "returned"]
      /\ RegisterResult' = [RegisterResult EXCEPT ![t] = entry[t].val]
  <2>1. RegisterResult'[t] = entry[t].val
    BY <1>0, <1>2 DEF RegisterResult
  <2> QED
    BY <1>0, <1>2, <2>1, SeenChange
<1>5. \E n \in RegisterSince[t] .. Len(History) :
         entry[t].val = Register!ValueAfter(n)
  <2>1. Len(HistoryOf(Committed, entry)) = LastVersion
    BY HistoryValues DEF RegisterInv, LastVersion
  <2>2. History = HistoryOf(Committed, entry)
    BY DEF History, HistoryOf
  <2> QED
    BY <2>1, <2>2, ReplyIsRecent DEF Register!ValueAfter, RegisterSince
<1> QED
  BY <1>0, <1>1, <1>2, <1>3, <1>4, <1>5
  DEF Register!Read, RegisterSince, RegisterResult

LEMMA RegisterStutters ==
    ASSUME RegisterInv, [Next]_vars,
           \A t \in Requests : ~Receive(t) /\ ~CommitPut(t) /\ ~ReplyToGet(t)
    PROVE  UNCHANGED Register!vars
<1>1. History' = History
  BY HistoryStep
<1>2. \A t \in Requests : SameRequest(t)
  BY UnseenSteps DEF RegisterInv, AgreementInv
<1>3. RegisterStatus' = RegisterStatus
  BY <1>2 DEF SameRequest, RegisterStatus
<1>4. RegisterSince' = RegisterSince
  BY <1>2 DEF SameRequest, RegisterSince
<1>5. RegisterResult' = RegisterResult
  BY <1>2 DEF SameRequest, RegisterResult
<1> QED
  BY <1>1, <1>3, <1>4, <1>5 DEF Register!vars, RegisterSince, RegisterResult

LEMMA RegisterInit == Init => Register!Init
<1> SUFFICES ASSUME Init PROVE Register!Init
  OBVIOUS
<1>1. Committed = {} /\ Cardinality({}) = 0
  BY FS_EmptySet DEF Init, Committed, Requests
<1>2. History = << >>
  BY <1>1 DEF History
<1>3. RegisterStatus = [t \in Requests |-> "idle"]
  BY DEF Init, RegisterStatus
<1>4. RegisterSince = [t \in Requests |-> 0]
  BY <1>1 DEF Init, RegisterSince
<1>5. RegisterResult = [t \in Requests |-> NoValue]
  BY <1>3 DEF RegisterResult
<1> QED
  BY <1>2, <1>3, <1>4, <1>5
  DEF Register!Init, Register!Requests, Requests, RegisterSince, RegisterResult

\* The replicated store implements the atomic register: clients cannot tell it
\* from one in which every put and every get happens at one instant.
THEOREM StoreIsLinearizable ==
    ASSUME FrontendsApart, BackoffOutlastsDelivery
    PROVE  Spec => Linearizable
<1>1. RegisterInv /\ [Next]_vars => [Register!Next]_(Register!vars)
  BY ReceiveArrives, CommitWrites, ReplyReads, RegisterStutters
  DEF Register!Next, Register!Requests, Requests
<1> QED
  BY <1>1, RegisterInit, RegisterInvInit, RegisterInvStep, PTL
  DEF Spec, Linearizable, Register!Spec
=============================================================================
