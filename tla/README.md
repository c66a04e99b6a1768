# A verification project for the quorum-replicated datastore

TLA+ modules, TLC configurations and TLAPS proofs for the leaderless datastore of
this repository: N replica processes, a `put` that runs a two-phase commit on a
write quorum, a `get` that reads a read quorum and repairs it. Source paths below
are relative to `src/server/internal/` of the repository unless they say otherwise.

## 1. The system

| component | state | operations | interacts with |
|---|---|---|---|
| Coordinator (`Coordinator.cpp`) | `uid`, `abort`, `values`, `version`, `replies` | `put`, `get`, `sync`, `voteCommit`, `voteAbort`, `addValue` | datastore and registries of its replica; participants over connections |
| Participant (`Participant.cpp`) | `uid`, `abort`, `timestamp` | `prepare2PC`, `globalCommit`, `globalAbort` | datastore of its replica, the coordinator |
| Replica (`Replica.cpp`) | `coordinators`, `participants` (one map per kind, by key), `replicaTS`, `synchronizing`, `alive` | `add/get/removeCoordinator`, `add/get/removeParticipant`, `getNewReplicaTS`, `acceptRequest`, `start`, `shutdown` | all threads of the process |
| DatastoreManager | `datastore`, `owner2pc`, `pending`, `stop`, the file | `get`, `getStatus`, `prepare`, `commit`, `abort`, `tryUpdate`, `load`, `initialize`, `close`, the thread `dump` | called by every connection thread |
| Server messages (`messages/*.cpp`) | - | `manage` of each message; parsing and printing | run by the thread that receives them |
| ReplicaConnectionHandler, Connection | `connections`, buffers, `connectionOpen` | `open`, `close`, `connectTo`, `send`, `receive` | sockets |
| ServerConfig | quorums, addresses, replica number | `initialize`, `parseArguments` | read by Replica at start |
| Client (`src/client`) | one connection | `put`, `get`, reconnect | one replica |
| Regex, Message (`src/common`), Logger, mains, `start.py` | - | text and terminal I/O | - |

Every message from a client or from another replica is handled by the receiving
thread of its connection; a coordinator starts one thread per contacted replica
that sends and waits for the reply. So everything below interleaves: client
requests, prepares, votes, decisions, fetches and repairs at all replicas, and the
writer thread of each datastore.

What is hard, and what makes each component correct:

- **Put** (Coordinator, Participant, registries): coordinators contend, a
  participant may be ready while another refuses, the coordinator acknowledges
  before the participants have committed, and a failed put is tried again by the
  same Coordinator object with the same identifier. Correct when committed puts get
  distinct versions, stay at a write quorum, and aborted ones leave no trace, no
  lock and no handler.
- **Get**: runs beside puts, repairs what it read with messages that ignore the
  lock and may be late. Correct when it returns a value the key had between its
  arrival and its reply.
- **Identifiers**: must name one transaction, or a GLOBAL_ABORT hits another one.
- **DatastoreManager**: the lock has one owner; the writer thread copies in one
  step and writes in another, beside commits and repairs. Correct when the file is
  never ahead of the memory, never goes back, and has everything after a close.
- **ServerConfig**: correct when accepted quorums intersect whatever the file says,
  and valid input is neither changed nor refused.
- **Start-up synchronisation**: the joining replica holds back votes while others
  wait for them. Correct when it ends and what was missed is there.
- **Framing** (`Connection::receive`): messages arrive in pieces of any size.
  Correct when exactly the messages sent are handled, once each and in order.
- **Stopping**: a coordinator or participant that goes away in mid-transaction, and
  comes back with what its file had. Correct when nobody waits for it for ever, what
  was acknowledged is still there, and nothing undecided comes to light.
- **Command line**: options, values and repetitions in any order. Correct when a
  server starts only as the replica it was told to be.

`PROJECT.json` lists these as hazards, each at its line, with the properties that
cover it.

## 2. Modules

| module | models | state and actions |
|---|---|---|
| `VersionedEntry` | one entry of the datastore map | the operators `CommitEntry` (`commit`), `TryUpdateEntry` (`tryUpdate`) and `Latest` (`getLatestValue`), shared by `QuorumStore`, `StartupSync`, `StoreWithStops` and `DatastoreManager` |
| `QuorumStore` | Coordinator, Participant, the registries and identifiers of Replica, the `manage` of every message of a put and a get, the lock and entry of each datastore, for one key | below |
| `AtomicRegister` | what the store promises a client, abstractly: puts take effect and gets read at one instant between arrival and reply | refined by `QuorumStore` (`Linearizable`) |
| `DatastoreManager` | one datastore with its file, writer thread, close and restart, for several keys | `Prepare`, `Commit`, `Abort`, `TryUpdate`, `Open`, `Close`, and `dump` cut into five steps |
| `StartupSync` | the start of replicas beside puts: `Replica::start`, `acceptRequest`, `Coordinator::sync`, `Sync`, `Update` | `Listen`, `StartSync`, `ReceiveUpdate`, `Serve` at a replica that starts; `HandleSync`, `ReadForSync` at one that is asked; the locks, votes and decision of a put |
| `CommandLine`, `ServerConfig` | the constructor of `ServerConfig`: `parseArguments`, then `initialize` on a stream of tokens | `ReadOption` and `ReadArgument`, the loop of `parseArguments`, in `CommandLine`; `UseArguments`, one action for each read of a token, then `Check` |
| `Framing` | one direction of a connection: `send`, `recv` with its pieces, and the buffers of `Connection::receive`; the client's are the same | `Send`, `SenderCloses`, `Recv`, `RecvEnd`, and a round of the loop as `KeepLine` or `HandleMessage` |
| `MessageStream` | what a connection promises its callers, abstractly: each `receive` handles the next message | refined by `Framing` (`ReliableStream`) |
| `StoreWithStops` | puts among replicas that are stopped and started again: the two-phase commit with ends of connections, `Replica::shutdown`, the file, `start.py` | below |
| `MC*` | values of the constants for TLC | - |
| `QuorumStoreProofs`, `QuorumAgreementProofs`, `QuorumRegisterProofs` | theorems about `QuorumStore`: its locks, what its replicas agree on, the refinement of `AtomicRegister`; each extends the one before | - |
| `DatastoreManagerProofs`, `StartupSyncProofs`, `StoreWithStopsProofs`, `ServerConfigProofs`, `FramingProofs` | theorems about the module of that name | - |

### QuorumStore

The code never relates two keys, except that they share `replicaTS`; one key is
modelled. `phase[t]` is where the thread of client request `t` stands in
`Put::manage` or `Get::manage`: `waiting` polls `addCoordinator`, `registered` is in
the registry, `local` has the local lock (put) or value (get), `gathering` waits in
`sendToReplicas`, `failed` is the catch block, `replied` a get between VALUE and the
repairs, `leaving` before `removeCoordinator`. A connection `l = <<t, a, q>>` is the one
attempt `a` of `t` opens to replica `q`. Both sides of a connection take turns,
so its state is one stage `link[l]`, the last message sent or handled on it, with the
`payload` that message carries. `entry[t]` is the coordinator's version (put) or
the latest of `values` (get); it survives a retry, as in the code.

Each action is one critical section of the code, or what runs up to the next point
where another thread can see a difference. Every message may be delayed for any
time. Five things are worth knowing when reading it against the code:

- `AddCoordinator` carries the guard `EarlierLinksClosed` when
  `BackoffOutlastsDelivery` is TRUE: the back-off of 100 ms to 1 s is assumed to be
  longer than the delivery of the messages of the failed attempt. Nothing in the
  code enforces it. Without it a GLOBAL_ABORT to a replica that has refused, which
  `docs/messages.md:147` says is discarded, can arrive after the retry, which has the
  same identifier, has registered a participant there: it flags that participant
  (`GlobalAbort.cpp:31`), which then aborts on GLOBAL_COMMIT (`LateAbort` with the
  constant FALSE).
- `Reachable` are the replicas that accept every connection; any other may refuse one
  at any time (`ConnectionFails`), after which the local lock has to be given back.
- The identifiers start at `r + N - 1`, as `start` has used the first one for the
  Coordinator of the synchronisation, and advance by `getReplicasAmount`, N - 1.
- `tryUpdate` compares an iterator that was never assigned with `end()`. In
  libstdc++ and libc++ a default iterator of an unordered map is null and equal to
  `end()`, so the emplace branch runs, which keeps an entry that is there: this is
  what `TryUpdateEntry` says.
- `PrepareLocally` and `PrepareParticipant` keep the branch for a lock that is taken;
  `LockDiscipline` shows that it never is.

The runs have read quorums of two. With a read quorum of 1, which `ServerConfig`
keeps when W = N, `connectToQuorum` returns no connection, `Coordinator::get` takes
that for a failure and the get is tried for ever (`ConnectionFails`): `Quiescence`
holds only for quorums of two or more.

The replies counter is `Answered`; `repliesLock`, `coorParLock` and `datastoreMutex`
are the atomicity of the actions that take them.

### DatastoreManager

`dump` is cut at its reads of `stop`, of `pending` and of `pending` again, because
`commit` sets the flag under `datastoreMutex` alone; `tryUpdate` waits for
`pendingMutex` (`MayUpdate`). `Open` is a start of the process: the old one's memory,
locks and calls are gone, the file stays. Writing the file is one step: a process
killed inside the write is not modelled.

### StartupSync

`stage[r]` follows `Replica::start`: `down`, `listening` (`open` has returned),
`synchronizing`, `serving` (`synchronized`). A connection `<<r, q>>` of the
synchronisation goes from `sync` to `reading` (the loop of `Sync::manage`, one key at a
time) to `closed`, when UPDATE has been applied. `asked` is the content of SYNC,
`answer` that of UPDATE. `connectToQuorum` gets the number of addresses, N - 1, and
leaves one out for the replica itself, which is not among them: N - 2 are asked
(`AmountToAsk`). What matters of a put here is who waits for whom, so one lock stands
for the registry entry and the datastore's owner (`LockDiscipline` says that they
coincide), a failed attempt is tried again once its connections are closed, and gets
and repairs are left out.

`StartsUnlessAwaited` is as much as the code guarantees: a replica that synchronises
serves in the end *unless* a coordinator waits for its vote. With such a vote pending
three threads can wait for each other (`StartupSyncAwaited`), and the key stays locked.
`KeysLearned` holds because a key at W replicas is at W - 1 of those asked at least;
that entries loaded from the file are not refreshed by UPDATE is the behaviour
of `tryUpdate` that `QuorumStoreStaleRepair` shows.

### CommandLine and ServerConfig

`parseArguments` keeps the last option in `key` until an argument follows
(`foundKey`), and `emplace` keeps the first value of an option. An argument that
starts with a dash is an option, so a negative number is one too. `-l`, which
`start.py` gives, becomes `load`, but the constructor looks for `load-datastore`
(`ServerConfig.cpp:21`, `:52`): `-l 0` does not keep the datastore from being loaded.
`ClientConfig::parseArguments` is the same function.

A token of the file is a word with, for a number, its value. The file ends with a
newline, so `eof` is set only by a read that finds nothing. `portKnown` stands for the
assignment of `port`. Two things the model shows beyond its properties: replica
numbers N and N + 1 are accepted with the port unassigned (`ServerConfig.cpp:116`
compares with `replicas.size() + 1`, but the vector then holds all N servers), and a
file with the servers first is refused, because `processServers` consumes the
`config:` token.

### Framing

A byte is a position in a message, so that bytes are never equal by chance; `wire` is
what was sent and not received, `buffer` and `partial` are `bufferContent` and
`partialMsg`. `handled` records what was given to `toMessage`, and `returned` how often
`receive` has returned, which is what its callers count. A `receive` called while a
message is handled (`prepare2PC`) returns before the outer one, so one loop is enough.

With `AnySegmentation = FALSE` the pieces `recv` returns are those the code puts
together again; `ReliableStream` and `BytesConserved` hold for them. They exclude

- a piece that ends between the escape character and the newline, after which
  `receive` returns without a message (`FramingSplit`);
- a message in three pieces: the second replaces the first (`Connection.cpp:62`);
- a piece that fills the 256 bytes: no NUL is left behind it, and `+=` reads on
  (`Overrun`).

TCP promises none of this; a message shorter than the buffer that is written in one
`send` usually arrives so. A message longer than two reads never does.

### StoreWithStops

`stage[r]` is where the process of a replica stands: `up`; `closing`, when
`ReplicaConnectionHandler::close` has returned; `saved`, when `DatastoreManager::close`
has; `down`; `starting`, until `synchronized`. A put has one connection `<<t, q>>` for
each replica it contacts, with one stage as in `QuorumStore`; `cut` and `hungUp` are the
connections that the participant and the coordinator have closed. Registry and lock of
a replica are one (`LockDiscipline` says that they coincide; `Busy` has the
coordinator that stays registered between its commit and its end), and the
synchronisation is one step. What a stop does is kept in full:

- `CloseConnections` closes what the replica has accepted, and of what it has opened
  the first connection to each address (the map `connections` keeps the first), while
  its threads go on. From then on `send` does nothing, `receive` on a closed connection
  throws if it has been called before and *returns at once* if not. So a participant
  may commit a value that nobody decided (`CommitUnasked`), with its local version, and a
  coordinator may take the silence for votes (`CommitPut` with links in `hungUp`): it
  commits without the participants, but neither GLOBAL_COMMIT nor ACK leave.
- A participant whose coordinator has gone keeps its lock and its registration
  (`ParticipantReceiveFails`, `orphaned`): the key is blocked there until that replica
  is started again.
- GLOBAL_ABORT to a participant that has reset the connection ends the coordinator's
  process by SIGPIPE (`BrokenPipe`).
- `start.py` may start a process before the old one has saved (`RestartAtOnce`): the
  writer thread sleeps up to five seconds (`Replica.cpp:31`) while the port is free.

A value that a stopped participant has committed on its own has version 0 when the key
is new: gets leave it out (`Coordinator.cpp:25`), but it keeps UPDATE and REPAIR from
adding the real one, since `tryUpdate` keeps what is there.

## 3. Runs

| run | instance | shows |
|---|---|---|
| `QuorumStoreSafety` | N = 3, R = W = 2, two front ends, replicas 1 and 2 may refuse connections, two puts with up to two attempts, one get | `LockDiscipline`, `CommitReachesQuorum`, `VersionsUnique`, `OnlyCommittedStored`, `UidsUnique`, `StoreGrows`, and the refinement `Linearizable`; no deadlock |
| `QuorumStoreWriteAll` | W = 3, R = 2, one attempt, fair | what only several participants show: one ready, one refusing; and `Quiescence`: the get is answered, the puts settle, nothing stays behind |
| `DatastoreManagerShared` | two transactions and two repairs on two keys, versions up to 3, one restart, fair | `LockedByPrepared`, `FileNotAhead`, `FileGrows`, `CloseReturns` |
| `StartupSync` | N = 4, W = 3, replicas 2 and 3 start at any time, two puts at replica 0, fair | `KeysLearned`, `CommitsKept`, `VersionsGrow`, `StartsUnlessAwaited` |
| `ServerConfigFiles` | all files of two sections with up to two entries and four servers (also with the config section twice), all replica numbers from -1 to 5, given as `start.py` does; every command line of up to four of eight arguments with four files | `OptionsObeyed`, `QuorumsIntersect`, `ValidQuorumsKept`, `DocumentedAccepted` |
| `Framing` | six messages of 1 to 4 bytes, a buffer of 6, fair | `BytesConserved` and the refinement `ReliableStream` of `MessageStream`, with its liveness |
| `StoreWithStops` | N = W = 3, two front ends, two puts, one replica stopped at any moment and started again, fair | `LocksExplained`, `AckedKept`, `AckedVersionsUnique`, `OnlyDecidedVisible`, `GatheringEnds` |

Runs that end in a violation, each of a statement the repository makes:

| run | statement | what the code does |
|---|---|---|
| `QuorumStoreUidCollision` | GLOBAL_COMMIT makes replicas commit (`docs/messages.md:171`) | replicas 0 and N - 1 give the same identifiers (`Replica.cpp:113`); one's GLOBAL_ABORT makes the other's participant abort an acknowledged put |
| `QuorumStoreStaleRepair` | REPAIR repairs a stale value (`docs/messages.md:189`, `DatastoreManager.cpp:220`) | an entry that is there is kept (`DatastoreManager.cpp:235`) |
| `StartupSyncAwaited` | SYNC is answered by UPDATE (`docs/messages.md:227`) | a put waits for the vote of the replica that starts (`Prepare.cpp:34`), and the answer to its SYNC for the put's lock (`Sync.cpp:64`) |
| `DatastoreManagerLostWrite` | close saves all data (`DatastoreManager.cpp:22`) | a commit between two reads of `pending` is not written (`DatastoreManager.cpp:83`) |
| `FramingSplit` | `receive` handles a single message (`connectivity/Connection.cpp:30`) | a newline that comes in a read of its own makes it return without one (`Connection.cpp:95`) |

### Bounds

Three replicas with quorums of two is the smallest cluster in which quorums
overlap without being everything; W = 3 adds transactions with two participants.
Two puts give every pairwise conflict (refused at the coordinator's replica, refused
at a participant, one after the other), and two attempts a retry that meets what the
first attempt left. `Frontends = {0, 1}` in the safety runs leaves out replica N - 1,
whose identifiers collide with those of replica 0; the runs hold what the code
guarantees without that collision and `QuorumStoreUidCollision` shows the collision.
A get's lower bound in `AtomicRegister` is the number of puts that had taken effect
when it arrived, and an earlier get cannot have returned a later one, so one get
suffices for the order among gets. `MaxAttempts` bounds only attempts that open
connections; the others leave no state behind and loop. Puts are symmetric in the
safety runs; no symmetry is used with liveness.

In `QuorumStoreSafety` only replica 0 accepts every connection, so that the refusals
of the others, in any combination, leave puts without a quorum.

The messages of `Framing` are as long as the buffer or shorter, so that they come
alone, several in one read, or in two pieces with others before and behind. In
`StoreWithStops` one stop is enough for each role (coordinator, participant, both,
the replica that was to be asked for the synchronisation), and two puts for what one
leaves for the other; with a second stop the run does not end in minutes. `AckedVersionsUnique`
and `AckedKept` leave out what a replica that ended without saving had acknowledged:
with as many early restarts as replicas that value is lost everywhere and its version
given again. The write quorum is
everybody because the code promises less otherwise: with W < N a replica that voted, was
stopped before the decision and started again from its file votes with its old
version, and when it is all that two quorums share, two acknowledged puts get the same
version. The repository's `README.md:21` assumes reliable processes; nothing in the
code restores the votes.

In `StartupSync` four replicas are needed for a replica to ask two others, whose
answers may arrive in either order around a commit; with two that start, they ask each
other. The files left by former runs are one placement with a put that missed the
replica that serves the clients and a key that is missing at a replica that starts. Two
puts of one key suffice for a refused vote, and for a commit on either side of UPDATE.

### Fairness

`WF` of each coordinator thread and each connection: threads are scheduled, and the
polls (`addCoordinator`, the lock in `Fetch::manage` and `Coordinator::get`) are
repeated. Weak fairness suffices since requests are finitely many: a registry or a
lock that is always free again for good is enabled for good. The arrival of a request
is not fair. With an endless stream of puts a poll may starve: nothing queues.
In `StartupSync` starting a replica and sending a put are not fair; once it listens, a
replica goes on, and the polls of `Sync::manage` and `acceptRequest` are repeated.
In `StoreWithStops` the coordinators, the connections, a shutdown that has begun and
the polls of a replica that starts are fair; clients, stops and starts are not, and
neither is what happens only by chance (`CommitUnasked`, `BrokenPipe`). In `Framing` the
receiving thread is: as TCP delivers what was sent and then the end of the stream,
`recv` always returns. For the datastore, `WF(Dump)`: the writer thread runs; `Close` and the calls are not
fair.

## 4. Proofs

Every safety property that a passing run checks is proved, for every value of the
constants that satisfies the assumptions of its module: any number of replicas,
requests, attempts, keys, stops, messages and file entries. What a theorem assumes
beyond that is named in its statement.

### QuorumStore

`QuorumStoreProofs`: `TypeCorrect` and `LockDisciplineHolds`. `LockDiscipline` says of
each replica who holds its lock; it is not inductive, since nothing in it says
which stages a link can be in while its request is in a given phase. `HandlerInv`
adds `LinkInv` (what kinds of stages links of puts and gets have, that links of
later attempts are unused, that a coordinator waits in `gathering` for exactly
its links, that a refusal sets `abort`) and that the registries contain exactly
the handlers in the corresponding phases and stages. It needs neither intersecting
quorums nor unique identifiers nor the assumption on the back-off: the locks are
right even where the abort of another transaction is obeyed.

`QuorumAgreementProofs` goes up in layers, each an invariant on top of `HandlerInv`:

1. `EntryInv`: an entry in a store, in a get or on a link is absent or the entry of a
   committed put. It gives `OnlyCommittedIsStored` and `StoresGrow` with no further
   assumption.
2. `UidInv`: the counter of a replica `r` is `r` plus a multiple of N - 1, and
   identifiers in use are below it. Two counters meet only if their replicas are N - 1
   apart: `UidsAreUnique` assumes `FrontendsApart`, that not both replica 0 and
   replica N - 1 serve clients.
3. `FlagInv`: a GLOBAL_ABORT is on its way only to participants of a failed attempt,
   and flags no other. This is where both hypotheses of the rest are needed:
   `FrontendsApart`, or it flags a participant of another put
   (`QuorumStoreUidCollision`), and `BackoffOutlastsDelivery`, or it flags the
   participant of the retry.
4. `QuorumInv` and `VotersHold`: behind a committed put stand W voters, each of which
   has the entry or a newer one, or has GLOBAL_COMMIT on its way and is not flagged.
   This gives `CommitsReachQuorum` and `GlobalCommitsCommit`.
5. `KnowledgeInv`: a vote or a fetched value carries at least the versions of what was
   committed before its replica was locked or read. Two write quorums share a
   replica, which can be locked for one put only, so the later coordinator has heard
   of the earlier put: `VersionsAreUnique`.

`QuorumRegisterProofs`: `StoreIsLinearizable`, the refinement `Linearizable`, with the
same two hypotheses. The history of the register is the set of committed puts in the
order of their versions. It is a sequence because the versions are 1, 2, ... without
a gap (`VersionsBounded`): the next version is one more than the highest known, and
a commit appends to the history (`CommitWrites`). That a get reads at an instant
between its arrival and its reply is `KnowledgeInv` for read quorums (`ReplyReads`). All
other steps are arrivals or stutter.

### DatastoreManager

`TypeCorrect`, `LocksHeld`, `FileBehind` and `FileOnlyGrows`. `FileInv`
strengthens `FileNotAhead` with what the writer holds: between the second
read of `pending` and the write, a round that has seen the flag has a copy that
lies between the file and the memory, because only the writer resets the flag.

### StartupSync

`SyncInv` has the locks (`LockInv`: the owners of a key at a replica are the puts
that need it there, one at most), where participants stand relative to their
puts, that a gathering put has asked W replicas, that only replicas that serve take
locks, and that a commit on its way to a replica is newer than what is there.

- `StoresOnlyGrow`: from `SyncInv` and what UPDATE may add.
- `AcknowledgedIsKept`: the keepers of a put are its voters, none of which goes back.
- `StartedReplicasKnow` (`KeysLearned`): of the N - 1 others all but one are asked, so at
  least one that is asked has what a write quorum has (`AskedHolds`); from then on
  `OwedInv` follows the key through SYNC, the loop of `Sync::manage` and UPDATE. It
  assumes `FilesCommitted`: versions in the files are 1 or more, which is what
  `Coordinator::put` gives. With version 0 in a file SYNC could not tell the entry from
  one that is not there.

### StoreWithStops

`StopsInv` says of every stage of a process what its coordinators and participants can
be in: where a put's home is, which ends of connections are cut or hung up, who has
the lock, and, for a decision, that the coordinator and each contacted participant have
it, are about to commit it, have been hung up, or ended without saving (`DecisionInv`).

- `LocksHaveHolders` (`LocksExplained`), `AcknowledgedIsKept` (`AckedKept`) and
  `VisibleIsDecided` (`OnlyDecidedVisible`) hold for any write quorum and any number of
  stops, also of all replicas at once.
- `AcknowledgedVersionsDiffer` (`AckedVersionsUnique`) assumes `WriteQuorum = N`; section 3
  says why it is false otherwise. Its invariant `VersionsInv` adds that a put has
  asked all replicas (`AskedInv`), that of two puts that gather at different replicas one
  lacks the vote of the other's home (`CrossInv`), and that a put which has the vote of
  the home of one that is, or can still be, acknowledged takes a version that is no
  lower (`AboveInv`).

### CommandLine and ServerConfig

- `ServerTypeCorrect`, whose invariant also counts sections and entries (`Counted`), and
  `AcceptedQuorumsIntersect`: whatever the file, an accepted configuration satisfies
  `QuorumAssumption` of `QuorumStore`.
- `FirstOptionsCount` (`OptionsObeyed`): `ArgumentsInv` says that what `emplace` has kept so
  far is the first argument of each option in the part of the line that was read.
- `GivenQuorumsKept` and `DocumentedFilesStart`: `DocumentInv` says, for a file in the
  documented form, at which place of it the reader is in each state, and which
  quorums and how many servers it has by then.

### Framing

All with `~AnySegmentation`, the pieces that section 2 lists as those the code puts together
again; with any pieces `FramingSplit` and section 2 show that they are false.
`FramingInv` adds to `BytesConserved` what is kept: `partial` is the beginning of a text,
the buffer does not end with an escape character, and when something is kept the
buffer has the newline. So a newline in the buffer always ends the next message,
and a line without one ends nothing (`BufferedLine`). `TypeCorrect`, `NoByteIsLost`,
`OneMessageEach` (`receive` returns once for each message: what `FramingSplit` refutes
holds here) and `StreamRefines`, the refinement of `MessageStream` without fairness.
`FlattenSeq`, by which `BytesFrom` is defined, is unfolded by induction on the number of
messages.

### Induction

The library's induction theorems take an operator as a parameter, which the provers cannot
instantiate. Where a proof needs induction on a number or on a finite set
(`MaxOfNaturals`, `NaturalsBySteps`) it is stated for a *set*
instead: finite subsets are well-founded under inclusion (`WFMin` and
`FS_StrictSubsetOrderingWellFounded`), so a set of numbers with 0 and with the successors of
its members has them all.

### Only model-checked

Liveness (`Quiescence`, `CloseReturns`, `StartsUnlessAwaited`, `GatheringEnds`, and the
fairness part of `ReliableStream`) is out of the prover's reach. The properties of the
violating runs are false for the constants given there; `GlobalCommitCommits` and
`OneMessagePerReceive` are proved for the others.

## 5. Not modelled

- The text of messages: regular expressions, printing, and `stoi` on 64-bit numbers,
  without state; and the unused Logger.
- The terminal programs but for stopping and starting, the list of servers that
  `ClientConfig` reads, and the client's operations: loops over words.
- Errors of the socket calls (`open`, `bind`, `socket`; `connectToReplica` loops for ever
  when no socket can be created), the descriptors that stay open, and the
  unlocked `connections` map: a data race inside a container.
- A process that is killed while it writes its file, a signal while a replica starts,
  and transaction identifiers across restarts.
- `QuorumStore` assumes that replicas have finished their synchronisation, and neither
  stop nor lose messages (the repository's `README.md:21`, "Processes and links are
  reliable"); `StartupSync` and `StoreWithStops` drop the first and the second of these
  for puts, not for gets.

## 6. Plan

The models are complete in the sense of section 5 and their safety properties are
proved. What would say more:

1. The safety half of the liveness properties: for each state in which somebody waits,
   that the step that ends the wait is there (its guard holds for some choice), stated as
   an invariant without ENABLED. For `Quiescence`: a gathering coordinator whose
   connections are not all answered has one that can move.
2. `StoreWithStops` with W < N: distinct versions as long as no replica that voted for an
   acknowledged put is stopped before its decision.
3. `CloseReturns`: the measure that decreases with each step of the writer, as an action
   property.
