---------------------------- MODULE ServerConfig ----------------------------
(***************************************************************************)
(* The constructor of ServerConfig: the command line is parsed, then the   *)
(* configuration file is read token by token (file >> tmp), and the quorums *)
(* are corrected.  The file, which can be opened, is a sequence of tokens  *)
(* that ends with a newline.                                               *)
(***************************************************************************)
EXTENDS CommandLine

CONSTANT
    Starts        \* the command lines and configuration files considered

\* A token, with its integer value when it is a number.
Words == {"config:", "servers:", "-", "read_quorum:", "write_quorum:",
          "number", "other"}
Tokens == [word : Words, value : Int]

ASSUME StartsAssumption ==
    Starts \subseteq [line : Seq(Arguments), file : Seq(Tokens)]

VARIABLES
    file,          \* the tokens not yet read
    configured,    \* the whole file
    commanded,     \* the whole command line
    replicaId,
    loadDatastore,
    readQuorum,
    writeQuorum,
    replicas,      \* size of the vector: the servers but the replica's own
    index,         \* servers read in this section
    portKnown,     \* whether port has been assigned
    sections,      \* sections processed
    entries,       \* quorum entries processed in this section
    name,          \* the quorum entry whose value is read next
    state          \* what is read next, or the outcome

startVars == <<lineVars, configured, commanded, replicaId, loadDatastore>>
vars == <<startVars, file, readQuorum, writeQuorum, replicas,
          index, portKnown, sections, entries, name, state>>

States == {"arguments", "loop", "config", "name", "value", "servers", "server", "check",
           "accepted", "refused"}

TypeOK ==
    /\ LineOK
    /\ file \in Seq(Tokens)
    /\ configured \in Seq(Tokens)
    /\ commanded \in Seq(Arguments)
    /\ replicaId \in Int
    /\ loadDatastore \in BOOLEAN
    /\ readQuorum \in Int
    /\ writeQuorum \in Int
    /\ replicas \in Nat
    /\ index \in Nat
    /\ portKnown \in BOOLEAN
    /\ sections \in 0 .. 2
    /\ entries \in 0 .. 2
    /\ name \in {"read_quorum:", "write_quorum:"}
    /\ state \in States

Init ==
    /\ \E s \in Starts :
          /\ configured = s.file
          /\ commanded = s.line
          /\ InitLine(s.line)
    /\ file = configured
    /\ replicaId = 0              \* until the command line has been read
    /\ loadDatastore = TRUE
    /\ readQuorum = 0
    /\ writeQuorum = 0
    /\ replicas = 0
    /\ index = 0
    /\ portKnown = FALSE
    /\ sections = 0
    /\ entries = 0
    /\ name = "read_quorum:"
    /\ state = "arguments"

-----------------------------------------------------------------------------
AtEnd == file = <<>>

NextIs(word) == ~AtEnd /\ Head(file).word = word

\* The next token is read; at the end of the file tmp keeps its value.
Consume == file' = IF AtEnd THEN file ELSE Tail(file)

\* An exception is thrown, "Config file is incomplete." for instance.
Refuse(why) ==
    /\ why
    /\ state' = "refused"
    /\ UNCHANGED <<startVars, file, readQuorum, writeQuorum,
                   replicas, index, portKnown, sections, entries, name>>

ParseArguments ==
    /\ state = "arguments"
    /\ ReadOption \/ ReadArgument
    /\ UNCHANGED <<file, configured, commanded, replicaId, loadDatastore, readQuorum,
                   writeQuorum, replicas, index, portKnown, sections, entries, name,
                   state>>

\* The constructor.  -l, which start.py gives, stands for "load", and that is not
\* looked up.
UseArguments ==
    /\ state = "arguments"
    /\ line = <<>>
    /\ arguments["replica"].kind = "number"
    /\ replicaId' = arguments["replica"].value
    /\ loadDatastore' = \/ arguments["load-datastore"].kind # "number"
                        \/ arguments["load-datastore"].value # 0
    /\ state' = "loop"
    /\ UNCHANGED <<lineVars, file, configured, commanded, readQuorum, writeQuorum,
                   replicas, index, portKnown, sections, entries, name>>

\* loop: the tokens up to the next section are skipped.
Loop ==
    /\ state = "loop"
    /\ ~AtEnd
    /\ Consume
    /\ state' = IF NextIs("config:") THEN "config"
                ELSE IF NextIs("servers:") THEN "servers" ELSE "loop"
    /\ entries' = 0
    /\ index' = 0
    /\ UNCHANGED <<startVars, readQuorum, writeQuorum, replicas,
                   portKnown, sections, name>>

\* Mutant: sections are processed until the file ends.
AfterEverySection == IF file = <<>> THEN "check" ELSE "loop"

\* What follows a section: initialize processes two of them.
AfterSection == IF sections = 1 THEN "check" ELSE "loop"

\* processConfig and processServers return at the first token that is not a
\* "-", which they have then read.
LeaveSection ==
    /\ state \in {"config", "servers"}
    /\ ~NextIs("-")
    /\ Consume
    /\ sections' = sections + 1
    /\ state' = AfterSection
    /\ UNCHANGED <<startVars, readQuorum, writeQuorum, replicas,
                   index, portKnown, entries, name>>

EnterItem ==
    /\ state \in {"config", "servers"}
    /\ NextIs("-")
    /\ Consume
    /\ state' = IF state = "config" THEN "name" ELSE "server"
    /\ UNCHANGED <<startVars, readQuorum, writeQuorum, replicas,
                   index, portKnown, sections, entries, name>>

\* The name of an entry; an unknown one is skipped, but not its value.
ReadName ==
    /\ state = "name"
    /\ ~AtEnd
    /\ Consume
    /\ IF NextIs("read_quorum:") \/ NextIs("write_quorum:")
       THEN name' = Head(file).word /\ state' = "value"
       ELSE state' = "config" /\ UNCHANGED name
    /\ UNCHANGED <<startVars, readQuorum, writeQuorum, replicas,
                   index, portKnown, sections, entries>>

\* The value of an entry.  A value that stoi does not take leaves a read quorum
\* of 0, for the write quorum too.
ReadValue ==
    /\ state = "value"
    /\ Consume
    /\ CASE name = "read_quorum:" ->
              /\ readQuorum' = IF NextIs("number") THEN Head(file).value ELSE 0
              /\ UNCHANGED writeQuorum
         [] name = "write_quorum:" /\ NextIs("number") ->
              /\ writeQuorum' = Head(file).value
              /\ UNCHANGED readQuorum
         [] OTHER -> readQuorum' = 0 /\ UNCHANGED writeQuorum
    /\ IF entries = 1
       THEN sections' = sections + 1 /\ state' = AfterSection
       ELSE state' = "config" /\ UNCHANGED sections
    /\ entries' = entries + 1
    /\ UNCHANGED <<startVars, replicas, index, portKnown, name>>

\* Every server but the replica's own goes to the vector; that one gives the
\* port.
ReadServer ==
    /\ state = "server"
    /\ Consume
    /\ IF index # replicaId
       THEN replicas' = replicas + 1 /\ UNCHANGED portKnown
       ELSE portKnown' = TRUE /\ UNCHANGED replicas
    /\ index' = index + 1
    /\ state' = "servers"
    /\ UNCHANGED <<startVars, readQuorum, writeQuorum, sections,
                   entries, name>>

-----------------------------------------------------------------------------
\* Mutant: half of the replicas will do.
HalfWriteQuorum(w, r) ==
    IF w < (r + 1) \div 2 THEN (r + 1) \div 2 + 1
    ELSE IF w > r + 1 THEN r + 1 ELSE w

\* The write quorum for r other replicas: a majority of all, at most all.
CorrectWriteQuorum(w, r) ==
    IF w <= (r + 1) \div 2 THEN (r + 1) \div 2 + 1
    ELSE IF w > r + 1 THEN r + 1 ELSE w

\* Mutant: one more than what meets the write quorum is asked for.
EagerReadQuorum(q, w, r) ==
    IF q <= r + 2 - w THEN r - w + 3
    ELSE IF q > r + 1 THEN r + 1 ELSE q

\* The read quorum: enough to meet every write quorum w, at most all.
CorrectReadQuorum(q, w, r) ==
    IF q <= r + 1 - w THEN r - w + 2
    ELSE IF q > r + 1 THEN r + 1 ELSE q

\* Mutant: the largest replica numbers are refused.
IdInRangeStrict == replicaId >= 0 /\ replicaId < replicas

\* The test of the replica number.
IdInRange == replicaId >= 0 /\ replicaId <= replicas + 1

Check ==
    /\ state = "check"
    /\ replicas # 0
    /\ IdInRange
    /\ writeQuorum' = CorrectWriteQuorum(writeQuorum, replicas)
    /\ readQuorum' = CorrectReadQuorum(readQuorum, writeQuorum', replicas)
    /\ state' = "accepted"
    /\ UNCHANGED <<startVars, file, replicas, index, portKnown,
                   sections, entries, name>>

Next ==
    \/ ParseArguments
    \/ UseArguments
    \/ Loop
    \/ LeaveSection
    \/ EnterItem
    \/ ReadName
    \/ ReadValue
    \/ ReadServer
    \/ Check
    \/ Refuse(state = "arguments" /\ line = <<>> /\ arguments["replica"].kind # "number")
    \/ Refuse(state \in {"loop", "name"} /\ AtEnd)
    \/ Refuse(state = "check" /\ (replicas = 0 \/ ~IdInRange))

Spec == Init /\ [][Next]_vars

-----------------------------------------------------------------------------
\* Where the command line has an argument right behind an option that stands for n.
ArgumentsOf(n) ==
    {i \in 2 .. Len(commanded) :
        /\ commanded[i].kind # "option"
        /\ commanded[i - 1].kind = "option"
        /\ commanded[i - 1].name # NoKey
        /\ LongName(commanded[i - 1].name) = n}

FirstOf(n) == commanded[CHOOSE i \in ArgumentsOf(n) : \A j \in ArgumentsOf(n) : i <= j]

\* A server starts only as the replica that its first -r or --replica with an
\* argument names, and loads its datastore unless the first --load-datastore with an
\* argument says 0, however options without arguments, arguments without options and
\* repeated ones are mixed (parseArguments keeps the key between two rounds).
OptionsObeyed ==
    state \notin {"arguments", "refused"} =>
        /\ ArgumentsOf("replica") # {}
        /\ FirstOf("replica").kind = "number"
        /\ replicaId = FirstOf("replica").value
        /\ ~loadDatastore <=>
               /\ ArgumentsOf("load-datastore") # {}
               /\ FirstOf("load-datastore").kind = "number"
               /\ FirstOf("load-datastore").value = 0

Cluster == replicas + 1

\* Whatever the file says, the quorums a replica starts with are possible, two
\* write quorums meet, and a read quorum meets every write quorum.
QuorumsIntersect ==
    state = "accepted" =>
        /\ readQuorum \in 1 .. Cluster
        /\ writeQuorum \in 1 .. Cluster
        /\ readQuorum + writeQuorum > Cluster
        /\ 2 * writeQuorum > Cluster

\* The form of config/server.yaml: one entry for each quorum, then the servers.
DocumentedForm ==
    /\ Len(configured) >= 8 /\ Len(configured) % 2 = 0
    /\ [i \in 1 .. 8 |-> configured[i].word] =
          <<"config:", "-", "read_quorum:", "number",
            "-", "write_quorum:", "number", "servers:">>
    /\ \A i \in 9 .. Len(configured) :
          configured[i].word = IF i % 2 = 1 THEN "-" ELSE "other"

Listed == (Len(configured) - 8) \div 2
GivenRead == configured[4].value
GivenWrite == configured[7].value

\* Quorums given in the documented form are kept when they are valid already.
ValidQuorumsKept ==
    /\ state = "accepted"
    /\ DocumentedForm
    /\ GivenRead \in 1 .. Cluster
    /\ GivenWrite \in 1 .. Cluster
    /\ GivenRead + GivenWrite > Cluster
    /\ 2 * GivenWrite > Cluster
    => readQuorum = GivenRead /\ writeQuorum = GivenWrite

\* A file in the documented form is accepted for every server it lists, whatever
\* its quorums, and every one of those replicas has the port of its own server
\* and counts the same cluster.
DocumentedAccepted ==
    /\ DocumentedForm
    /\ Listed >= 2
    /\ arguments["replica"].kind = "number"
    /\ arguments["replica"].value \in 0 .. Listed - 1
    =>  /\ state # "refused"
        /\ state = "accepted" => portKnown /\ Cluster = Listed
=============================================================================
