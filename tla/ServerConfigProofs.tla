------------------------- MODULE ServerConfigProofs -------------------------
(***************************************************************************)
(* Theorems about ServerConfig, for every file, every replica number and   *)
(* every number of servers.                                                *)
(***************************************************************************)
EXTENDS ServerConfig, TLAPS

\* What the correction of the quorums returns, for any two integers in the file
\* and r other replicas.
LEMMA CorrectedQuorums ==
    ASSUME NEW q \in Int, NEW w \in Int, NEW r \in Nat, r # 0
    PROVE  LET cw == CorrectWriteQuorum(w, r)
               cq == CorrectReadQuorum(q, cw, r)
           IN  /\ cw \in 1 .. r + 1
               /\ cq \in 1 .. r + 1
               /\ cq + cw > r + 1
               /\ 2 * cw > r + 1
<1> DEFINE cw == CorrectWriteQuorum(w, r)
           cq == CorrectReadQuorum(q, cw, r)
<1>1. cw \in 1 .. r + 1 /\ 2 * cw > r + 1
  BY DEF CorrectWriteQuorum
<1>2. cq \in 1 .. r + 1 /\ cq + cw > r + 1
  <2> HIDE DEF cw
  <2> QED
    BY <1>1 DEF CorrectReadQuorum
<1> QED
  BY <1>1, <1>2

\* Only integers are read from the file.
LEMMA TokenValues ==
    ASSUME TypeOK, ~AtEnd
    PROVE  Head(file).value \in Int /\ Tail(file) \in Seq(Tokens)
<1>1. Head(file) \in Tokens /\ Tail(file) \in Seq(Tokens)
  BY DEF TypeOK, AtEnd
<1> QED
  BY <1>1 DEF Tokens

\* Reading an argument keeps the types of what was found.
LEMMA LineKept ==
    ASSUME LineOK, ReadOption \/ ReadArgument
    PROVE  LineOK'
<1>1. line # <<>> /\ line \in Seq(Arguments)
  BY DEF LineOK, ReadOption, ReadArgument
<1>2. Head(line) \in Arguments /\ Tail(line) \in Seq(Arguments)
  BY <1>1
<1>3. CASE ReadOption
  <2>1. Head(line).name \in Names \cup {NoKey}
    BY <1>2 DEF Arguments
  <2> QED
    BY <1>2, <1>3, <2>1 DEF LineOK, ReadOption
<1>4. CASE ReadArgument
  <2>1. arguments' \in [Names -> Arguments \cup {NotGiven}]
    BY <1>2, <1>4 DEF LineOK, ReadArgument, Emplace
  <2> QED
    BY <1>2, <1>4, <2>1 DEF LineOK, ReadArgument
<1> QED
  BY <1>3, <1>4

LEMMA GivenInteger ==
    ASSUME LineOK, NEW n \in Names
    PROVE  arguments[n].value \in Int
BY DEF LineOK, Arguments, NotGiven

\* The bounds on the sections and the entries hold because of where the reader
\* stands.
Reading == {"loop", "config", "name", "value", "servers", "server"}

Counted ==
    /\ state = "arguments" => sections = 0 /\ entries = 0
    /\ state \in Reading => sections \in 0 .. 1
    /\ state \in {"config", "name", "value"} => entries \in 0 .. 1

LEMMA TypeOKInit == Init => TypeOK /\ Counted
<1> SUFFICES ASSUME Init PROVE TypeOK /\ Counted
  OBVIOUS
<1>1. /\ configured \in Seq(Tokens)
      /\ file \in Seq(Tokens)
      /\ commanded \in Seq(Arguments)
      /\ LineOK
  BY StartsAssumption DEF Init, InitLine, LineOK
<1>2. portKnown \in BOOLEAN /\ loadDatastore \in BOOLEAN
  BY Zenon DEF Init
<1>3. sections \in 0 .. 1 /\ entries \in 0 .. 1 /\ replicas \in Nat /\ index \in Nat
  BY DEF Init
<1>4. state \in States /\ name \in {"read_quorum:", "write_quorum:"}
  BY DEF Init, States
<1>5. readQuorum \in Int /\ writeQuorum \in Int /\ replicaId \in Int
  BY DEF Init
<1>6. state = "arguments" /\ sections = 0 /\ entries = 0
  BY DEF Init
<1> QED
  BY <1>1, <1>2, <1>3, <1>4, <1>5, <1>6 DEF TypeOK, Counted, Reading

LEMMA TypeOKStep == TypeOK /\ Counted /\ [Next]_vars => TypeOK' /\ Counted'
<1> SUFFICES ASSUME TypeOK, Counted, [Next]_vars PROVE TypeOK' /\ Counted'
  OBVIOUS
<1> USE DEF Counted, Reading
<1>0. Consume => file' \in Seq(Tokens)
  BY TokenValues DEF Consume, TypeOK
<1>a. UNCHANGED startVars =>
         LineOK' /\ UNCHANGED <<configured, commanded, replicaId, loadDatastore>>
  BY DEF startVars, lineVars, LineOK, TypeOK
<1>10. CASE ParseArguments
  <2>1. LineOK'
    BY <1>10, LineKept DEF ParseArguments, TypeOK
  <2> QED
    BY <1>10, <2>1 DEF ParseArguments, TypeOK
<1>11. CASE UseArguments
  <2>1. replicaId' \in Int
    BY <1>11, GivenInteger DEF UseArguments, TypeOK, Names
  <2>2. loadDatastore' \in BOOLEAN
    BY <1>11, Zenon DEF UseArguments
  <2>3. LineOK'
    BY <1>11 DEF UseArguments, lineVars, LineOK, TypeOK
  <2> QED
    BY <1>11, <2>1, <2>2, <2>3 DEF UseArguments, TypeOK, States
<1>1. CASE Loop
  BY <1>a, <1>0, <1>1 DEF Loop, TypeOK, States
<1>2. CASE LeaveSection
  BY <1>a, <1>0, <1>2 DEF LeaveSection, TypeOK, States, AfterSection
<1>3. CASE EnterItem
  BY <1>a, <1>0, <1>3 DEF EnterItem, TypeOK, States
<1>4. CASE ReadName
  BY <1>a, <1>0, <1>4 DEF ReadName, NextIs, TypeOK, States
<1>5. CASE ReadValue
  <2>1. readQuorum' \in Int /\ writeQuorum' \in Int
    BY <1>5, TokenValues DEF ReadValue, NextIs, TypeOK
  <2> QED
    BY <1>a, <1>0, <1>5, <2>1 DEF ReadValue, TypeOK, States, AfterSection
<1>6. CASE ReadServer
  <2>1. portKnown' \in BOOLEAN
    BY <1>6, Zenon DEF ReadServer, TypeOK
  <2>2. replicas' \in Nat /\ index' \in Nat
    BY <1>6 DEF ReadServer, TypeOK
  <2> QED
    BY <1>a, <1>0, <1>6, <2>1, <2>2 DEF ReadServer, TypeOK, States
<1>7. CASE Check
  <2>1. readQuorum' \in Int /\ writeQuorum' \in Int
    BY <1>7, CorrectedQuorums DEF Check, TypeOK
  <2> QED
    BY <1>a, <1>7, <2>1 DEF Check, TypeOK, States
<1>8. CASE \/ Refuse(/\ state = "arguments"
                     /\ line = <<>>
                     /\ arguments["replica"].kind # "number")
           \/ Refuse(state \in {"loop", "name"} /\ AtEnd)
           \/ Refuse(state = "check" /\ (replicas = 0 \/ ~IdInRange))
  BY <1>a, <1>8 DEF Refuse, TypeOK, States
<1>9. CASE UNCHANGED vars
  BY <1>a, <1>9 DEF vars, TypeOK
<1> QED
  BY <1>1, <1>2, <1>3, <1>4, <1>5, <1>6, <1>7, <1>8, <1>9, <1>10, <1>11 DEF Next

\* The types, for every command line and every file: in particular a replica number
\* is always an integer when initialize gets it.
THEOREM ServerTypeCorrect == Spec => []TypeOK
<1>1. TypeOK /\ Counted /\ [Next]_vars => (TypeOK /\ Counted)'
  BY TypeOKStep
<1> QED
  BY <1>1, TypeOKInit, PTL DEF Spec

\* Whatever file a replica is given, it starts with quorums that intersect: the
\* assumption QuorumAssumption of QuorumStore.
THEOREM AcceptedQuorumsIntersect == Spec => []QuorumsIntersect
<1>1. Init => QuorumsIntersect
  BY DEF Init, QuorumsIntersect
<1>2. TypeOK /\ QuorumsIntersect /\ [Next]_vars => QuorumsIntersect'
  <2> SUFFICES ASSUME TypeOK, QuorumsIntersect, [Next]_vars
               PROVE  QuorumsIntersect'
    OBVIOUS
  <2>1. CASE Check
    BY <2>1, CorrectedQuorums DEF Check, QuorumsIntersect, Cluster, TypeOK
  <2>2. CASE UNCHANGED vars
    BY <2>2 DEF vars, QuorumsIntersect, Cluster
  <2>3. CASE ~Check /\ Next
    <3>1. state' # "accepted"
      BY <2>3 DEF Next, ParseArguments, UseArguments, Loop, LeaveSection, AfterSection,
         EnterItem, ReadName, ReadValue, ReadServer, Refuse, TypeOK
    <3> QED
      BY <3>1 DEF QuorumsIntersect
  <2> QED
    BY <2>1, <2>2, <2>3
<1> QED
  BY <1>1, <1>2, TypeOKInit, TypeOKStep, PTL DEF Spec
-----------------------------------------------------------------------------
(* The command line.                                                       *)

\* The number of arguments that have been read.
Parsed == Len(commanded) - Len(line)

ParsedOf(n) == {i \in ArgumentsOf(n) : i <= Parsed}

\* What is still to be read is the rest of the command line; the option that waits
\* is the last argument that was read.
LineInv ==
    /\ Len(line) <= Len(commanded)
    /\ \A i \in 1 .. Len(line) : line[i] = commanded[Parsed + i]
    /\ key = IF Parsed > 0 /\ commanded[Parsed].kind = "option"
             THEN commanded[Parsed].name ELSE NoKey

\* The value of an option is the first one that was read for it.
ArgumentsInv ==
    \A n \in Names :
        \/ ParsedOf(n) = {} /\ arguments[n] = NotGiven
        \/ \E i \in ParsedOf(n) :
              /\ arguments[n] = commanded[i]
              /\ \A j \in ParsedOf(n) : i <= j

OptionsInv ==
    /\ LineInv
    /\ ArgumentsInv
    /\ state \notin {"arguments", "refused"} =>
          /\ line = <<>>
          /\ arguments["replica"].kind = "number"
          /\ replicaId = arguments["replica"].value
          /\ loadDatastore <=> \/ arguments["load-datastore"].kind # "number"
                               \/ arguments["load-datastore"].value # 0

LEMMA OptionsInvInit == Init => OptionsInv
<1> SUFFICES ASSUME Init PROVE OptionsInv
  OBVIOUS
<1>1. line = commanded /\ commanded \in Seq(Arguments) /\ state = "arguments"
  BY StartsAssumption DEF Init, InitLine
<1>2. Parsed = 0
  BY <1>1 DEF Parsed
<1>3. \A n \in Names : ParsedOf(n) = {} /\ arguments[n] = NotGiven
  <2>1. \A n \in Names : arguments[n] = NotGiven
    BY DEF Init, InitLine
  <2>2. \A n \in Names : ParsedOf(n) = {}
    BY <1>2 DEF ParsedOf, ArgumentsOf
  <2> QED
    BY <2>1, <2>2
<1>4. key = NoKey
  BY DEF Init, InitLine
<1> QED
  BY <1>1, <1>2, <1>3, <1>4 DEF OptionsInv, LineInv, ArgumentsInv

\* One more argument is read.
LEMMA LineInvStep ==
    ASSUME TypeOK, OptionsInv, ReadOption \/ ReadArgument, commanded' = commanded
    PROVE  /\ LineInv'
           /\ Parsed \in Nat /\ Parsed' = Parsed + 1
           /\ Parsed + 1 \in 1 .. Len(commanded)
           /\ Head(line) = commanded[Parsed + 1]
<1>1. /\ line \in Seq(Arguments) /\ line # <<>> /\ line' = Tail(line)
      /\ commanded \in Seq(Arguments)
  BY DEF TypeOK, LineOK, ReadOption, ReadArgument
<1>2. /\ Len(line) \in Nat /\ Len(line) > 0 /\ Len(line') = Len(line) - 1
      /\ \A i \in 1 .. Len(line') : line'[i] = line[i + 1]
      /\ Head(line) = line[1] /\ Len(commanded) \in Nat
  BY <1>1
<1>3. /\ Len(line) <= Len(commanded)
      /\ \A i \in 1 .. Len(line) : line[i] = commanded[Parsed + i]
  BY DEF OptionsInv, LineInv
<1>4. /\ Parsed \in Nat /\ Parsed' = Parsed + 1
      /\ Parsed + 1 \in 1 .. Len(commanded)
      /\ Head(line) = commanded[Parsed + 1]
  BY <1>2, <1>3 DEF Parsed
<1>5. \A i \in 1 .. Len(line') : line'[i] = commanded[Parsed' + i]
  <2> SUFFICES ASSUME NEW i \in 1 .. Len(line')
               PROVE  line'[i] = commanded[Parsed' + i]
    OBVIOUS
  <2>1. i + 1 \in 1 .. Len(line) /\ Parsed' + i = Parsed + (i + 1)
    BY <1>2, <1>4
  <2> QED
    BY <1>2, <1>3, <2>1
<1>6. Head(line) \in Arguments
  BY <1>1
<1>7. key' = IF commanded[Parsed + 1].kind = "option"
             THEN commanded[Parsed + 1].name ELSE NoKey
  BY <1>4, <1>6 DEF ReadOption, ReadArgument
<1> QED
  BY <1>2, <1>3, <1>4, <1>5, <1>7 DEF LineInv

LEMMA ArgumentsInvStep ==
    ASSUME TypeOK, OptionsInv, ReadOption \/ ReadArgument, commanded' = commanded
    PROVE  ArgumentsInv'
<1>0. /\ Parsed \in Nat /\ Parsed' = Parsed + 1
      /\ Parsed + 1 \in 1 .. Len(commanded)
      /\ Head(line) = commanded[Parsed + 1]
  BY LineInvStep
<1>1. ASSUME NEW n \in Names
      PROVE  ParsedOf(n)' = {i \in ArgumentsOf(n) : i <= Parsed + 1}
  BY <1>0 DEF ParsedOf, ArgumentsOf
<1>k. /\ key = IF Parsed > 0 /\ commanded[Parsed].kind = "option"
               THEN commanded[Parsed].name ELSE NoKey
      /\ key \in Names \cup {NoKey}
  BY DEF OptionsInv, LineInv, TypeOK, LineOK
<1>2. ASSUME NEW n \in Names
      PROVE  Parsed + 1 \in ArgumentsOf(n) <=>
                 /\ Head(line).kind # "option"
                 /\ key # NoKey
                 /\ LongName(key) = n
  BY <1>0, <1>k DEF ArgumentsOf
<1>3. ASSUME NEW n \in Names
      PROVE  /\ \A i \in ArgumentsOf(n) : i \in Nat
             /\ \A i \in ParsedOf(n)' : i \in ParsedOf(n) \/ i = Parsed + 1
             /\ ParsedOf(n) \subseteq ParsedOf(n)'
             /\ Parsed + 1 \in ParsedOf(n)' <=> Parsed + 1 \in ArgumentsOf(n)
  BY <1>0, <1>1 DEF ParsedOf, ArgumentsOf
<1> SUFFICES ASSUME NEW n \in Names
             PROVE  \/ ParsedOf(n)' = {} /\ arguments'[n] = NotGiven
                    \/ \E i \in ParsedOf(n)' :
                          /\ arguments'[n] = commanded[i]
                          /\ \A j \in ParsedOf(n)' : i <= j
  BY DEF ArgumentsInv
<1>i. \/ ParsedOf(n) = {} /\ arguments[n] = NotGiven
      \/ \E i \in ParsedOf(n) :
            /\ arguments[n] = commanded[i]
            /\ \A j \in ParsedOf(n) : i <= j
  BY DEF OptionsInv, ArgumentsInv
<1>4. CASE Parsed + 1 \notin ArgumentsOf(n)
  <2>1. ParsedOf(n)' = ParsedOf(n)
    BY <1>3, <1>4
  <2>2. arguments'[n] = arguments[n]
    BY <1>2, <1>4 DEF ReadOption, ReadArgument, Emplace, TypeOK, LineOK
  <2> QED
    BY <1>i, <2>1, <2>2
<1>5. CASE Parsed + 1 \in ArgumentsOf(n)
  <2>1. arguments'[n] = IF Given(n) THEN arguments[n] ELSE commanded[Parsed + 1]
    BY <1>0, <1>2, <1>5 DEF ReadOption, ReadArgument, Emplace, TypeOK, LineOK
  <2>2. CASE ParsedOf(n) = {} /\ arguments[n] = NotGiven
    <3>1. ~Given(n)
      BY <2>2 DEF Given, NotGiven
    <3>2. ParsedOf(n)' = {Parsed + 1}
      BY <1>3, <1>5, <2>2
    <3> QED
      BY <1>0, <2>1, <3>1, <3>2
  <2>3. ASSUME NEW i \in ParsedOf(n), arguments[n] = commanded[i],
               \A j \in ParsedOf(n) : i <= j
        PROVE  \E k \in ParsedOf(n)' :
                  /\ arguments'[n] = commanded[k]
                  /\ \A j \in ParsedOf(n)' : k <= j
    <3>1. i \in 2 .. Len(commanded) /\ i \in Nat /\ i <= Parsed
      BY DEF ParsedOf, ArgumentsOf
    <3>2. commanded[i] \in Arguments
      BY <3>1 DEF TypeOK
    <3>3. Given(n)
      BY <2>3, <3>2 DEF Given, Arguments
    <3>4. arguments'[n] = commanded[i] /\ i \in ParsedOf(n)'
      BY <1>3, <2>1, <2>3, <3>3
    <3>5. \A j \in ParsedOf(n)' : i <= j
      <4>1. i \in Nat /\ i <= Parsed + 1
        BY <1>0, <3>1
      <4>2. ASSUME NEW j \in ParsedOf(n)' PROVE i <= j
        BY <1>3, <2>3, <4>1
      <4> QED
        BY <4>2
    <3> QED
      BY <3>4, <3>5
  <2> QED
    BY <1>i, <2>2, <2>3
<1> QED
  BY <1>4, <1>5

LEMMA OptionsInvStep == TypeOK /\ OptionsInv /\ [Next]_vars => OptionsInv'
<1> SUFFICES ASSUME TypeOK, OptionsInv, [Next]_vars PROVE OptionsInv'
  OBVIOUS
<1>a. ASSUME UNCHANGED <<lineVars, commanded>> PROVE LineInv' /\ ArgumentsInv'
  BY <1>a DEF OptionsInv, LineInv, ArgumentsInv, Parsed, ParsedOf, ArgumentsOf, lineVars
<1>1. CASE ParseArguments
  <2>1. state' = "arguments" /\ commanded' = commanded
    BY <1>1 DEF ParseArguments
  <2> QED
    BY <1>1, <2>1, LineInvStep, ArgumentsInvStep DEF ParseArguments, OptionsInv
<1>2. CASE UseArguments
  <2>1. /\ UNCHANGED <<lineVars, commanded>>
        /\ line = <<>> /\ arguments["replica"].kind = "number"
        /\ replicaId' = arguments["replica"].value
        /\ loadDatastore' = \/ arguments["load-datastore"].kind # "number"
                            \/ arguments["load-datastore"].value # 0
    BY <1>2 DEF UseArguments
  <2> QED
    BY <1>a, <2>1 DEF OptionsInv, lineVars
<1>3. CASE Next /\ ~ParseArguments /\ ~UseArguments
  <2>1. UNCHANGED startVars /\ (state' = "refused" \/ state # "arguments")
    BY <1>3 DEF Next, Loop, LeaveSection, EnterItem, ReadName, ReadValue, ReadServer,
       Check, Refuse
  <2>2. state # "refused" \/ state' = "refused"
    BY <1>3 DEF Next, Loop, LeaveSection, EnterItem, ReadName, ReadValue, ReadServer,
       Check, Refuse
  <2> QED
    BY <1>a, <2>1, <2>2 DEF OptionsInv, startVars, lineVars
<1>4. CASE UNCHANGED vars
  BY <1>a, <1>4 DEF OptionsInv, vars, startVars, lineVars
<1> QED
  BY <1>1, <1>2, <1>3, <1>4

\* OptionsObeyed: a server starts as the replica of the first -r that has an argument
\* and leaves its datastore out only for a 0 behind --load-datastore, for every
\* command line.
THEOREM FirstOptionsCount == Spec => []OptionsObeyed
<1>1. TypeOK /\ OptionsInv => OptionsObeyed
  <2> SUFFICES ASSUME TypeOK, OptionsInv, state \notin {"arguments", "refused"}
               PROVE  /\ ArgumentsOf("replica") # {}
                      /\ FirstOf("replica").kind = "number"
                      /\ replicaId = FirstOf("replica").value
                      /\ ~loadDatastore <=>
                             /\ ArgumentsOf("load-datastore") # {}
                             /\ FirstOf("load-datastore").kind = "number"
                             /\ FirstOf("load-datastore").value = 0
    BY DEF OptionsObeyed
  <2>1. line = <<>> /\ Parsed = Len(commanded)
    BY DEF OptionsInv, Parsed, TypeOK
  <2>2. ASSUME NEW n \in Names
        PROVE  \/ ArgumentsOf(n) = {} /\ arguments[n] = NotGiven
               \/ ArgumentsOf(n) # {} /\ arguments[n] = FirstOf(n)
    <3>1. ParsedOf(n) = ArgumentsOf(n)
      BY <2>1 DEF ParsedOf, ArgumentsOf
    <3>2. CASE ParsedOf(n) = {} /\ arguments[n] = NotGiven
      BY <3>1, <3>2
    <3>3. ASSUME NEW i \in ParsedOf(n), arguments[n] = commanded[i],
                 \A j \in ParsedOf(n) : i <= j
          PROVE  ArgumentsOf(n) # {} /\ arguments[n] = FirstOf(n)
      <4>1. \A j, k \in ArgumentsOf(n) : j <= k /\ k <= j => j = k
        BY DEF ArgumentsOf
      <4>2. (CHOOSE k \in ArgumentsOf(n) : \A j \in ArgumentsOf(n) : k <= j) = i
        BY <3>1, <3>3, <4>1
      <4> QED
        BY <3>1, <3>3, <4>2 DEF FirstOf
    <3> QED
      BY <3>2, <3>3 DEF OptionsInv, ArgumentsInv
  <2>3. "replica" \in Names /\ "load-datastore" \in Names
    BY DEF Names
  <2>4. loadDatastore \in BOOLEAN
    BY DEF TypeOK
  <2>5. NotGiven.kind = "none"
    BY DEF NotGiven
  <2>6. /\ arguments["replica"].kind = "number"
        /\ replicaId = arguments["replica"].value
        /\ loadDatastore <=> \/ arguments["load-datastore"].kind # "number"
                             \/ arguments["load-datastore"].value # 0
    BY DEF OptionsInv
  <2> QED
    BY <2>2, <2>3, <2>4, <2>5, <2>6, Zenon
<1> QED
  BY <1>1, OptionsInvInit, OptionsInvStep, TypeOKInit, TypeOKStep, PTL DEF Spec
-----------------------------------------------------------------------------
(* Files in the documented form.                                           *)

\* The number of tokens that have been read.
Consumed == Len(configured) - Len(file)

\* What is still to be read is the rest of the file.
FileInv ==
    /\ Len(file) <= Len(configured)
    /\ \A i \in 1 .. Len(file) : file[i] = configured[Consumed + i]

\* The quorums are the given ones.
QuorumsRead == readQuorum = GivenRead /\ writeQuorum = GivenWrite

\* Of the first n servers the replica's own has given the port and the others are in
\* the vector.
ServersRead(n) ==
    IF replicaId \in 0 .. n - 1
    THEN portKnown /\ replicas = n - 1 ELSE ~portKnown /\ replicas = n

\* Where the reader of a documented file stands in each of its states.
PlaceInv ==
    /\ state = "arguments" => Consumed = 0 /\ sections = 0
    /\ state = "loop" => \/ Consumed = 0 /\ sections = 0
                         \/ Consumed = 7 /\ sections = 1 /\ QuorumsRead
    /\ state = "config" =>
          /\ sections = 0
          /\ \/ Consumed = 1 /\ entries = 0
             \/ Consumed = 4 /\ entries = 1 /\ readQuorum = GivenRead
    /\ state = "name" =>
          /\ sections = 0
          /\ \/ Consumed = 2 /\ entries = 0
             \/ Consumed = 5 /\ entries = 1 /\ readQuorum = GivenRead
    /\ state = "value" =>
          /\ sections = 0
          /\ \/ Consumed = 3 /\ entries = 0 /\ name = "read_quorum:"
             \/ /\ Consumed = 6 /\ entries = 1 /\ name = "write_quorum:"
                /\ readQuorum = GivenRead
    /\ state \in {"arguments", "loop", "config", "name", "value"} =>
          replicas = 0 /\ ~portKnown
    /\ state = "servers" =>
          /\ sections = 1 /\ QuorumsRead /\ ServersRead(index)
          /\ index <= Listed /\ Consumed = 8 + 2 * index
    /\ state = "server" =>
          /\ sections = 1 /\ QuorumsRead /\ ServersRead(index)
          /\ index < Listed /\ Consumed = 9 + 2 * index
    /\ state = "check" => QuorumsRead /\ ServersRead(Listed)
    /\ state = "accepted" =>
          /\ ServersRead(Listed)
          /\ writeQuorum = CorrectWriteQuorum(GivenWrite, replicas)
          /\ readQuorum = CorrectReadQuorum(GivenRead, writeQuorum, replicas)
    /\ state = "refused" =>
          ~ /\ Listed >= 2
            /\ arguments["replica"].kind = "number"
            /\ arguments["replica"].value \in 0 .. Listed - 1

DocumentInv == FileInv /\ (DocumentedForm => PlaceInv)

\* The tokens of a documented file, one by one.
LEMMA DocumentWords ==
    ASSUME TypeOK, DocumentedForm
    PROVE  /\ Listed \in Nat /\ Len(configured) = 8 + 2 * Listed
           /\ configured[1].word = "config:"
           /\ configured[2].word = "-" /\ configured[3].word = "read_quorum:"
           /\ configured[4].word = "number"
           /\ configured[5].word = "-" /\ configured[6].word = "write_quorum:"
           /\ configured[7].word = "number"
           /\ configured[8].word = "servers:"
           /\ \A i \in Nat : i < Listed => configured[9 + 2 * i].word = "-"
<1>1. Len(configured) \in Nat /\ Len(configured) >= 8 /\ Len(configured) % 2 = 0
  <2>1. Len(configured) \in Nat
    BY DEF TypeOK
  <2> QED
    BY <2>1 DEF DocumentedForm
<1>2. Listed \in Nat /\ Len(configured) = 8 + 2 * Listed
  BY <1>1 DEF Listed
<1>3. \A i \in 1 .. 8 :
         configured[i].word = <<"config:", "-", "read_quorum:", "number",
                                "-", "write_quorum:", "number", "servers:">>[i]
  <2> DEFINE words == [i \in 1 .. 8 |-> configured[i].word]
  <2>1. \A i \in 1 .. 8 : words[i] = configured[i].word
    OBVIOUS
  <2>2. words = <<"config:", "-", "read_quorum:", "number",
                  "-", "write_quorum:", "number", "servers:">>
    BY DEF DocumentedForm
  <2> HIDE DEF words
  <2> QED
    BY <2>1, <2>2
<1>4. ASSUME NEW i \in Nat, i < Listed PROVE configured[9 + 2 * i].word = "-"
  <2>1. 9 + 2 * i \in 9 .. Len(configured) /\ (9 + 2 * i) % 2 = 1
    BY <1>2, <1>4
  <2> QED
    BY <2>1 DEF DocumentedForm
<1> QED
  BY <1>2, <1>3, <1>4

\* What the reader sees and what reading a token does.
LEMMA Reads ==
    ASSUME TypeOK, FileInv
    PROVE  /\ Consumed \in Nat /\ Consumed <= Len(configured)
           /\ AtEnd <=> Consumed = Len(configured)
           /\ ~AtEnd => Head(file) = configured[Consumed + 1]
           /\ \A w : NextIs(w) <=> ~AtEnd /\ configured[Consumed + 1].word = w
           /\ configured' = configured /\ file' = file =>
                 FileInv' /\ Consumed' = Consumed
           /\ configured' = configured /\ Consume =>
                 /\ FileInv'
                 /\ Consumed' = IF AtEnd THEN Consumed ELSE Consumed + 1
<1>1. /\ file \in Seq(Tokens) /\ configured \in Seq(Tokens)
      /\ Len(file) \in Nat /\ Len(configured) \in Nat
      /\ AtEnd <=> Len(file) = 0
  BY DEF TypeOK, AtEnd
<1>2. /\ Consumed \in Nat /\ Consumed <= Len(configured)
      /\ AtEnd <=> Consumed = Len(configured)
  BY <1>1 DEF FileInv, Consumed
<1>3. ~AtEnd => Head(file) = configured[Consumed + 1]
  BY <1>1 DEF FileInv, AtEnd
<1>4. configured' = configured /\ file' = file => FileInv' /\ Consumed' = Consumed
  BY DEF FileInv, Consumed
<1>5. ASSUME configured' = configured, Consume, ~AtEnd
      PROVE  FileInv' /\ Consumed' = Consumed + 1
  <2>1. /\ file' = Tail(file) /\ Len(file') = Len(file) - 1 /\ Len(file) > 0
        /\ \A i \in 1 .. Len(file') : file'[i] = file[i + 1]
    BY <1>1, <1>5 DEF Consume, AtEnd
  <2>2. Consumed' = Consumed + 1
    <3>1. Len(file') = Len(file) - 1 /\ Len(configured') = Len(configured)
      BY <1>5, <2>1
    <3>2. \A m, n \in Nat : m - (n - 1) = m - n + 1
      OBVIOUS
    <3> QED
      BY <1>1, <3>1, <3>2 DEF Consumed
  <2>3. ASSUME NEW i \in 1 .. Len(file')
        PROVE  file'[i] = configured[Consumed' + i]
    <3>1. i + 1 \in 1 .. Len(file) /\ Consumed' + i = Consumed + (i + 1)
      BY <1>1, <1>2, <2>1, <2>2
    <3> QED
      BY <2>1, <3>1 DEF FileInv
  <2> QED
    BY <1>1, <1>5, <2>1, <2>2, <2>3 DEF FileInv
<1>6. ASSUME configured' = configured, Consume, AtEnd
      PROVE  FileInv' /\ Consumed' = Consumed
  BY <1>4, <1>6 DEF Consume
<1> QED
  BY <1>2, <1>3, <1>4, <1>5, <1>6 DEF NextIs

LEMMA DocumentInvInit == Init => DocumentInv
<1> SUFFICES ASSUME Init PROVE DocumentInv
  OBVIOUS
<1>1. file = configured /\ configured \in Seq(Tokens) /\ state = "arguments"
  BY StartsAssumption DEF Init
<1>2. Consumed = 0
  BY <1>1 DEF Consumed
<1>3. FileInv
  BY <1>1, <1>2 DEF FileInv
<1>4. sections = 0 /\ replicas = 0 /\ ~portKnown
  BY DEF Init
<1> QED
  BY <1>1, <1>2, <1>3, <1>4 DEF DocumentInv, PlaceInv
LEMMA DocumentInvStep ==
    TypeOK /\ OptionsInv /\ DocumentInv /\ [Next]_vars => DocumentInv'
<1> SUFFICES ASSUME TypeOK, OptionsInv, DocumentInv, [Next]_vars PROVE DocumentInv'
  OBVIOUS
<1>f. FileInv
  BY DEF DocumentInv
<1>r. /\ Consumed \in Nat /\ Consumed <= Len(configured)
      /\ AtEnd <=> Consumed = Len(configured)
      /\ ~AtEnd => Head(file) = configured[Consumed + 1]
      /\ \A w : NextIs(w) <=> ~AtEnd /\ configured[Consumed + 1].word = w
      /\ configured' = configured /\ file' = file => FileInv' /\ Consumed' = Consumed
      /\ configured' = configured /\ Consume =>
            /\ FileInv'
            /\ Consumed' = IF AtEnd THEN Consumed ELSE Consumed + 1
  BY <1>f, Reads
<1>c. configured' = configured /\ (UNCHANGED file \/ Consume)
  BY DEF Next, ParseArguments, UseArguments, Loop, LeaveSection, EnterItem, ReadName,
     ReadValue, ReadServer, Check, Refuse, vars, startVars, lineVars
<1>d. FileInv'
  BY <1>c, <1>r
<1> SUFFICES ASSUME DocumentedForm PROVE PlaceInv'
  BY <1>c, <1>d DEF DocumentInv, DocumentedForm
<1>p. PlaceInv
  BY DEF DocumentInv
<1>w. /\ Listed \in Nat /\ Len(configured) = 8 + 2 * Listed
      /\ configured[1].word = "config:"
      /\ configured[2].word = "-" /\ configured[3].word = "read_quorum:"
      /\ configured[4].word = "number"
      /\ configured[5].word = "-" /\ configured[6].word = "write_quorum:"
      /\ configured[7].word = "number"
      /\ configured[8].word = "servers:"
      /\ \A i \in Nat : i < Listed => configured[9 + 2 * i].word = "-"
  BY DocumentWords
<1>n. GivenRead' = GivenRead /\ GivenWrite' = GivenWrite /\ Listed' = Listed
  BY <1>c DEF GivenRead, GivenWrite, Listed
<1>t. /\ replicaId \in Int /\ replicas \in Nat /\ index \in Nat
      /\ readQuorum \in Int /\ writeQuorum \in Int
  BY DEF TypeOK
<1>1. CASE ParseArguments
  <2>1. /\ state = "arguments" /\ state' = state
        /\ UNCHANGED <<file, replicas, portKnown, sections>>
    BY <1>1 DEF ParseArguments
  <2> QED
    BY <1>c, <1>p, <1>r, <2>1 DEF PlaceInv
<1>2. CASE UseArguments
  <2>1. /\ state = "arguments" /\ state' = "loop"
        /\ UNCHANGED <<file, replicas, portKnown, sections>>
    BY <1>2 DEF UseArguments
  <2> QED
    BY <1>c, <1>p, <1>r, <2>1 DEF PlaceInv
<1>3. CASE Loop
  <2>1. /\ state = "loop" /\ Consume /\ entries' = 0 /\ index' = 0 /\ ~AtEnd
        /\ state' = IF NextIs("config:") THEN "config"
                    ELSE IF NextIs("servers:") THEN "servers" ELSE "loop"
        /\ UNCHANGED <<replicaId, readQuorum, writeQuorum, replicas, portKnown,
                       sections>>
    BY <1>3 DEF Loop, startVars
  <2>2. CASE Consumed = 0 /\ sections = 0
    <3>1. state' = "config" /\ Consumed' = 1
      BY <1>c, <1>r, <1>w, <2>1, <2>2
    <3> QED
      BY <1>p, <2>1, <2>2, <3>1 DEF PlaceInv
  <2>3. CASE Consumed = 7 /\ sections = 1 /\ QuorumsRead
    <3>1. state' = "servers" /\ Consumed' = 8
      BY <1>c, <1>r, <1>w, <2>1, <2>3
    <3>2. QuorumsRead' /\ ServersRead(index)'
      BY <1>n, <1>p, <1>t, <2>1, <2>3 DEF PlaceInv, QuorumsRead, ServersRead
    <3> QED
      BY <1>n, <1>w, <2>1, <2>3, <3>1, <3>2 DEF PlaceInv
  <2> QED
    BY <1>p, <2>1, <2>2, <2>3 DEF PlaceInv
<1>4. CASE LeaveSection
  <2>1. /\ state \in {"config", "servers"} /\ ~NextIs("-") /\ Consume
        /\ state' = AfterSection
        /\ UNCHANGED <<replicaId, readQuorum, writeQuorum, replicas, portKnown>>
    BY <1>4 DEF LeaveSection, startVars
  <2>2. state = "servers"
    BY <1>p, <1>r, <1>w, <2>1 DEF PlaceInv
  <2>3. /\ sections = 1 /\ QuorumsRead /\ ServersRead(index)
        /\ index <= Listed /\ Consumed = 8 + 2 * index
    BY <1>p, <2>2 DEF PlaceInv
  <2>4. index = Listed
    <3>1. index < Listed => configured[9 + 2 * index].word = "-" /\ ~AtEnd
      BY <1>r, <1>t, <1>w, <2>3
    <3>2. Consumed + 1 = 9 + 2 * index
      BY <1>t, <2>3
    <3> QED
      BY <1>r, <1>t, <1>w, <2>1, <2>3, <3>1, <3>2
  <2>5. state' = "check"
    BY <2>1, <2>3 DEF AfterSection
  <2>6. QuorumsRead' /\ ServersRead(Listed)'
    BY <1>n, <2>1, <2>3, <2>4 DEF QuorumsRead, ServersRead
  <2> QED
    BY <2>5, <2>6 DEF PlaceInv
<1>5. CASE EnterItem
  <2>1. /\ state \in {"config", "servers"} /\ NextIs("-") /\ Consume
        /\ state' = IF state = "config" THEN "name" ELSE "server"
        /\ UNCHANGED <<replicaId, readQuorum, writeQuorum, replicas, index, portKnown,
                       sections, entries>>
    BY <1>5 DEF EnterItem, startVars
  <2>2. Consumed' = Consumed + 1 /\ Consumed # Len(configured)
    BY <1>c, <1>r, <2>1
  <2>3. CASE state = "config"
    BY <1>n, <1>p, <2>1, <2>2, <2>3 DEF PlaceInv
  <2>4. CASE state = "servers"
    <3>1. /\ sections = 1 /\ QuorumsRead /\ ServersRead(index)
          /\ index <= Listed /\ Consumed = 8 + 2 * index
      BY <1>p, <2>4 DEF PlaceInv
    <3>2. index < Listed
      BY <1>t, <1>w, <2>2, <3>1
    <3>3. QuorumsRead' /\ ServersRead(index)'
      BY <1>n, <2>1, <3>1 DEF QuorumsRead, ServersRead
    <3>4. Consumed' = 9 + 2 * index /\ state' = "server"
      BY <1>t, <2>1, <2>2, <2>4, <3>1
    <3> QED
      BY <1>n, <2>1, <3>1, <3>2, <3>3, <3>4 DEF PlaceInv
  <2> QED
    BY <2>1, <2>3, <2>4
<1>6. CASE ReadName
  <2>1. /\ state = "name" /\ ~AtEnd /\ Consume
        /\ IF NextIs("read_quorum:") \/ NextIs("write_quorum:")
           THEN name' = Head(file).word /\ state' = "value"
           ELSE state' = "config" /\ UNCHANGED name
        /\ UNCHANGED <<readQuorum, replicas, portKnown, sections, entries>>
    BY <1>6 DEF ReadName
  <2>2. Consumed' = Consumed + 1
    BY <1>c, <1>r, <2>1
  <2>3. \/ Consumed = 2 /\ entries = 0
        \/ Consumed = 5 /\ entries = 1 /\ readQuorum = GivenRead
    BY <1>p, <2>1 DEF PlaceInv
  <2>4. state' = "value" /\ name' = configured[Consumed + 1].word
    BY <1>r, <1>w, <2>1, <2>3
  <2> QED
    BY <1>n, <1>p, <1>w, <2>1, <2>2, <2>3, <2>4 DEF PlaceInv
<1>7. CASE ReadValue
  <2>1. /\ state = "value" /\ Consume
        /\ UNCHANGED <<replicas, portKnown>>
        /\ entries' = entries + 1
        /\ IF entries = 1
           THEN sections' = sections + 1 /\ state' = AfterSection
           ELSE state' = "config" /\ UNCHANGED sections
    BY <1>7 DEF ReadValue
  <2>2. sections = 0 /\ replicas = 0 /\ ~portKnown
    BY <1>p, <2>1 DEF PlaceInv
  <2>3. CASE Consumed = 3 /\ entries = 0 /\ name = "read_quorum:"
    <3>1. /\ ~AtEnd /\ NextIs("number") /\ Consumed' = 4
          /\ Head(file).value = GivenRead
      BY <1>c, <1>r, <1>w, <2>1, <2>3 DEF GivenRead
    <3>2. readQuorum' = GivenRead
      BY <1>7, <2>3, <3>1 DEF ReadValue
    <3> QED
      BY <1>n, <2>1, <2>2, <2>3, <3>1, <3>2 DEF PlaceInv
  <2>4. CASE /\ Consumed = 6 /\ entries = 1 /\ name = "write_quorum:"
             /\ readQuorum = GivenRead
    <3>1. /\ ~AtEnd /\ NextIs("number") /\ Consumed' = 7
          /\ Head(file).value = GivenWrite
      BY <1>c, <1>r, <1>w, <2>1, <2>4 DEF GivenWrite
    <3>2. writeQuorum' = GivenWrite /\ readQuorum' = readQuorum
      BY <1>7, <2>4, <3>1 DEF ReadValue
    <3>3. state' = "loop" /\ sections' = 1
      BY <2>1, <2>2, <2>4 DEF AfterSection
    <3> QED
      BY <1>n, <2>1, <2>2, <2>4, <3>1, <3>2, <3>3 DEF PlaceInv, QuorumsRead
  <2> QED
    BY <1>p, <2>1, <2>3, <2>4 DEF PlaceInv
<1>8. CASE ReadServer
  <2>1. /\ state = "server" /\ Consume /\ state' = "servers" /\ index' = index + 1
        /\ UNCHANGED <<replicaId, readQuorum, writeQuorum, sections>>
        /\ IF index # replicaId
           THEN replicas' = replicas + 1 /\ UNCHANGED portKnown
           ELSE portKnown' = TRUE /\ UNCHANGED replicas
    BY <1>8 DEF ReadServer, startVars
  <2>2. /\ sections = 1 /\ QuorumsRead /\ ServersRead(index)
        /\ index < Listed /\ Consumed = 9 + 2 * index
    BY <1>p, <2>1 DEF PlaceInv
  <2>3. Consumed' = 8 + 2 * index' /\ index' <= Listed
    <3>1. Consumed # Len(configured)
      BY <1>t, <1>w, <2>2
    <3> QED
      BY <1>c, <1>r, <1>t, <1>w, <2>1, <2>2, <3>1
  <2>4. ServersRead(index)'
    <3>1. CASE replicaId \in 0 .. index - 1
      <4>1. index # replicaId /\ replicaId \in 0 .. index' - 1
        BY <1>t, <2>1, <3>1
      <4>2. portKnown' = portKnown /\ replicas' = replicas + 1
        BY <2>1, <4>1
      <4>3. portKnown /\ replicas = index - 1
        BY <2>2, <3>1 DEF ServersRead
      <4>4. replicas' = index' - 1
        BY <1>t, <2>1, <4>2, <4>3
      <4> QED
        BY <2>1, <4>1, <4>2, <4>3, <4>4 DEF ServersRead
    <3>2. CASE replicaId = index
      BY <1>t, <2>1, <2>2, <3>2 DEF ServersRead
    <3>3. CASE replicaId \notin 0 .. index - 1 /\ replicaId # index
      BY <1>t, <2>1, <2>2, <3>3 DEF ServersRead
    <3> QED
      BY <3>1, <3>2, <3>3
  <2>5. QuorumsRead'
    BY <1>n, <2>1, <2>2 DEF QuorumsRead
  <2> QED
    BY <1>n, <2>1, <2>2, <2>3, <2>4, <2>5 DEF PlaceInv
<1>9. CASE Check
  <2>1. /\ state = "check" /\ state' = "accepted"
        /\ UNCHANGED <<replicaId, replicas, portKnown>>
        /\ writeQuorum' = CorrectWriteQuorum(writeQuorum, replicas)
        /\ readQuorum' = CorrectReadQuorum(readQuorum, writeQuorum', replicas)
    BY <1>9 DEF Check, startVars
  <2>2. QuorumsRead /\ ServersRead(Listed)
    BY <1>p, <2>1 DEF PlaceInv
  <2>3. ServersRead(Listed)'
    BY <1>n, <2>1, <2>2 DEF ServersRead
  <2>4. /\ writeQuorum' = CorrectWriteQuorum(GivenWrite', replicas')
        /\ readQuorum' = CorrectReadQuorum(GivenRead', writeQuorum', replicas')
    BY <1>n, <2>1, <2>2 DEF QuorumsRead
  <2> QED
    BY <2>1, <2>3, <2>4 DEF PlaceInv, CorrectWriteQuorum, CorrectReadQuorum
<1>10. CASE \/ Refuse(/\ state = "arguments"
                      /\ line = <<>>
                      /\ arguments["replica"].kind # "number")
            \/ Refuse(state \in {"loop", "name"} /\ AtEnd)
            \/ Refuse(state = "check" /\ (replicas = 0 \/ ~IdInRange))
  <2>1. state' = "refused" /\ arguments' = arguments
    BY <1>10 DEF Refuse, startVars, lineVars
  <2>2. ~(state \in {"loop", "name"} /\ AtEnd)
    BY <1>p, <1>r, <1>w DEF PlaceInv
  <2>3. ASSUME Listed >= 2, arguments["replica"].kind = "number",
               arguments["replica"].value \in 0 .. Listed - 1
        PROVE  FALSE
    <3>1. state = "check" /\ (replicas = 0 \/ ~IdInRange)
      BY <1>10, <2>2, <2>3 DEF Refuse
    <3>2. replicaId \in 0 .. Listed - 1 /\ ServersRead(Listed)
      BY <1>p, <2>3, <3>1 DEF OptionsInv, PlaceInv
    <3>3. replicas = Listed - 1
      BY <3>2 DEF ServersRead
    <3> QED
      BY <1>t, <1>w, <2>3, <3>1, <3>2, <3>3 DEF IdInRange
  <2> QED
    BY <1>n, <2>1, <2>3 DEF PlaceInv
<1>11. CASE UNCHANGED vars
  <2>1. /\ UNCHANGED <<file, arguments, replicaId, readQuorum, writeQuorum, replicas,
                       index, portKnown, sections, entries, name, state>>
        /\ Consumed' = Consumed
    BY <1>c, <1>11, <1>r DEF vars, startVars, lineVars
  <2> QED
    BY <1>n, <1>p, <2>1
    DEF PlaceInv, QuorumsRead, ServersRead, CorrectWriteQuorum, CorrectReadQuorum
<1> QED
  BY <1>1, <1>2, <1>3, <1>4, <1>5, <1>6, <1>7, <1>8, <1>9, <1>10, <1>11 DEF Next

LEMMA DocumentInvHolds == Spec => [](TypeOK /\ OptionsInv /\ DocumentInv)
  BY TypeOKInit, TypeOKStep, OptionsInvInit, OptionsInvStep, DocumentInvInit,
     DocumentInvStep, PTL DEF Spec

\* ValidQuorumsKept: quorums that are given in the documented form and are valid
\* come out as they were given, for any number of servers.
THEOREM GivenQuorumsKept == Spec => []ValidQuorumsKept
<1>1. TypeOK /\ DocumentInv => ValidQuorumsKept
  <2> SUFFICES ASSUME TypeOK, DocumentInv, state = "accepted", DocumentedForm,
                      GivenRead \in 1 .. Cluster, GivenWrite \in 1 .. Cluster,
                      GivenRead + GivenWrite > Cluster, 2 * GivenWrite > Cluster
               PROVE  readQuorum = GivenRead /\ writeQuorum = GivenWrite
    BY DEF ValidQuorumsKept
  <2>1. /\ writeQuorum = CorrectWriteQuorum(GivenWrite, replicas)
        /\ readQuorum = CorrectReadQuorum(GivenRead, writeQuorum, replicas)
    BY DEF DocumentInv, PlaceInv
  <2>2. replicas \in Nat /\ Cluster = replicas + 1
    BY DEF TypeOK, Cluster
  <2>3. writeQuorum = GivenWrite
    BY <2>1, <2>2 DEF CorrectWriteQuorum
  <2> QED
    BY <2>1, <2>2, <2>3 DEF CorrectReadQuorum
<1> QED
  BY <1>1, DocumentInvHolds, PTL

\* DocumentedAccepted: a documented file is accepted for each of its servers, and all
\* of them count the same cluster.
THEOREM DocumentedFilesStart == Spec => []DocumentedAccepted
<1>1. TypeOK /\ OptionsInv /\ DocumentInv => DocumentedAccepted
  <2> SUFFICES ASSUME TypeOK, OptionsInv, DocumentInv, DocumentedForm, Listed >= 2,
                      arguments["replica"].kind = "number",
                      arguments["replica"].value \in 0 .. Listed - 1
               PROVE  /\ state # "refused"
                      /\ state = "accepted" => portKnown /\ Cluster = Listed
    BY DEF DocumentedAccepted
  <2>1. Listed \in Nat
    BY DocumentWords
  <2>2. state # "refused"
    BY DEF DocumentInv, PlaceInv
  <2>3. ASSUME state = "accepted" PROVE portKnown /\ Cluster = Listed
    <3>1. ServersRead(Listed) /\ replicaId \in 0 .. Listed - 1
      BY <2>3 DEF DocumentInv, PlaceInv, OptionsInv
    <3> QED
      BY <2>1, <3>1 DEF ServersRead, Cluster, TypeOK
  <2> QED
    BY <2>2, <2>3
<1> QED
  BY <1>1, DocumentInvHolds, PTL
=============================================================================
