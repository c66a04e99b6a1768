---------------------------- MODULE CommandLine ----------------------------
(***************************************************************************)
(* The command line of a server: parseArguments takes the arguments one by *)
(* one and pairs options with what follows them.  ClientConfig has the same *)
(* function.                                                               *)
(***************************************************************************)
EXTENDS Integers, Sequences

\* Names of options, without dashes; "other" stands for those that are not known.
Names == {"c", "config", "d", "datastore", "l", "load", "load-datastore",
          "r", "replica", "other"}

NoKey == ""

\* An argument that starts with a dash and goes on is an option, a negative number
\* without a blank before it too; the others are numbers, which stoi takes, or texts.
Arguments ==
    [kind : {"option"}, name : Names \cup {NoKey}, value : {0}]
    \cup [kind : {"number", "text"}, name : {NoKey}, value : Int]

NotGiven == [kind |-> "none", name |-> NoKey, value |-> 0]

VARIABLES
    line,        \* the arguments not yet read
    key,         \* the option that waits for its argument, if foundKey
    arguments    \* arguments[n]: what was found for the option n

lineVars == <<line, key, arguments>>

LineOK ==
    /\ line \in Seq(Arguments)
    /\ key \in Names \cup {NoKey}
    /\ arguments \in [Names -> Arguments \cup {NotGiven}]

InitLine(given) ==
    /\ line = given
    /\ key = NoKey
    /\ arguments = [n \in Names |-> NotGiven]

Given(n) == arguments[n].kind # "none"

\* ServerConfig::getKey.
LongName(n) ==
    CASE n = "c" -> "config"
      [] n = "d" -> "datastore"
      [] n = "l" -> "load"
      [] n = "r" -> "replica"
      [] OTHER -> n

\* Mutant: an option that is repeated takes its last value.
EmplaceAnyway(n, a) == [arguments EXCEPT ![n] = a]

\* Only the first value of an option is kept.
Emplace(n, a) == [arguments EXCEPT ![n] = IF Given(n) THEN @ ELSE a]

\* An option takes the place of one that still waits for its argument.
ReadOption ==
    /\ line # <<>>
    /\ Head(line).kind = "option"
    /\ key' = Head(line).name
    /\ line' = Tail(line)
    /\ UNCHANGED arguments

\* What follows no option is left out.
ReadArgument ==
    /\ line # <<>>
    /\ Head(line).kind # "option"
    /\ arguments' = IF key = NoKey THEN arguments
                    ELSE Emplace(LongName(key), Head(line))
    /\ key' = NoKey
    /\ line' = Tail(line)
=============================================================================
