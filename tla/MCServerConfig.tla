--------------------------- MODULE MCServerConfig ---------------------------
(* Configuration files for TLC: the two sections in both orders, with up to *)
(* two entries of any kind and up to MaxServers servers; and files that go  *)
(* on after the second section; each with every replica number.  And one    *)
(* file with every command line of up to MaxArguments arguments.            *)
EXTENDS ServerConfig

CONSTANTS MaxServers, Values, MaxArguments

Token(w) == [word |-> w, value |-> 0]
Numbers == {[word |-> "number", value |-> v] : v \in Values}

EntryTokens ==
    {<<Token("-"), Token(n), v>> :
        n \in {"read_quorum:", "write_quorum:"}, v \in Numbers \cup {Token("other")}}
    \cup {<<Token("-"), Token("other"), Token("other")>>}

ConfigSections ==
    {<<Token("config:")>>}
    \cup {<<Token("config:")>> \o e : e \in EntryTokens}
    \cup {<<Token("config:")>> \o e \o f : e, f \in EntryTokens}

Servers(n) ==
    <<Token("servers:")>> \o
        [i \in 1 .. 2 * n |-> Token(IF i % 2 = 1 THEN "-" ELSE "other")]

ServersSections == {Servers(n) : n \in 0 .. MaxServers}

MCFiles ==
    {c \o s : c \in ConfigSections, s \in ServersSections}
    \cup {s \o c : c \in ConfigSections, s \in ServersSections}
    \cup {c \o c \o Servers(2) : c \in ConfigSections}

Option(n) == [kind |-> "option", name |-> n, value |-> 0]
Number(v) == [kind |-> "number", name |-> NoKey, value |-> v]
SomeText == [kind |-> "text", name |-> NoKey, value |-> 0]

\* As start.py does it.
StartReplica(n) ==
    <<Option("r"), Number(n), Option("c"), SomeText, Option("d"), SomeText,
      Option("l"), Number(1)>>

Majorities ==
    {<<Token("-"), Token(n), [word |-> "number", value |-> 2]>> :
        n \in {"read_quorum:", "write_quorum:"}}

SomeArguments ==
    {Option("r"), Option("replica"), Option("load-datastore"), Option("l"),
     Option(NoKey), Number(0), Number(1), SomeText}

MCStarts ==
    [line : {StartReplica(n) : n \in -1 .. MaxServers + 1}, file : MCFiles]
    \cup [line : UNION {[1 .. n -> SomeArguments] : n \in 0 .. MaxArguments},
          file : {<<Token("config:")>> \o e \o f \o Servers(2) : e, f \in Majorities}]
=============================================================================
