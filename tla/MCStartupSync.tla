--------------------------- MODULE MCStartupSync ---------------------------
(* Small instances of StartupSync for TLC.  What former runs left: two puts  *)
(* of key k1, the first one at every replica that is not named otherwise,   *)
(* and key k2 at some replicas.                                             *)
EXTENDS StartupSync

CONSTANTS k1, k2, p1, p2, old, new

MCKeyOf == [t \in Puts |-> k1]

\* The replicas that have the second put of k1, and those that have k2.
Files(second, other) ==
    [r \in Replicas |->
        [k \in Keys |->
            CASE k = k1 -> IF r \in second THEN Entry(new, 2) ELSE Entry(old, 1)
              [] k = k2 -> IF r \in other THEN Entry(old, 1) ELSE Absent]]

\* With four replicas, a put of k1 has left out one that serves, and k2 is
\* missing at one that starts; with three, the one that starts lacks both.
MCInitialStores ==
    IF N = 4 THEN {Files({1, 2, 3}, {0, 1, 3})} ELSE {Files({0, 1}, {0, 1})}
=============================================================================
