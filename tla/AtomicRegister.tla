--------------------------- MODULE AtomicRegister ---------------------------
(***************************************************************************)
(* What the replicated store promises its clients for one key: an atomic   *)
(* register.  A put takes effect at one instant between its arrival and    *)
(* its reply; a get returns a value the key had at an instant between its  *)
(* arrival and its reply.                                                  *)
(***************************************************************************)
EXTENDS Naturals, Sequences

CONSTANTS Puts, Gets, NoValue

Requests == Puts \cup Gets

VARIABLES
    history,   \* the puts that took effect, in order
    status,    \* status[t]: "idle", "pending" or "returned"
    since,     \* since[t]: length of history when t arrived
    result     \* result[t]: what the get t returned

vars == <<history, status, since, result>>

Init ==
    /\ history = <<>>
    /\ status = [t \in Requests |-> "idle"]
    /\ since = [t \in Requests |-> 0]
    /\ result = [t \in Requests |-> NoValue]

Arrive(t) ==
    /\ status[t] = "idle"
    /\ status' = [status EXCEPT ![t] = "pending"]
    /\ since' = [since EXCEPT ![t] = Len(history)]
    /\ UNCHANGED <<history, result>>

Write(t) ==
    /\ t \in Puts
    /\ status[t] = "pending"
    /\ history' = Append(history, t)
    /\ status' = [status EXCEPT ![t] = "returned"]
    /\ UNCHANGED <<since, result>>

\* The value the key had after the first n writes.
ValueAfter(n) == IF n = 0 THEN NoValue ELSE history[n]

Read(t) ==
    /\ t \in Gets
    /\ status[t] = "pending"
    /\ \E n \in since[t] .. Len(history) :
          result' = [result EXCEPT ![t] = ValueAfter(n)]
    /\ status' = [status EXCEPT ![t] = "returned"]
    /\ UNCHANGED <<history, since>>

Next == \E t \in Requests : Arrive(t) \/ Write(t) \/ Read(t)

Spec == Init /\ [][Next]_vars
=============================================================================
