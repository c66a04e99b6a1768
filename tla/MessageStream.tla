--------------------------- MODULE MessageStream ---------------------------
(***************************************************************************)
(* What one direction of a connection promises its callers, abstractly:    *)
(* each call of receive handles the next message that was sent, and when   *)
(* the sender has closed the connection the receiver ends too, with every  *)
(* message handled.                                                        *)
(***************************************************************************)
EXTENDS Naturals

CONSTANT Amount      \* messages the sender has to send

VARIABLES
    sent,        \* messages sent
    handled,     \* handled: the messages handled are 1 .. handled, in order
    returned,    \* calls of receive that have returned
    senderOpen,  \* the sender has not closed
    open         \* the receiver has not closed

vars == <<sent, handled, returned, senderOpen, open>>

Init ==
    /\ sent = 0
    /\ handled = 0
    /\ returned = 0
    /\ senderOpen = TRUE
    /\ open = TRUE

Send ==
    /\ senderOpen
    /\ sent < Amount
    /\ sent' = sent + 1
    /\ UNCHANGED <<handled, returned, senderOpen, open>>

Receive ==
    /\ open
    /\ handled < sent
    /\ handled' = handled + 1
    /\ returned' = returned + 1
    /\ UNCHANGED <<sent, senderOpen, open>>

SenderCloses ==
    /\ senderOpen
    /\ senderOpen' = FALSE
    /\ UNCHANGED <<sent, handled, returned, open>>

ReceiverCloses ==
    /\ open
    /\ ~senderOpen
    /\ handled = sent
    /\ open' = FALSE
    /\ UNCHANGED <<sent, handled, returned, senderOpen>>

Next == Send \/ Receive \/ SenderCloses \/ ReceiverCloses

Spec == Init /\ [][Next]_vars /\ WF_vars(Receive) /\ WF_vars(ReceiverCloses)
=============================================================================
