----------------------------- MODULE MCFraming -----------------------------
(* Small instances of Framing for TLC. *)
EXTENDS Framing

\* With a buffer of six bytes: messages that come in one read, alone or with others,
\* and ones that are as long as the buffer and never do.
MCLengths == <<1, 4, 2, 3, 4, 1>>
=============================================================================
