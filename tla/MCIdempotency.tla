---------------------------- MODULE MCIdempotency ----------------------------
(* A small instance of Idempotency.                                         *)
EXTENDS Idempotency

CONSTANTS a, b, c, d, key1, key2

\* One key is that of a command sent twice, the other that of two different
\* policy questions.
TwoAndTwo  == [r \in Requests |-> IF r \in {c, d} THEN key2 ELSE key1]
OneDiffers == [r \in Requests |-> IF r = c THEN 2 ELSE 1]
=============================================================================
