---------------------------- MODULE MCIdempotency ----------------------------
EXTENDS Idempotency

CONSTANTS a, b, c

\* two requests to one endpoint and one that reuses the key for another
OneStray == [r \in {a, b, c} |-> IF r = c THEN "refunds" ELSE "topups"]
=============================================================================
