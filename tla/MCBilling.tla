------------------------------ MODULE MCBilling ------------------------------
\* Instances of Billing for TLC.
EXTENDS Billing

\* A free plan, and a dear one on a longer cycle.
MCPrice == [p \in Plan |-> IF p = "free" THEN 0 ELSE 4]
MCTerm == [p \in Plan |-> IF p = "free" THEN 1 ELSE 2]
=============================================================================
