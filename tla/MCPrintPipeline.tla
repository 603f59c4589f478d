-------------------------- MODULE MCPrintPipeline --------------------------
\* Instances of PrintPipeline for TLC.
EXTENDS PrintPipelineClaims, TLC

\* Every order has all the documents: orders share them, if there are two.
MCDocs == [j \in Job |-> Doc]

\* Orders, slots and printers are interchangeable: the specification names none
\* of them, and the runs that use this set check safety only.
Symmetry == Permutations(Job) \cup Permutations(Slot) \cup Permutations(Printer)
=============================================================================
