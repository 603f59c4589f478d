--------------------------- MODULE MCDocumentEditor ---------------------------
\* Two images, the first of which was edited before.
EXTENDS DocumentEditor

MCItems == <<"a", "b">>
MCEdited == {"a"}
=============================================================================
