--------------------------- MODULE MCFlushControl ---------------------------
EXTENDS FlushControl

\* completion_wait = auto, and a cap of one unit.
CapChoices == {Never, 1}
=============================================================================
