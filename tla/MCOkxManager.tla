--------------------------- MODULE MCOkxManager ---------------------------
EXTENDS OkxManager

\* Both signals are of one instrument, so that one replaces the other.
MCInstOf == [s \in Signals |-> "a"]
=============================================================================
