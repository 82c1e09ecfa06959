--------------------------- MODULE MCOkxWatcher ---------------------------
EXTENDS OkxWatcher

\* Signals of two instruments, and signals of one.
Apart    == [s \in Signals |-> IF s = "s1" THEN "a" ELSE "b"]
Together == [s \in Signals |-> "a"]
=============================================================================
