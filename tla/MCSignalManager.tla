-------------------------- MODULE MCSignalManager --------------------------
\* Two signals that compete for one slot of one user, with and without auto-close.
EXTENDS SignalManager, TLC

MCPlainSig == [s \in Signals |-> [symbol |-> "BTCUSDT", market |-> "futures", autoClose |-> FALSE]]
MCSig == [s \in Signals |-> [symbol |-> "BTCUSDT", market |-> "futures", autoClose |-> TRUE]]

\* The signals differ in nothing, and no CHOOSE ranges over them.
AlikeSignals == Permutations(Signals)
=============================================================================
