----------------------------- MODULE MCRealtime -----------------------------
\* Realtime, instantiated for TLC: one instance holds the connections, the other
\* only stores changes.
EXTENDS Realtime, TLC

CONSTANTS i1, i2

MCMaxRuns == (i1 :> 2) @@ (i2 :> 0)
=============================================================================
