---------------------------- MODULE MCOutboxRelay ----------------------------
\* OutboxRelay, instantiated for TLC.
EXTENDS OutboxRelay

MCSinks == <<"webhook", "bus">>
=============================================================================
