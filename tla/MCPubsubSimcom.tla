--------------------------- MODULE MCPubsubSimcom ---------------------------
EXTENDS PubsubSimcom

\* A SIM7080 with certificates and the heartbeat watched, and a modem whose FTP
\* needs a bearer, without the heartbeat and with locks that are waited for.
Watched == [breaker |-> TRUE, bearer |-> FALSE, ssl |-> TRUE, reuse |-> FALSE, heartbeat |-> TRUE]
Plain   == [breaker |-> FALSE, bearer |-> TRUE, ssl |-> FALSE, reuse |-> TRUE, heartbeat |-> FALSE]

MCOptions == {Watched, Plain}

=============================================================================
