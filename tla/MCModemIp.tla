------------------------------ MODULE MCModemIp ------------------------------
EXTENDS ModemIp

\* The device with all defaults and the key of its modem wired: it searches for
\* its position (ip_enable_gps) and makes no status reports
\* (ip_report_interval_sec is 0).
Default == [autoprobe |-> TRUE, use_gps |-> TRUE, initial_gps |-> FALSE,
            report |-> FALSE, key |-> TRUE, configure |-> TRUE, year |-> FALSE]

\* One set up to report and not to search.
Reporter == [Default EXCEPT !.use_gps = FALSE, !.report = TRUE]

\* And a bare one: no key, no probe, the position before the first connection.
Bare == [autoprobe |-> FALSE, use_gps |-> TRUE, initial_gps |-> TRUE,
         report |-> FALSE, key |-> FALSE, configure |-> FALSE, year |-> TRUE]

MCOptions == {Default, Reporter, Bare}

=============================================================================
